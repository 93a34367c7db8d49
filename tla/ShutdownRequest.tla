---------------------------- MODULE ShutdownRequest ----------------------------
(***************************************************************************)
(* The flag that shutdownServer of source/Server.cpp raises, and that the  *)
(* accept loop, the start of the pools, and the memory log read, each in a *)
(* thread of its own.                                                      *)
(***************************************************************************)

VARIABLE itsShutdownRequested

\* It is never lowered; to raise it again changes nothing.
requestShutdown == ~itsShutdownRequested /\ itsShutdownRequested' = TRUE

=============================================================================
