------------------------------ MODULE MCMemoryLog ------------------------------
(***************************************************************************)
(* Settings that are missing, zero, and with a field that the file lacks   *)
(* or that is named twice; status files with a key twice; statistics that  *)
(* are consistent, inconsistent and partly unreadable.                     *)
(***************************************************************************)
EXTENDS MemoryLog

MCSettings ==
    [logmemoryuse : {{}, {0}, {1}},
     logmemoryfields : {{}, {<<"VmRSS", "Absent", "VmRSS">>}}]

MCStatusFiles ==
    {<<<<"VmRSS", 7>>, <<"RssAnon", 5>>, <<"RssFile", 2>>>>,
     <<<<"RssFile", 2>>, <<"VmRSS", 7>>, <<"VmRSS", 8>>>>}

MCStatistics == [{"stats.allocated", "stats.active"} -> {Failed, 0, 3, 4}]

MCFailed == -1

=============================================================================
