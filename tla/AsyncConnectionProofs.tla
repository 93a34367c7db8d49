------------------------ MODULE AsyncConnectionProofs ------------------------
(***************************************************************************)
(* Theorems about AsyncConnection, for every value of its constants.       *)
(***************************************************************************)
EXTENDS AsyncConnection, TLAPS

-----------------------------------------------------------------------------
(* Types.  Counters, flags and program counters are separate lemmas: the   *)
(* first need arithmetic, the second propositional reasoning only.         *)

\* Counters stay natural numbers through sendStockReply and finishResponse.
LEMMA NumbersReply ==
    ASSUME NumberTypeOK, ConnectionAssumption, NEW t \in Threads, ReplyStep(t)
    PROVE  NumberTypeOK'
<1> USE DEF NumberTypeOK, clientVars, timerVars, reportVars, countVars, StockReturns
<1>1. CASE writeStockReply(t)
  BY <1>1 DEF writeStockReply
<1>2. CASE endStockReply(t)
  BY <1>2 DEF endStockReply
<1>3. CASE finishResponse(t)
  BY <1>3 DEF finishResponse
<1>4. CASE armForNextRequest(t)
  BY <1>4 DEF armForNextRequest, armTimer
<1>5. CASE readNextRequest(t)
  BY <1>5 DEF readNextRequest
<1> QED
  BY <1>1, <1>2, <1>3, <1>4, <1>5 DEF ReplyStep

\* Counters stay natural numbers: no step takes out of the buffer more than is in it.
LEMMA NumbersStep ==
    ASSUME NumberTypeOK, ConnectionAssumption, [Next]_vars
    PROVE  NumberTypeOK'
<1> USE DEF NumberTypeOK, clientVars, timerVars, reportVars, countVars, StockReturns
<1>1. CASE ClientSend
  BY <1>1 DEF ClientSend
<1>2. CASE ClientClose
  BY <1>2 DEF ClientClose
<1>3. CASE handleHandshake
  BY <1>3 DEF handleHandshake
<1>4. CASE shutdownServer
  BY <1>4 DEF shutdownServer
<1>5. CASE start
  BY <1>5 DEF start, armTimer
<1>6. CASE handleHandshakeError
  BY <1>6 DEF handleHandshakeError
<1>7. CASE handleReadShutdown
  BY <1>7 DEF handleReadShutdown
<1>8. CASE handleReadError
  BY <1>8 DEF handleReadError
<1>9. CASE handleRead
  BY <1>9 DEF handleRead
<1>10. CASE rearmForRequest
  BY <1>10 DEF rearmForRequest, armTimer
<1>11. CASE refuseInput
  BY <1>11 DEF refuseInput
<1>12. CASE handleIncompleteRequest
  BY <1>12 DEF handleIncompleteRequest
<1>13. CASE resolveClientIPFails
  BY <1>13 DEF resolveClientIPFails, CompleteRequest, ConnectionAssumption
<1>14. CASE handleParsedRequest
  BY <1>14 DEF handleParsedRequest, ConnectionAssumption
<1>15. CASE replyDirectly
  BY <1>15 DEF replyDirectly
<1>16. CASE scheduleRequest
  BY <1>16 DEF scheduleRequest
<1>17. CASE timerExpires
  BY <1>17 DEF timerExpires
<1>18. CASE handleTimer
  BY <1>18 DEF handleTimer
<1>19. CASE dropIdleConnection
  BY <1>19 DEF dropIdleConnection
<1>20. CASE reportTimeout
  BY <1>20 DEF reportTimeout
<1>21. CASE cancelTimeout
  BY <1>21 DEF cancelTimeout
<1>22. CASE cancelDisconnectWatch
  BY <1>22 DEF cancelDisconnectWatch
<1>23. CASE callPlugin
  BY <1>23 DEF callPlugin
<1>24. CASE writeReply
  BY <1>24 DEF writeReply
<1>25. CASE abortReply
  BY <1>25 DEF abortReply
<1>26. CASE reportInfo
  BY <1>26 DEF reportInfo
<1>27. CASE destroy
  BY <1>27 DEF destroy
<1>28. CASE Terminated
  BY <1>28 DEF Terminated, vars
<1>29. ASSUME NEW t \in Threads, ReplyStep(t)
      PROVE  NumberTypeOK'
  BY <1>29, NumbersReply
<1>30. CASE UNCHANGED vars
  BY <1>30 DEF vars
<1>31. CASE readCompletes
  BY <1>31 DEF readCompletes
<1>32. CASE resolveClientIP
  BY <1>32 DEF resolveClientIP, CompleteRequest, ConnectionAssumption
<1> QED
  BY <1>1, <1>2, <1>3, <1>4, <1>5, <1>6, <1>7, <1>8, <1>9, <1>10, <1>11, <1>12, <1>13,
     <1>14, <1>15, <1>16, <1>17, <1>18, <1>19, <1>20, <1>21, <1>22, <1>23, <1>24, <1>25,
     <1>26, <1>27, <1>28, <1>29, <1>30, <1>31, <1>32
     DEF Next, ClientStep, ReaderStep, TimerStep, PoolStep, Threads

\* Flags stay Boolean through sendStockReply and finishResponse.
LEMMA FlagsReply ==
    ASSUME FlagTypeOK, NEW t \in Threads, ReplyStep(t)
    PROVE  FlagTypeOK'
<1> USE DEF FlagTypeOK, clientVars, reportVars, flagVars, StockReturns
<1>1. CASE writeStockReply(t)
  BY <1>1, Zenon DEF writeStockReply
<1>2. CASE endStockReply(t)
  BY <1>2, Zenon DEF endStockReply
<1>3. CASE finishResponse(t)
  BY <1>3, Zenon DEF finishResponse
<1>4. CASE armForNextRequest(t)
  BY <1>4, Zenon DEF armForNextRequest, armTimer
<1>5. CASE readNextRequest(t)
  BY <1>5, Zenon DEF readNextRequest
<1> QED
  BY <1>1, <1>2, <1>3, <1>4, <1>5 DEF ReplyStep

\* Flags stay Boolean.
LEMMA FlagsStep ==
    ASSUME FlagTypeOK, [Next]_vars
    PROVE  FlagTypeOK'
<1> USE DEF FlagTypeOK, clientVars, reportVars, flagVars, StockReturns
<1>1. CASE ClientSend
  BY <1>1, Zenon DEF ClientSend
<1>2. CASE ClientClose
  BY <1>2, Zenon DEF ClientClose
<1>3. CASE handleHandshake
  BY <1>3, Zenon DEF handleHandshake
<1>4. CASE shutdownServer
  BY <1>4, Zenon DEF shutdownServer
<1>5. CASE start
  BY <1>5, Zenon DEF start, armTimer
<1>6. CASE handleHandshakeError
  BY <1>6, Zenon DEF handleHandshakeError
<1>7. CASE handleReadShutdown
  BY <1>7, Zenon DEF handleReadShutdown
<1>8. CASE handleReadError
  BY <1>8, Zenon DEF handleReadError
<1>9. CASE handleRead
  BY <1>9, Zenon DEF handleRead
<1>10. CASE rearmForRequest
  BY <1>10, Zenon DEF rearmForRequest, armTimer
<1>11. CASE refuseInput
  BY <1>11, Zenon DEF refuseInput
<1>12. CASE handleIncompleteRequest
  BY <1>12, Zenon DEF handleIncompleteRequest
<1>13. CASE resolveClientIPFails
  BY <1>13, Zenon DEF resolveClientIPFails, CompleteRequest
<1>14. CASE handleParsedRequest
  BY <1>14, Zenon DEF handleParsedRequest, evaluateKeepAlive
<1>15. CASE replyDirectly
  BY <1>15, Zenon DEF replyDirectly
<1>16. CASE scheduleRequest
  BY <1>16, Zenon DEF scheduleRequest
<1>17. CASE timerExpires
  BY <1>17, Zenon DEF timerExpires
<1>18. CASE handleTimer
  BY <1>18, Zenon DEF handleTimer
<1>19. CASE dropIdleConnection
  BY <1>19, Zenon DEF dropIdleConnection
<1>20. CASE reportTimeout
  BY <1>20, Zenon DEF reportTimeout
<1>21. CASE cancelTimeout
  BY <1>21, Zenon DEF cancelTimeout
<1>22. CASE cancelDisconnectWatch
  BY <1>22, Zenon DEF cancelDisconnectWatch
<1>23. CASE callPlugin
  BY <1>23, Zenon DEF callPlugin
<1>24. CASE writeReply
  BY <1>24, Zenon DEF writeReply
<1>25. CASE abortReply
  BY <1>25, Zenon DEF abortReply
<1>26. CASE reportInfo
  BY <1>26, Zenon DEF reportInfo
<1>27. CASE destroy
  BY <1>27, Zenon DEF destroy
<1>28. CASE Terminated
  BY <1>28, Zenon DEF Terminated, vars
<1>29. ASSUME NEW t \in Threads, ReplyStep(t)
      PROVE  FlagTypeOK'
  BY <1>29, FlagsReply
<1>30. CASE UNCHANGED vars
  BY <1>30, Zenon DEF vars
<1>31. CASE readCompletes
  BY <1>31, Zenon DEF readCompletes
<1>32. CASE resolveClientIP
  BY <1>32, Zenon DEF resolveClientIP, CompleteRequest
<1> QED
  BY <1>1, <1>2, <1>3, <1>4, <1>5, <1>6, <1>7, <1>8, <1>9, <1>10, <1>11, <1>12, <1>13,
     <1>14, <1>15, <1>16, <1>17, <1>18, <1>19, <1>20, <1>21, <1>22, <1>23, <1>24, <1>25,
     <1>26, <1>27, <1>28, <1>29, <1>30, <1>31, <1>32
     DEF Next, ClientStep, ReaderStep, TimerStep, PoolStep, Threads

\* Every activity stays within its own steps, whichever of them calls sendStockReply.
LEMMA StepsReply ==
    ASSUME StepTypeOK, NEW t \in Threads, ReplyStep(t)
    PROVE  StepTypeOK'
<1> USE DEF StepTypeOK, Threads, Steps, ReplySteps, ReaderSteps, TimerSteps, PoolSteps, Goto
<1>1. CASE writeStockReply(t)
  BY <1>1 DEF writeStockReply
<1>2. CASE endStockReply(t)
  BY <1>2 DEF endStockReply
<1>3. CASE finishResponse(t)
  BY <1>3 DEF finishResponse
<1>4. CASE armForNextRequest(t)
  BY <1>4 DEF armForNextRequest, armTimer
<1>5. CASE readNextRequest(t)
  BY <1>5 DEF readNextRequest
<1> QED
  BY <1>1, <1>2, <1>3, <1>4, <1>5 DEF ReplyStep

\* Every activity stays within its own steps.
LEMMA StepsStep ==
    ASSUME StepTypeOK, [Next]_vars
    PROVE  StepTypeOK'
<1> USE DEF StepTypeOK, Threads, Steps, ReplySteps, ReaderSteps, TimerSteps, PoolSteps, Goto
<1>1. CASE ClientSend
  BY <1>1 DEF ClientSend
<1>2. CASE ClientClose
  BY <1>2 DEF ClientClose
<1>3. CASE handleHandshake
  BY <1>3 DEF handleHandshake
<1>4. CASE shutdownServer
  BY <1>4 DEF shutdownServer
<1>5. CASE start
  BY <1>5 DEF start, armTimer
<1>6. CASE handleHandshakeError
  BY <1>6 DEF handleHandshakeError
<1>7. CASE handleReadShutdown
  BY <1>7 DEF handleReadShutdown
<1>8. CASE handleReadError
  BY <1>8 DEF handleReadError
<1>9. CASE handleRead
  BY <1>9 DEF handleRead
<1>10. CASE rearmForRequest
  BY <1>10 DEF rearmForRequest, armTimer
<1>11. CASE refuseInput
  BY <1>11 DEF refuseInput
<1>12. CASE handleIncompleteRequest
  BY <1>12 DEF handleIncompleteRequest
<1>13. CASE resolveClientIPFails
  BY <1>13 DEF resolveClientIPFails, CompleteRequest
<1>14. CASE handleParsedRequest
  BY <1>14 DEF handleParsedRequest
<1>15. CASE replyDirectly
  BY <1>15 DEF replyDirectly
<1>16. CASE scheduleRequest
  BY <1>16 DEF scheduleRequest
<1>17. CASE timerExpires
  BY <1>17 DEF timerExpires
<1>18. CASE handleTimer
  BY <1>18 DEF handleTimer
<1>19. CASE dropIdleConnection
  BY <1>19 DEF dropIdleConnection
<1>20. CASE reportTimeout
  BY <1>20 DEF reportTimeout
<1>21. CASE cancelTimeout
  BY <1>21 DEF cancelTimeout
<1>22. CASE cancelDisconnectWatch
  BY <1>22 DEF cancelDisconnectWatch
<1>23. CASE callPlugin
  BY <1>23 DEF callPlugin
<1>24. CASE writeReply
  BY <1>24 DEF writeReply
<1>25. CASE abortReply
  BY <1>25 DEF abortReply
<1>26. CASE reportInfo
  BY <1>26 DEF reportInfo
<1>27. CASE destroy
  BY <1>27 DEF destroy
<1>28. CASE Terminated
  BY <1>28 DEF Terminated, vars
<1>29. ASSUME NEW t \in Threads, ReplyStep(t)
      PROVE  StepTypeOK'
  BY <1>29, StepsReply
<1>30. CASE UNCHANGED vars
  BY <1>30 DEF vars
<1>31. CASE readCompletes
  BY <1>31 DEF readCompletes
<1>32. CASE resolveClientIP
  BY <1>32 DEF resolveClientIP, CompleteRequest
<1> QED
  BY <1>1, <1>2, <1>3, <1>4, <1>5, <1>6, <1>7, <1>8, <1>9, <1>10, <1>11, <1>12, <1>13,
     <1>14, <1>15, <1>16, <1>17, <1>18, <1>19, <1>20, <1>21, <1>22, <1>23, <1>24, <1>25,
     <1>26, <1>27, <1>28, <1>29, <1>30, <1>31, <1>32
     DEF Next, ClientStep, ReaderStep, TimerStep, PoolStep, Threads

-----------------------------------------------------------------------------
(* Ownership: stamps, the mutex, and who has the connection.               *)

\* Ownership survives sendStockReply and finishResponse, whoever calls them.
LEMMA OwnershipReply ==
    ASSUME NumberTypeOK, StepTypeOK, OwnershipInv, NEW t \in Threads, ReplyStep(t)
    PROVE  OwnershipInv'
<1> USE DEF OwnershipInv, StampInv, TimerInv, TimerNeverRearms, OneRequestInFlight,
           PoolThreadUndisturbed, PoolBusy, NumberTypeOK, StepTypeOK, Threads, Goto,
           MutexFree, timerVars, flagVars
<1>1. CASE writeStockReply(t)
  BY <1>1, SMTT(30) DEF writeStockReply
<1>2. CASE endStockReply(t)
  BY <1>2, SMTT(30) DEF endStockReply
<1>3. CASE finishResponse(t)
  BY <1>3, SMTT(30) DEF finishResponse, mayReuse
<1>4. CASE armForNextRequest(t)
  BY <1>4, SMTT(30) DEF armForNextRequest, armTimer
<1>5. CASE readNextRequest(t)
  BY <1>5, SMTT(30) DEF readNextRequest
<1> QED
  BY <1>1, <1>2, <1>3, <1>4, <1>5 DEF ReplyStep

\* Ownership survives every step.
LEMMA OwnershipStep ==
    ASSUME NumberTypeOK, StepTypeOK, OwnershipInv, [Next]_vars
    PROVE  OwnershipInv'
<1> USE DEF OwnershipInv, StampInv, TimerInv, TimerNeverRearms, OneRequestInFlight,
           PoolThreadUndisturbed, PoolBusy, NumberTypeOK, StepTypeOK, Threads, Goto,
           MutexFree, timerVars, flagVars
<1>1. CASE ClientSend
  BY <1>1, SMTT(30) DEF ClientSend
<1>2. CASE ClientClose
  BY <1>2, SMTT(30) DEF ClientClose
<1>3. CASE handleHandshake
  BY <1>3, SMTT(30) DEF handleHandshake
<1>4. CASE shutdownServer
  BY <1>4, SMTT(30) DEF shutdownServer
<1>5. CASE start
  BY <1>5, SMTT(30) DEF start, armTimer
<1>6. CASE handleHandshakeError
  BY <1>6, SMTT(30) DEF handleHandshakeError
<1>7. CASE handleReadShutdown
  BY <1>7, SMTT(30) DEF handleReadShutdown
<1>8. CASE handleReadError
  BY <1>8, SMTT(30) DEF handleReadError
<1>9. CASE handleRead
  BY <1>9, SMTT(30) DEF handleRead
<1>10. CASE rearmForRequest
  BY <1>10, SMTT(30) DEF rearmForRequest, armTimer
<1>11. CASE refuseInput
  BY <1>11, SMTT(30) DEF refuseInput
<1>12. CASE handleIncompleteRequest
  BY <1>12, SMTT(30) DEF handleIncompleteRequest
<1>13. CASE resolveClientIPFails
  BY <1>13, SMTT(30) DEF resolveClientIPFails, CompleteRequest
<1>14. CASE handleParsedRequest
  BY <1>14, SMTT(30) DEF handleParsedRequest
<1>15. CASE replyDirectly
  BY <1>15, SMTT(30) DEF replyDirectly
<1>16. CASE scheduleRequest
  BY <1>16, SMTT(30) DEF scheduleRequest
<1>17. CASE timerExpires
  BY <1>17, SMTT(30) DEF timerExpires
<1>18. CASE handleTimer
  BY <1>18, SMTT(30) DEF handleTimer, StaleFiring
<1>19. CASE dropIdleConnection
  BY <1>19, SMTT(30) DEF dropIdleConnection
<1>20. CASE reportTimeout
  BY <1>20, SMTT(30) DEF reportTimeout
<1>21. CASE cancelTimeout
  BY <1>21, SMTT(30) DEF cancelTimeout
<1>22. CASE cancelDisconnectWatch
  BY <1>22, SMTT(30) DEF cancelDisconnectWatch
<1>23. CASE callPlugin
  BY <1>23, SMTT(30) DEF callPlugin
<1>24. CASE writeReply
  BY <1>24, SMTT(30) DEF writeReply
<1>25. CASE abortReply
  BY <1>25, SMTT(30) DEF abortReply
<1>26. CASE reportInfo
  BY <1>26, SMTT(30) DEF reportInfo
<1>27. CASE destroy
  BY <1>27, SMTT(30) DEF destroy
<1>28. CASE Terminated
  BY <1>28, SMTT(30) DEF Terminated, vars
<1>29. ASSUME NEW t \in Threads, ReplyStep(t)
      PROVE  OwnershipInv'
  BY <1>29, OwnershipReply
<1>30. CASE UNCHANGED vars
  BY <1>30, SMTT(30) DEF vars
<1>31. CASE readCompletes
  BY <1>31, SMTT(30) DEF readCompletes
<1>32. CASE resolveClientIP
  BY <1>32, SMTT(30) DEF resolveClientIP, CompleteRequest
<1> QED
  BY <1>1, <1>2, <1>3, <1>4, <1>5, <1>6, <1>7, <1>8, <1>9, <1>10, <1>11, <1>12, <1>13,
     <1>14, <1>15, <1>16, <1>17, <1>18, <1>19, <1>20, <1>21, <1>22, <1>23, <1>24, <1>25,
     <1>26, <1>27, <1>28, <1>29, <1>30, <1>31, <1>32
     DEF Next, ClientStep, ReaderStep, TimerStep, PoolStep, Threads

-----------------------------------------------------------------------------
(* Requests and answers.                                                   *)

\* A stock reply answers the request in flight or refuses, and only an answered connection
\* is reused.
LEMMA RequestReply ==
    ASSUME NumberTypeOK, StepTypeOK, OwnershipInv, RequestInv, ConnectionAssumption,
           NEW t \in Threads, ReplyStep(t)
    PROVE  RequestInv'
<1> USE DEF RequestInv, AwaitingInv, AwaitingRequest, Reading, AnswerInv, PersistenceInv,
           RequestLimitKept, OwnershipInv, TimerInv, TimerNeverRearms, OneRequestInFlight,
           PoolThreadUndisturbed, PoolBusy, NumberTypeOK, StepTypeOK, Threads, Goto,
           MutexFree, countVars, flagVars
<1>1. CASE writeStockReply(t)
  BY <1>1, SMTT(30) DEF writeStockReply
<1>2. CASE endStockReply(t)
  BY <1>2, SMTT(30) DEF endStockReply
<1>3. CASE finishResponse(t)
  BY <1>3, SMTT(30) DEF finishResponse, mayReuse
<1>4. CASE armForNextRequest(t)
  BY <1>4, SMTT(30) DEF armForNextRequest, armTimer
<1>5. CASE readNextRequest(t)
  BY <1>5, SMTT(30) DEF readNextRequest
<1> QED
  BY <1>1, <1>2, <1>3, <1>4, <1>5 DEF ReplyStep

\* Requests and answers stay in step.
LEMMA RequestStep ==
    ASSUME NumberTypeOK, StepTypeOK, OwnershipInv, RequestInv, ConnectionAssumption,
           [Next]_vars
    PROVE  RequestInv'
<1> USE DEF RequestInv, AwaitingInv, AwaitingRequest, Reading, AnswerInv, PersistenceInv,
           RequestLimitKept, OwnershipInv, TimerInv, TimerNeverRearms, OneRequestInFlight,
           PoolThreadUndisturbed, PoolBusy, NumberTypeOK, StepTypeOK, Threads, Goto,
           MutexFree, countVars, flagVars
<1>1. CASE ClientSend
  BY <1>1, SMTT(30) DEF ClientSend
<1>2. CASE ClientClose
  BY <1>2, SMTT(30) DEF ClientClose
<1>3. CASE handleHandshake
  BY <1>3, SMTT(30) DEF handleHandshake
<1>4. CASE shutdownServer
  BY <1>4, SMTT(30) DEF shutdownServer
<1>5. CASE start
  BY <1>5, SMTT(30) DEF start, armTimer
<1>6. CASE handleHandshakeError
  BY <1>6, SMTT(30) DEF handleHandshakeError
<1>7. CASE handleReadShutdown
  BY <1>7, SMTT(30) DEF handleReadShutdown
<1>8. CASE handleReadError
  BY <1>8, SMTT(30) DEF handleReadError
<1>9. CASE handleRead
  BY <1>9, SMTT(30) DEF handleRead
<1>10. CASE rearmForRequest
  BY <1>10, SMTT(30) DEF rearmForRequest, armTimer
<1>11. CASE refuseInput
  BY <1>11, SMTT(30) DEF refuseInput
<1>12. CASE handleIncompleteRequest
  BY <1>12, SMTT(30) DEF handleIncompleteRequest
<1>13. CASE resolveClientIPFails
  BY <1>13, SMTT(30) DEF resolveClientIPFails, CompleteRequest
<1>14. CASE handleParsedRequest
  BY <1>14, SMTT(30) DEF handleParsedRequest, evaluateKeepAlive
<1>15. CASE replyDirectly
  BY <1>15, SMTT(30) DEF replyDirectly
<1>16. CASE scheduleRequest
  BY <1>16, SMTT(30) DEF scheduleRequest
<1>17. CASE timerExpires
  BY <1>17, SMTT(30) DEF timerExpires
<1>18. CASE handleTimer
  BY <1>18, SMTT(30) DEF handleTimer, StaleFiring
<1>19. CASE dropIdleConnection
  BY <1>19, SMTT(30) DEF dropIdleConnection
<1>20. CASE reportTimeout
  BY <1>20, SMTT(30) DEF reportTimeout
<1>21. CASE cancelTimeout
  BY <1>21, SMTT(30) DEF cancelTimeout
<1>22. CASE cancelDisconnectWatch
  BY <1>22, SMTT(30) DEF cancelDisconnectWatch
<1>23. CASE callPlugin
  BY <1>23, SMTT(30) DEF callPlugin
<1>24. CASE writeReply
  BY <1>24, SMTT(30) DEF writeReply
<1>25. CASE abortReply
  BY <1>25, SMTT(30) DEF abortReply
<1>26. CASE reportInfo
  BY <1>26, SMTT(30) DEF reportInfo
<1>27. CASE destroy
  BY <1>27, SMTT(30) DEF destroy
<1>28. CASE Terminated
  BY <1>28, SMTT(30) DEF Terminated, vars
<1>29. ASSUME NEW t \in Threads, ReplyStep(t)
      PROVE  RequestInv'
  BY <1>29, RequestReply
<1>30. CASE UNCHANGED vars
  BY <1>30, SMTT(30) DEF vars
<1>31. CASE readCompletes
  BY <1>31, SMTT(30) DEF readCompletes
<1>32. CASE resolveClientIP
  BY <1>32, SMTT(30) DEF resolveClientIP, CompleteRequest
<1> QED
  BY <1>1, <1>2, <1>3, <1>4, <1>5, <1>6, <1>7, <1>8, <1>9, <1>10, <1>11, <1>12, <1>13,
     <1>14, <1>15, <1>16, <1>17, <1>18, <1>19, <1>20, <1>21, <1>22, <1>23, <1>24, <1>25,
     <1>26, <1>27, <1>28, <1>29, <1>30, <1>31, <1>32
     DEF Next, ClientStep, ReaderStep, TimerStep, PoolStep, Threads

\* The timeout is rearmed before the next read, and the timeout handler leaves no open
\* socket to wait on.
LEMMA TimeoutReply ==
    ASSUME NumberTypeOK, StepTypeOK, OwnershipInv, RequestInv, TimeoutInv,
           NEW t \in Threads, ReplyStep(t)
    PROVE  TimeoutInv'
<1> USE DEF TimeoutInv, TimeoutPending, RequestInv, AwaitingInv, AwaitingRequest, Reading,
           OwnershipInv, StampInv, TimerNeverRearms, OneRequestInFlight, NumberTypeOK,
           StepTypeOK,
           Threads, Goto, MutexFree, timerVars
<1>1. CASE writeStockReply(t)
  BY <1>1, SMTT(30) DEF writeStockReply
<1>2. CASE endStockReply(t)
  <2>1. CASE itsKeepAlive
    BY <1>2, <2>1, SMTT(30) DEF endStockReply
  <2>2. CASE ~itsKeepAlive
    <3>1. ~sockOpen'
      BY <1>2, <2>2 DEF endStockReply
    <3> QED
      BY <3>1
  <2> QED
    BY <2>1, <2>2
<1>3. CASE finishResponse(t)
  BY <1>3, SMTT(30) DEF finishResponse, mayReuse
<1>4. CASE armForNextRequest(t)
  BY <1>4, SMTT(30) DEF armForNextRequest, armTimer
<1>5. CASE readNextRequest(t)
  BY <1>5, SMTT(30) DEF readNextRequest
<1> QED
  BY <1>1, <1>2, <1>3, <1>4, <1>5 DEF ReplyStep

\* Waiting stays bounded.
LEMMA TimeoutStep ==
    ASSUME NumberTypeOK, StepTypeOK, OwnershipInv, RequestInv, TimeoutInv, [Next]_vars
    PROVE  TimeoutInv'
<1> USE DEF TimeoutInv, TimeoutPending, RequestInv, AwaitingInv, AwaitingRequest, Reading,
           OwnershipInv, StampInv, TimerNeverRearms, OneRequestInFlight, NumberTypeOK,
           StepTypeOK,
           Threads, Goto, MutexFree, timerVars
<1>1. CASE ClientSend
  BY <1>1, SMTT(30) DEF ClientSend
<1>2. CASE ClientClose
  BY <1>2, SMTT(30) DEF ClientClose
<1>3. CASE handleHandshake
  BY <1>3, SMTT(30) DEF handleHandshake
<1>4. CASE shutdownServer
  BY <1>4, SMTT(30) DEF shutdownServer
<1>5. CASE start
  BY <1>5, SMTT(30) DEF start, armTimer
<1>6. CASE handleHandshakeError
  BY <1>6, SMTT(30) DEF handleHandshakeError
<1>7. CASE handleReadShutdown
  BY <1>7, SMTT(30) DEF handleReadShutdown
<1>8. CASE handleReadError
  BY <1>8, SMTT(30) DEF handleReadError
<1>9. CASE handleRead
  BY <1>9, SMTT(30) DEF handleRead
<1>10. CASE rearmForRequest
  BY <1>10, SMTT(30) DEF rearmForRequest, armTimer
<1>11. CASE refuseInput
  BY <1>11, SMTT(30) DEF refuseInput
<1>12. CASE handleIncompleteRequest
  BY <1>12, SMTT(30) DEF handleIncompleteRequest
<1>13. CASE resolveClientIPFails
  BY <1>13, SMTT(30) DEF resolveClientIPFails, CompleteRequest
<1>14. CASE handleParsedRequest
  BY <1>14, SMTT(30) DEF handleParsedRequest
<1>15. CASE replyDirectly
  BY <1>15, SMTT(30) DEF replyDirectly
<1>16. CASE scheduleRequest
  BY <1>16, SMTT(30) DEF scheduleRequest
<1>17. CASE timerExpires
  BY <1>17, SMTT(30) DEF timerExpires
<1>18. CASE handleTimer
  BY <1>18, SMTT(30) DEF handleTimer, StaleFiring
<1>19. CASE dropIdleConnection
  BY <1>19, SMTT(30) DEF dropIdleConnection
<1>20. CASE reportTimeout
  BY <1>20, SMTT(30) DEF reportTimeout
<1>21. CASE cancelTimeout
  BY <1>21, SMTT(30) DEF cancelTimeout
<1>22. CASE cancelDisconnectWatch
  BY <1>22, SMTT(30) DEF cancelDisconnectWatch
<1>23. CASE callPlugin
  BY <1>23, SMTT(30) DEF callPlugin
<1>24. CASE writeReply
  BY <1>24, SMTT(30) DEF writeReply
<1>25. CASE abortReply
  BY <1>25, SMTT(30) DEF abortReply
<1>26. CASE reportInfo
  BY <1>26, SMTT(30) DEF reportInfo
<1>27. CASE destroy
  BY <1>27, SMTT(30) DEF destroy
<1>28. CASE Terminated
  BY <1>28, SMTT(30) DEF Terminated, vars
<1>29. ASSUME NEW t \in Threads, ReplyStep(t)
      PROVE  TimeoutInv'
  BY <1>29, TimeoutReply
<1>30. CASE UNCHANGED vars
  BY <1>30, SMTT(30) DEF vars
<1>31. CASE readCompletes
  BY <1>31, SMTT(30) DEF readCompletes
<1>32. CASE resolveClientIP
  BY <1>32, SMTT(30) DEF resolveClientIP, CompleteRequest
<1> QED
  BY <1>1, <1>2, <1>3, <1>4, <1>5, <1>6, <1>7, <1>8, <1>9, <1>10, <1>11, <1>12, <1>13,
     <1>14, <1>15, <1>16, <1>17, <1>18, <1>19, <1>20, <1>21, <1>22, <1>23, <1>24, <1>25,
     <1>26, <1>27, <1>28, <1>29, <1>30, <1>31, <1>32
     DEF Next, ClientStep, ReaderStep, TimerStep, PoolStep, Threads

-----------------------------------------------------------------------------
(* The theorems.                                                           *)

LEMMA InitInv == ASSUME Init PROVE ConnectionInv
<1>1. NumberTypeOK
  BY ConnectionAssumption DEF Init, NumberTypeOK
<1>2. FlagTypeOK
  BY DEF Init, FlagTypeOK
<1>3. StepTypeOK
  BY DEF Init, StepTypeOK, Steps, Threads, ReaderSteps, TimerSteps, PoolSteps, ReplySteps
<1>4. OwnershipInv
  BY <1>1 DEF Init, Threads, OwnershipInv, StampInv, TimerInv, TimerNeverRearms,
              OneRequestInFlight, PoolThreadUndisturbed, PoolBusy
<1>5. RequestInv
  BY ConnectionAssumption
     DEF ConnectionAssumption, Init, Threads, RequestInv, AwaitingInv, AnswerInv,
         PersistenceInv, RequestLimitKept
<1>6. TimeoutInv
  BY DEF Init, Threads, TimeoutInv, Reading
<1> QED
  BY <1>1, <1>2, <1>3, <1>4, <1>5, <1>6 DEF ConnectionInv, TypeOK

LEMMA NextInv == ASSUME ConnectionInv, [Next]_vars PROVE ConnectionInv'
<1> USE DEF ConnectionInv, TypeOK
<1>1. NumberTypeOK' /\ FlagTypeOK' /\ StepTypeOK'
  BY ConnectionAssumption, NumbersStep, FlagsStep, StepsStep
<1>2. OwnershipInv'
  BY OwnershipStep
<1>3. RequestInv'
  BY ConnectionAssumption, RequestStep
<1>4. TimeoutInv'
  BY TimeoutStep
<1> QED
  BY <1>1, <1>2, <1>3, <1>4

\* The inductive invariant holds throughout, for any number and size of requests,
\* with or without persistent connections, TLS and a request limit.
THEOREM Invariance == Spec => []ConnectionInv
<1>1. Init => ConnectionInv
  BY InitInv
<1>2. ConnectionInv /\ [Next]_vars => ConnectionInv'
  BY NextInv
<1> QED
  BY <1>1, <1>2, PTL DEF Spec

\* Every variable keeps its type: in particular the buffer is never consumed beyond
\* its contents, and every activity stays within its own steps.
THEOREM TypeCorrectness == Spec => []TypeOK
<1>1. ConnectionInv => TypeOK
  BY DEF ConnectionInv
<1> QED
  BY <1>1, Invariance, PTL

\* The generation stamp does its work: no timeout handler runs, or can still pass its
\* test, while a pool thread handles the request (handleCompletedRead).
THEOREM PoolIsUndisturbed == Spec => []PoolThreadUndisturbed
<1>1. ConnectionInv => PoolThreadUndisturbed
  BY DEF ConnectionInv, OwnershipInv
<1> QED
  BY <1>1, Invariance, PTL

\* One request in flight: no read is outstanding and no handleRead runs from the time a
\* request is queued until its response is finished (scheduleRequest, finishResponse).
THEOREM OneInFlight == Spec => []OneRequestInFlight
<1>1. ConnectionInv => OneRequestInFlight
  BY DEF ConnectionInv, OwnershipInv
<1> QED
  BY <1>1, Invariance, PTL

\* A request handed to a pool thread meets no read on its way, and from the cancel in
\* handleCompletedRead to the end of its response no timeout handler.
THEOREM OwnershipKept == Spec => []RequestIsOwned
  BY PoolIsUndisturbed, OneInFlight, PTL DEF RequestIsOwned

\* handleTimer, which holds itsMutex, never reaches the armTimer that would take it.
THEOREM NoSelfDeadlock == Spec => []TimerNeverRearms
<1>1. ConnectionInv => TimerNeverRearms
  BY DEF ConnectionInv, OwnershipInv
<1> QED
  BY <1>1, Invariance, PTL

\* Whatever is refused before a request has been parsed closes the connection.
THEOREM RefusalCloses == Spec => []NotPersistentWhileReading
<1>1. ConnectionInv => NotPersistentWhileReading
  BY DEF ConnectionInv, RequestInv, AwaitingInv, AwaitingRequest, NotPersistentWhileReading
<1> QED
  BY <1>1, Invariance, PTL

\* The request limit is kept and "Keep-Alive: max" never wraps.
THEOREM LimitIsKept == Spec => []RequestLimitKept
<1>1. ConnectionInv => RequestLimitKept
  BY DEF ConnectionInv, RequestInv
<1> QED
  BY <1>1, Invariance, PTL

\* finishResponse and evaluateKeepAlive decide anew, and within the limit, on each reuse.
THEOREM ReuseDecided == Spec => []ReuseIsDecided
  BY RefusalCloses, LimitIsKept, PTL DEF ReuseIsDecided

\* A connection never waits for its client without a timeout to end the wait.
THEOREM WaitingEnds == Spec => []WaitingIsBounded
<1>1. ConnectionInv => WaitingIsBounded
  BY DEF ConnectionInv, TimeoutInv, Reading, WaitingIsBounded
<1> QED
  BY <1>1, Invariance, PTL

-----------------------------------------------------------------------------
(* Steps that take a request, and the refinement.                          *)

\* Only a completed read takes anything from the client.
LEMMA InputTaken ==
    ASSUME NumberTypeOK, [Next]_vars, inTransit' < inTransit
    PROVE  readCompletes
<1> USE DEF NumberTypeOK, clientVars
<1>1. ASSUME NEW t \in Threads, ReplyStep(t) PROVE FALSE
  BY <1>1 DEF ReplyStep, writeStockReply, endStockReply, finishResponse,
              armForNextRequest, readNextRequest
<1>2. CASE ClientStep \/ shutdownServer
  BY <1>2 DEF ClientStep, ClientSend, ClientClose, handleHandshake, shutdownServer
<1>3. CASE ReaderStep
  BY <1>1, <1>3 DEF ReaderStep, Threads, start, handleHandshakeError, handleReadShutdown,
       handleReadError, handleRead, rearmForRequest, refuseInput, handleIncompleteRequest,
       resolveClientIP, resolveClientIPFails, handleParsedRequest, replyDirectly,
       scheduleRequest
<1>4. CASE TimerStep
  BY <1>1, <1>4 DEF TimerStep, Threads, timerExpires, handleTimer, dropIdleConnection,
       reportTimeout
<1>5. CASE PoolStep
  BY <1>1, <1>5 DEF PoolStep, Threads, cancelTimeout, cancelDisconnectWatch, callPlugin,
       writeReply, abortReply
<1>6. CASE reportInfo \/ destroy \/ Terminated \/ UNCHANGED vars
  BY <1>6 DEF reportInfo, destroy, Terminated, vars
<1> QED
  BY <1>2, <1>3, <1>4, <1>5, <1>6 DEF Next

\* After handleTimer has dealt with an expiry the socket is closed wherever a read or
\* resolveClientIP could still use it: nothing is read, and no request admitted.
THEOREM TimeoutIsFinal == Spec => NothingTakenAfterTimeout
<1>1. ConnectionInv /\ [Next]_vars =>
        [(inTransit' < inTransit \/ resolveClientIP) =>
             ~(hasTimedOut /\ pc["timer"] = "out")]_vars
  <2> SUFFICES ASSUME ConnectionInv, [Next]_vars,
                      inTransit' < inTransit \/ resolveClientIP,
                      hasTimedOut, pc["timer"] = "out"
               PROVE  FALSE
    OBVIOUS
  <2>1. readCompletes \/ resolveClientIP
    BY InputTaken DEF ConnectionInv, TypeOK
  <2>2. sockOpen /\ pc["reader"] \in {"read", "parse"}
    BY <2>1 DEF readCompletes, resolveClientIP, Goto
  <2>3. AwaitingRequest
    BY <2>2 DEF AwaitingRequest, Reading
  <2> QED
    BY <2>2, <2>3 DEF ConnectionInv, RequestInv, AwaitingInv
<1> QED
  BY <1>1, Invariance, PTL DEF Spec, NothingTakenAfterTimeout

\* Under the invariant a step of sendStockReply answers, refuses, or changes nothing the
\* client was promised.
LEMMA ReplyStepRefines ==
    ASSUME NumberTypeOK, StepTypeOK, OwnershipInv, RequestInv,
           NEW t \in Threads, ReplyStep(t)
    PROVE  [Promise!Next]_(Promise!vars)
<1> USE DEF Promise!vars, countVars
<1>1. CASE writeStockReply(t)
  <2>1. CASE UNCHANGED answered
    BY <1>1, <2>1 DEF writeStockReply
  <2>2. CASE answered' = answered + 1 /\ t # "timer"
    <3>1. UNCHANGED itsRequestCount /\ pc[t] = "stock"
      BY <1>1 DEF writeStockReply, Goto
    <3>2. answered + 1 = itsRequestCount \/ answered = itsRequestCount
      BY <2>2, <3>1 DEF Threads, RequestInv, AnswerInv
    <3> QED
      BY <2>2, <3>1, <3>2
         DEF NumberTypeOK, Promise!Next, Promise!Answer, Promise!Refuse
  <2> QED
    BY <1>1, <2>1, <2>2 DEF writeStockReply
<1>2. CASE endStockReply(t)
  BY <1>2 DEF endStockReply
<1>3. CASE finishResponse(t)
  BY <1>3 DEF finishResponse
<1>4. CASE armForNextRequest(t)
  BY <1>4 DEF armForNextRequest
<1>5. CASE readNextRequest(t)
  BY <1>5 DEF readNextRequest
<1> QED
  BY <1>1, <1>2, <1>3, <1>4, <1>5 DEF ReplyStep

\* Every step of the connection is a step of the promise or changes nothing in it.
LEMMA StepRefines ==
    ASSUME ConnectionInv, [Next]_vars
    PROVE  [Promise!Next]_(Promise!vars)
<1> USE DEF Promise!vars, countVars
<1>1. ASSUME NEW t \in Threads, ReplyStep(t) PROVE [Promise!Next]_(Promise!vars)
  BY <1>1, ReplyStepRefines DEF ConnectionInv, TypeOK
<1>2. CASE ClientStep \/ shutdownServer
  BY <1>2 DEF ClientStep, ClientSend, ClientClose, handleHandshake, shutdownServer
<1>3. CASE handleParsedRequest
  <2>1. AwaitingRequest
    BY <1>3 DEF handleParsedRequest, Goto, AwaitingRequest, Reading
  <2>2. /\ answered = itsRequestCount
        /\ MaxKeepAliveRequests > 0 => itsRequestCount < MaxKeepAliveRequests
    BY <2>1 DEF ConnectionInv, RequestInv, AwaitingInv
  <2>3. itsRequestCount' = itsRequestCount + 1 /\ UNCHANGED answered
    BY <1>3 DEF handleParsedRequest
  <2> QED
    BY <2>2, <2>3 DEF Promise!Next, Promise!Accept
<1>4. CASE writeReply
  <2>1. answered + 1 = itsRequestCount
    BY <1>4 DEF writeReply, Goto, ConnectionInv, RequestInv, AnswerInv
  <2>2. answered' = answered + 1 /\ UNCHANGED itsRequestCount
    BY <1>4 DEF writeReply
  <2> QED
    BY <2>1, <2>2 DEF ConnectionInv, TypeOK, NumberTypeOK, Promise!Next, Promise!Answer
<1>5. CASE ReaderStep
  BY <1>1, <1>3, <1>5 DEF ReaderStep, Threads, start, handleHandshakeError,
       handleReadShutdown, handleReadError, readCompletes, handleRead, rearmForRequest,
       refuseInput, handleIncompleteRequest, resolveClientIP, resolveClientIPFails,
       replyDirectly, scheduleRequest
<1>6. CASE TimerStep
  BY <1>1, <1>6 DEF TimerStep, Threads, timerExpires, handleTimer, dropIdleConnection,
       reportTimeout
<1>7. CASE PoolStep
  BY <1>1, <1>4, <1>7 DEF PoolStep, Threads, cancelTimeout, cancelDisconnectWatch,
       callPlugin, abortReply
<1>8. CASE reportInfo \/ destroy \/ Terminated \/ UNCHANGED vars
  BY <1>8 DEF reportInfo, destroy, Terminated, vars
<1> QED
  BY <1>2, <1>5, <1>6, <1>7, <1>8 DEF Next

\* The connection implements the abstract one: requests are taken one at a time, each is
\* answered at most once and in order, the limit is kept, and a refusal is the last word.
THEOREM ConnectionKeepsPromise == Spec => PromiseKept
<1>1. Init => Promise!Init
  BY DEF Init, Promise!Init
<1>2. ConnectionInv /\ [Next]_vars => [Promise!Next]_(Promise!vars)
  BY StepRefines
<1> QED
  BY <1>1, <1>2, Invariance, PTL DEF Spec, PromiseKept, Promise!Spec

=============================================================================
