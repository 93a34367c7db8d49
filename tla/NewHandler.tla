------------------------------ MODULE NewHandler -------------------------------
(***************************************************************************)
(* What the daemon does when an allocation fails (main/smartmetd.cpp):     *)
(* the installed new_handler, and the limiter of failures it asks first.   *)
(*                                                                         *)
(* Any thread may fail to allocate, in its work, inside the handler while  *)
(* that prints, and while it builds the message of the limiter's own       *)
(* exception: operator new then calls the handler once more, on top of     *)
(* the frames that wait.  No handler ever returns, so a thread is where    *)
(* its innermost frame is.                                                 *)
(***************************************************************************)
EXTENDS Integers, Sequences

CONSTANTS
    Threads, NoThread,
    MaxCount,     \* failures the limiter lets through in a window (10)
    Window,       \* itsTimeWindowInSec (60), in ticks of the model's clock
    MaxTime,      \* bound: ticks
    MaxDepth      \* bound: handlers on top of one another in a thread

ASSUME NewHandlerAssumption ==
    /\ NoThread \notin Threads
    /\ MaxCount \in Nat \ {0} /\ Window \in Nat /\ MaxTime \in Nat
    /\ MaxDepth \in Nat \ {0}

VARIABLES
    handler,       \* the installed one, "bad_alloc" or "terminate"
    now,           \* steady_clock
    itsMutex,      \* the limiter's: the thread that holds it
    itsTimePoints, \* the first itsCount elements of the array
    pc, depth,     \* per thread
    process,
    recorded       \* history: when each failure let through was recorded

limiterVars == <<handler, now, itsMutex, itsTimePoints, pc, depth, process, recorded>>

itsCount == Len(itsTimePoints)

LimiterTypeOK ==
    /\ handler \in {"bad_alloc", "terminate"}
    /\ now \in 0 .. MaxTime
    /\ itsMutex \in Threads \cup {NoThread}
    /\ itsTimePoints \in Seq(0 .. MaxTime) /\ itsCount <= MaxCount
    /\ pc \in [Threads -> {"work", "lock", "checking", "tooMany", "print", "fallback"}]
    /\ depth \in [Threads -> 0 .. MaxDepth]
    /\ process \in {"up", "terminated"}
    /\ recorded \in Seq(0 .. MaxTime)

\* "default" and "bad_alloc" are one handler; any other name ends the start.
set_new_handler == [default |-> "bad_alloc", bad_alloc |-> "bad_alloc",
                    terminate |-> "terminate"]

LimiterInit ==
    /\ \E name \in DOMAIN set_new_handler : handler = set_new_handler[name]
    /\ now = 0 /\ itsMutex = NoThread /\ itsTimePoints = << >>
    /\ pc = [t \in Threads |-> "work"] /\ depth = [t \in Threads |-> 0]
    /\ process = "up" /\ recorded = << >>

-----------------------------------------------------------------------------
Up == process = "up"
Goto(t, place) == pc' = [pc EXCEPT ![t] = place]

\* operator new found no memory.
CallHandler(t) ==
    /\ depth[t] < MaxDepth
    /\ depth' = [depth EXCEPT ![t] = @ + 1]
    /\ Goto(t, IF handler = "terminate" THEN "fallback" ELSE "lock")

allocationFails(t) ==
    /\ Up /\ pc[t] = "work"
    /\ CallHandler(t)
    /\ UNCHANGED <<handler, now, itsMutex, itsTimePoints, process, recorded>>

lock(t) ==
    /\ Up /\ pc[t] = "lock"
    /\ itsMutex = NoThread /\ itsMutex' = t
    /\ Goto(t, "checking")
    /\ UNCHANGED <<handler, now, itsTimePoints, depth, process, recorded>>

OldPrefix_TooLong(i, oldest) ==
    /\ \A j \in 1 .. i : itsTimePoints[j] <= oldest
    /\ i < itsCount => itsTimePoints[i + 1] > oldest
OldPrefix_Off(i, oldest) == i = 0
\* The loop that counts the entries to drop stops at the first that is young enough.
OldPrefix(i, oldest) ==
    /\ \A j \in 1 .. i : itsTimePoints[j] < oldest
    /\ i < itsCount => itsTimePoints[i + 1] >= oldest

Record(t, at, kept) ==
    /\ itsTimePoints' = Append(kept, at)
    /\ recorded' = Append(recorded, at)
    /\ itsMutex' = NoThread /\ Goto(t, "print")

Full(kept) == Len(kept) >= MaxCount

\* The mutex is still held while the exception's message is built.
Limit(t, at, kept) ==
    \/ /\ ~Full(kept) /\ Record(t, at, kept)
    \/ /\ Full(kept)
       /\ itsTimePoints' = kept /\ Goto(t, "tooMany")
       /\ UNCHANGED <<itsMutex, recorded>>

check_ClockBeforeLock(t) ==
    /\ Up /\ pc[t] = "checking"
    /\ \E at \in {now - 1, now} \cap Nat : \E i \in 0 .. itsCount :
        /\ OldPrefix(i, at - Window)
        /\ Limit(t, at, SubSeq(itsTimePoints, i + 1, itsCount))
    /\ UNCHANGED <<handler, now, depth, process>>
check_ForgetsNewest(t) ==
    /\ Up /\ pc[t] = "checking"
    /\ \E i \in 0 .. itsCount :
        /\ OldPrefix(i, now - Window)
        /\ Limit(t, now, SubSeq(itsTimePoints, i + 1, itsCount - i))
    /\ UNCHANGED <<handler, now, depth, process>>
check(t) ==
    /\ Up /\ pc[t] = "checking"
    /\ \E i \in 0 .. itsCount :
        /\ OldPrefix(i, now - Window)
        /\ Limit(t, now, SubSeq(itsTimePoints, i + 1, itsCount))
    /\ UNCHANGED <<handler, now, depth, process>>

\* std::runtime_error copies its text to the heap; unwinding unlocks.
throwTooMany(t) ==
    /\ Up /\ pc[t] = "tooMany"
    /\ \/ itsMutex' = NoThread /\ Goto(t, "fallback") /\ UNCHANGED depth
       \/ CallHandler(t) /\ UNCHANGED itsMutex
    /\ UNCHANGED <<handler, now, itsTimePoints, process, recorded>>

\* The active requests and the backtrace are copied and printed, then bad_alloc is
\* thrown: to the handler's own catch (...), as everything thrown in it.
bad_alloc_new_handler(t) ==
    /\ Up /\ pc[t] = "print"
    /\ \/ Goto(t, "fallback") /\ UNCHANGED depth
       \/ CallHandler(t)
    /\ UNCHANGED <<handler, now, itsMutex, itsTimePoints, process, recorded>>

fallback_Returns(t) ==
    /\ Up /\ pc[t] = "fallback"
    /\ Goto(t, "work") /\ depth' = [depth EXCEPT ![t] = 0]
    /\ UNCHANGED <<handler, now, itsMutex, itsTimePoints, process, recorded>>
\* std::terminate, of either handler.
fallback(t) ==
    /\ Up /\ pc[t] = "fallback"
    /\ process' = "terminated"
    /\ UNCHANGED <<handler, now, itsMutex, itsTimePoints, pc, depth, recorded>>

tick ==
    /\ Up /\ now < MaxTime
    /\ now' = now + 1
    /\ UNCHANGED <<handler, itsMutex, itsTimePoints, pc, depth, process, recorded>>

Terminated == ~Up /\ UNCHANGED limiterVars

Handle(t) ==
    lock(t) \/ check(t) \/ throwTooMany(t) \/ bad_alloc_new_handler(t) \/ fallback(t)

LimiterNext == (\E t \in Threads : allocationFails(t) \/ Handle(t)) \/ tick \/ Terminated

LimiterSpec == LimiterInit /\ [][LimiterNext]_limiterVars

\* Threads are scheduled, and a mutex that becomes free goes to one that waits for it.
LimiterFairSpec == LimiterSpec /\ \A t \in Threads : WF_limiterVars(Handle(t))

-----------------------------------------------------------------------------
(* Properties.                                                             *)

\* The kept failures are in order of time, which is what lets the limiter drop the old
\* ones as a prefix: the clock is read under the mutex.
OldestFirst ==
    \A j \in 1 .. itsCount : \A i \in 1 .. j : itsTimePoints[i] <= itsTimePoints[j]

\* What the limiter has forgotten is older than the window; the rest it still has, in
\* the order recorded.
ForgetsOnlyTheOld ==
    LET dropped == Len(recorded) - itsCount
    IN  /\ dropped >= 0
        /\ \A i \in 1 .. dropped : recorded[i] < now - Window
        /\ \A j \in 1 .. itsCount : itsTimePoints[j] = recorded[dropped + j]

\* However the threads interleave, more than MaxCount failures let through span more
\* than the window.
FrequencyIsBounded ==
    \A i \in 1 .. Len(recorded) :
        i + MaxCount <= Len(recorded) => recorded[i + MaxCount] - recorded[i] > Window

\* A failure is one too many only after MaxCount others no older than the window.
OnlyExcessIsRefused ==
    [][\A t \in Threads : pc[t] # "tooMany" /\ pc'[t] = "tooMany" =>
           /\ Len(itsTimePoints') = MaxCount
           /\ \A j \in 1 .. MaxCount : itsTimePoints'[j] >= now - Window]_limiterVars

WaitsForItself(t) == itsMutex = t /\ pc[t] = "lock"

\* A failed allocation ends the process, unless a thread comes to wait for the mutex it
\* holds itself: nothing else can keep it alive.
FailureEndsOrHangs ==
    \A t \in Threads :
        pc[t] = "lock" ~> process = "terminated" \/ \E u \in Threads : WaitsForItself(u)

-----------------------------------------------------------------------------
(* What the source says of failed allocations and does not keep.           *)

\* "This is a fallback in case the std::bad_alloc handler fails": too many failures in
\* a short time terminate the process.
FailureEnds == \A t \in Threads : pc[t] = "lock" ~> process = "terminated"

\* The handler named bad_alloc throws it, and the process goes on, until there are too
\* many failures in a window.
OnlyExcessTerminates ==
    process = "terminated" /\ handler = "bad_alloc" => itsCount = MaxCount

=============================================================================
