--------------------------- MODULE AsyncTestCase ---------------------------
(***************************************************************************)
(* The stop() and wait() of tornado.testing.AsyncTestCase                  *)
(* (src/tornado/testing.py): a test runs the event loop inside wait(), and *)
(* callbacks on the loop end it with stop().                               *)
(*                                                                         *)
(* stop() calls are numbered, and the number stands for the arguments of   *)
(* the call; timeout_func calls stop() without any.  wait() calls are      *)
(* numbered too, and a timeout has the number of its wait().               *)
(***************************************************************************)
EXTENDS Integers, Sequences

CONSTANTS
    MaxWaits,   \* bound on wait() calls
    MaxStops    \* bound on stop() calls with arguments

ASSUME TestCaseAssumption == MaxWaits \in Nat /\ MaxStops \in Nat

NoArgs == 0        \* None, in self.__stop_args
Raised == -1       \* the outcome of a wait() that raised, self.__failure or otherwise

VARIABLES
    stopped,   \* self.__stopped
    running,   \* self.__running
    failed,    \* self.__failure is not None
    stopArgs,  \* self.__stop_args
    looping,   \* is the test inside io_loop.start()?
    loopStop,  \* has io_loop.stop() been called in this run of the loop?
    hasCond,   \* was the current wait() given a condition?
    armed,     \* the timeouts that are scheduled
    waits,     \* wait() calls so far
    stops,     \* stop() calls with arguments so far
    outcome    \* of each wait() that ended: what it gave, and the stops used up by then

vars == <<stopped, running, failed, stopArgs, looping, loopStop, hasCond, armed, waits,
          stops, outcome>>

Init ==
    /\ stopped = FALSE /\ running = FALSE /\ failed = FALSE /\ stopArgs = NoArgs
    /\ looping = FALSE /\ loopStop = FALSE /\ hasCond = FALSE
    /\ armed = {} /\ waits = 0 /\ stops = 0 /\ outcome = <<>>

\* The stop() calls the wait() calls so far have used up.
LastBy == IF outcome = <<>> THEN 0 ELSE outcome[Len(outcome)].by

-----------------------------------------------------------------------------
(* Seeded mistakes, used by no behaviour of Spec. *)

\* wait() leaves __stopped set.
WaitEndStaysStopped ==
    /\ looping' = FALSE
    /\ outcome' = Append(outcome, [gave |-> IF failed THEN Raised ELSE stopArgs, by |-> stops])
    /\ stopArgs' = IF failed THEN stopArgs ELSE NoArgs
    /\ UNCHANGED stopped

\* wait() goes on waiting by calling itself, which starts another timeout.
LoopAgainNested ==
    /\ looping /\ loopStop
    /\ ~failed /\ hasCond
    /\ waits < MaxWaits /\ waits' = waits + 1
    /\ armed' = armed \cup {waits + 1}
    /\ loopStop' = FALSE
    /\ running' = TRUE
    /\ UNCHANGED <<stopped, failed, stopArgs, looping, hasCond, stops, outcome>>

\* wait() starts the loop again without __running.
LoopAgainNotRunning ==
    /\ looping /\ loopStop
    /\ ~failed /\ hasCond
    /\ loopStop' = FALSE
    /\ UNCHANGED <<stopped, running, failed, stopArgs, looping, hasCond, armed, waits, stops, outcome>>

-----------------------------------------------------------------------------
\* stop(args): keep the arguments, stop the loop if it runs.
Stop(args) ==
    /\ stopArgs' = args
    /\ loopStop' = (loopStop \/ running)
    /\ running' = FALSE
    /\ stopped' = TRUE

\* stop() called by the test itself, or by a callback while the loop runs:
\* also by one that runs after another has stopped the loop.
CallStop ==
    /\ stops < MaxStops
    /\ stops' = stops + 1
    /\ Stop(stops + 1)
    /\ UNCHANGED <<failed, looping, hasCond, armed, waits, outcome>>

\* timeout_func(), of this wait() or of an earlier one: no timeout is ever
\* removed.
TimeoutFunc(w) ==
    /\ looping /\ w \in armed
    /\ armed' = armed \ {w}
    /\ failed' = TRUE
    /\ Stop(NoArgs)
    /\ UNCHANGED <<looping, hasCond, waits, stops, outcome>>

\* The end of wait(): forget stop(), and raise the failure, which stays, or
\* hand out the arguments.
WaitEnd ==
    /\ looping' = FALSE
    /\ stopped' = FALSE
    /\ outcome' = Append(outcome, [gave |-> IF failed THEN Raised ELSE stopArgs, by |-> stops])
    /\ stopArgs' = IF failed THEN stopArgs ELSE NoArgs

\* wait() after stop(): the loop is not started.
WaitStopped ==
    /\ ~looping /\ waits < MaxWaits
    /\ stopped
    /\ waits' = waits + 1
    /\ WaitEnd
    /\ UNCHANGED <<running, failed, loopStop, hasCond, armed, stops>>

\* wait(condition, timeout); a timeout of 0 is none.
WaitStart(cond, timed) ==
    /\ ~looping /\ waits < MaxWaits
    /\ ~stopped
    /\ waits' = waits + 1
    /\ armed' = IF timed THEN armed \cup {waits + 1} ELSE armed
    /\ running' = TRUE /\ looping' = TRUE /\ hasCond' = cond
    /\ UNCHANGED <<stopped, failed, stopArgs, loopStop, stops, outcome>>

\* io_loop.start() returns.  The condition, where there is one, may be true ...
LoopEnds ==
    /\ looping /\ loopStop
    /\ loopStop' = FALSE
    /\ WaitEnd
    /\ UNCHANGED <<running, failed, hasCond, armed, waits, stops>>

\* ... or raise, which leaves wait() with __stopped and the arguments as they
\* are: they are the next wait()'s, which returns at once ...
ConditionRaises ==
    /\ looping /\ loopStop
    /\ ~failed /\ hasCond
    /\ loopStop' = FALSE
    /\ looping' = FALSE
    /\ outcome' = Append(outcome, [gave |-> Raised, by |-> LastBy])
    /\ UNCHANGED <<stopped, running, failed, stopArgs, hasCond, armed, waits, stops>>

\* ... or not: the loop is started again.
LoopAgain ==
    /\ looping /\ loopStop
    /\ ~failed /\ hasCond
    /\ loopStop' = FALSE
    /\ running' = TRUE
    /\ UNCHANGED <<stopped, failed, stopArgs, looping, hasCond, armed, waits, stops, outcome>>

Next ==
    \/ CallStop
    \/ \E w \in 1 .. MaxWaits : TimeoutFunc(w)
    \/ WaitStopped
    \/ \E cond, timed \in BOOLEAN : WaitStart(cond, timed)
    \/ LoopEnds \/ ConditionRaises \/ LoopAgain

Spec == Init /\ [][Next]_vars

\* The loop goes on: a scheduled timeout comes, and start() returns once the
\* loop has been stopped.
FairSpec ==
    /\ Spec /\ WF_vars(LoopEnds \/ ConditionRaises \/ LoopAgain)
    /\ \A w \in 1 .. MaxWaits : WF_vars(TimeoutFunc(w))

-----------------------------------------------------------------------------
Outcome == [gave : Raised .. MaxStops, by : 0 .. MaxStops]

TypeOK ==
    /\ {stopped, running, failed, looping, loopStop, hasCond} \subseteq BOOLEAN
    /\ stopArgs \in 0 .. MaxStops
    /\ armed \subseteq 1 .. waits
    /\ outcome \in Seq(Outcome)
    /\ waits = Len(outcome) + (IF looping THEN 1 ELSE 0)

\* wait()'s "assert self.__stopped" holds, and stop() never misses a loop that
\* runs: what __running and __stopped say of the loop is true, through
\* restarts, several stop() calls at once and timeouts of earlier waits.
StopReachesLoop ==
    /\ looping => (running <=> ~loopStop)
    /\ ~looping => ~running /\ ~loopStop
    /\ loopStop => stopped

\* "causing one pending (or future) call to wait() to return": what a wait()
\* hands out was given to a stop() that no earlier wait() used up, so one stop()
\* never makes two return.  A wait() whose condition raised used up none.
OneStopOneWait ==
    \A i \in DOMAIN outcome :
        LET gave == outcome[i].gave IN
        gave # Raised => gave > (IF i = 1 THEN 0 ELSE outcome[i-1].by)

\* A wait() with a timeout ends, whatever its condition says and however often
\* the loop is stopped and started again.
TimedWaitEnds ==
    \A w \in 1 .. MaxWaits : (looping /\ waits = w /\ w \in armed) ~> ~(looping /\ waits = w)
=============================================================================
