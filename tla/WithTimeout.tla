---------------------------- MODULE WithTimeout ----------------------------
(***************************************************************************)
(* tornado.gen.with_timeout and tornado.concurrent.chain_future            *)
(* (src/tornado/gen.py, src/tornado/concurrent.py).                        *)
(*                                                                         *)
(* Several with_timeout() calls wrap the same Future, as the docstring     *)
(* permits.  The wrapped Future is an asyncio Future, completed on the     *)
(* loop's thread, or a concurrent.futures.Future, completed on a worker    *)
(* thread.  The loop is its queue of ready callbacks: a callback is one    *)
(* atomic step, and a Future that completes puts its callbacks in the      *)
(* queue in the order they were added.                                     *)
(***************************************************************************)
EXTENDS Naturals, Sequences, SequencesExt

CONSTANTS
    Call,           \* with_timeout() calls on the one wrapped Future
    Kinds,          \* "asyncio", "concurrent" or both
    Outcome,        \* how the wrapped Future may end
    CallerCancels   \* may a caller cancel the Future it was given?

ASSUME WithTimeoutAssumption ==
    /\ Kinds \subseteq {"asyncio", "concurrent"}
    /\ Outcome \subseteq {"value", "error", "cancelled"}
    /\ CallerCancels \in BOOLEAN

VARIABLES
    kind,     \* the class of the wrapped Future
    src,      \* its state
    cbs,      \* its done callbacks, pairs of a function and a call
    ready,    \* the loop's queue of callbacks
    worker,   \* callbacks the completing worker thread still has to run
    pc,       \* how far each with_timeout() call is
    result,   \* the Future each call returns
    timer,    \* the timeout of each call
    invalid   \* calls for which on_timeout() raised InvalidStateError

vars == <<kind, src, cbs, ready, worker, pc, result, timer, invalid>>

SrcDone == src # "pending"
Done(c) == result[c] # "pending"

\* with_timeout() is one piece of code on the loop's thread: nothing else
\* runs there until it returns.
LoopFree == \A c \in Call : pc[c] \in {"start", "returned"}

Init ==
    /\ kind \in Kinds
    /\ src \in {"pending"} \cup Outcome
    /\ cbs = <<>> /\ ready = <<>> /\ worker = <<>>
    /\ pc = [c \in Call |-> "start"]
    /\ result = [c \in Call |-> "pending"]
    /\ timer = [c \in Call |-> "none"]
    /\ invalid = {}

-----------------------------------------------------------------------------
(* Seeded mistakes, used by no behaviour of Spec. *)

\* on_complete() does not remove the timeout.
OnCompleteKeepsTimer(c) ==
    /\ ready' = IF Done(c) THEN Tail(ready) ELSE Append(Tail(ready), <<"copy", c>>)
    /\ UNCHANGED timer

\* copy() sets the result without looking at the Future's exception.
CopyValue(c) ==
    result' = IF Done(c) THEN result ELSE [result EXCEPT ![c] = "value"]

\* with_timeout() starts its timer only for a Future that is done.
StartTimerDone(c) ==
    /\ pc[c] = "chained"
    /\ pc' = [pc EXCEPT ![c] = "timed"]
    /\ timer' = [timer EXCEPT ![c] = IF SrcDone THEN "scheduled" ELSE "none"]
    /\ UNCHANGED <<kind, src, cbs, ready, worker, result, invalid>>

-----------------------------------------------------------------------------
\* chain_future(future, result): copy is called back at once or when the
\* Future completes.  On the loop's thread that means it is put in the queue.
ChainFuture(c) ==
    /\ pc[c] = "start" /\ LoopFree
    /\ pc' = [pc EXCEPT ![c] = "chained"]
    /\ \/ SrcDone /\ ready' = Append(ready, <<"copy", c>>) /\ UNCHANGED cbs
       \/ ~SrcDone /\ cbs' = Append(cbs, <<"copy", c>>) /\ UNCHANGED ready
    /\ UNCHANGED <<kind, src, worker, result, timer, invalid>>

StartTimer(c) ==
    /\ pc[c] = "chained"
    /\ pc' = [pc EXCEPT ![c] = "timed"]
    /\ timer' = [timer EXCEPT ![c] = "scheduled"]
    /\ UNCHANGED <<kind, src, cbs, ready, worker, result, invalid>>

\* future_add_done_callback(future, on_complete) with a Future that is done
\* calls on_complete at once: nothing can have resolved result yet, so the
\* timeout is removed and the Futures are chained a second time.
AddDoneCallback(c) ==
    /\ pc[c] = "timed"
    /\ pc' = [pc EXCEPT ![c] = "returned"]
    /\ \/ /\ SrcDone
          /\ timer' = [timer EXCEPT ![c] = "removed"]
          /\ ready' = Append(ready, <<"copy", c>>)
          /\ UNCHANGED cbs
       \/ /\ ~SrcDone
          /\ cbs' = Append(cbs, <<"on_complete", c>>)
          /\ UNCHANGED <<ready, timer>>
    /\ UNCHANGED <<kind, src, worker, result, invalid>>

\* The wrapped Future completes, on the loop's thread or on a worker's.
Complete(o) ==
    /\ ~SrcDone
    /\ src' = o
    /\ cbs' = <<>>
    /\ \/ kind = "asyncio" /\ LoopFree /\ ready' = ready \o cbs /\ UNCHANGED worker
       \/ kind = "concurrent" /\ worker' = cbs /\ UNCHANGED ready
    /\ UNCHANGED <<kind, pc, result, timer, invalid>>

\* Removing a timeout that has fired has no effect.
Removed(c) == [timer EXCEPT ![c] = IF @ = "fired" THEN @ ELSE "removed"]

\* The worker thread runs the callbacks.  chain_future's lambda asks for the
\* event loop of the thread it runs in, which has none: it raises, and copy
\* never runs.  The same happens when on_complete chains again.
WorkerStep ==
    /\ worker # <<>>
    /\ worker' = Tail(worker)
    /\ LET f == Head(worker)[1]  c == Head(worker)[2] IN
       \/ f = "copy" /\ UNCHANGED timer
       \/ f = "on_complete" /\ timer' = Removed(c)
    /\ UNCHANGED <<kind, src, cbs, ready, pc, result, invalid>>

\* The deadline passes: on_timeout is ready to run.
TimerDue(c) ==
    /\ timer[c] = "scheduled" /\ pc[c] = "returned"
    /\ timer' = [timer EXCEPT ![c] = "due"]
    /\ ready' = Append(ready, <<"on_timeout", c>>)
    /\ UNCHANGED <<kind, src, cbs, worker, pc, result, invalid>>

\* copy(): the exception or the value, unless result is done.  For a cancelled
\* Future future.exception() raises and result is left as it is.
Copy(c) ==
    result' = IF Done(c) \/ src = "cancelled" THEN result ELSE [result EXCEPT ![c] = src]

\* on_complete() on the loop's thread.
OnComplete(c) ==
    /\ timer' = Removed(c)
    /\ ready' = IF Done(c) THEN Tail(ready) ELSE Append(Tail(ready), <<"copy", c>>)

\* on_timeout(): set_exception without asking whether result is done.
OnTimeout(c) ==
    /\ timer' = [timer EXCEPT ![c] = IF @ = "removed" THEN @ ELSE "fired"]
    /\ result' = IF timer[c] = "removed" \/ Done(c) THEN result
                 ELSE [result EXCEPT ![c] = "timeout"]
    /\ invalid' = IF timer[c] # "removed" /\ Done(c) THEN invalid \cup {c} ELSE invalid

\* The loop runs the callback at the head of its queue.
RunReady ==
    /\ ready # <<>> /\ LoopFree
    /\ LET f == Head(ready)[1]  c == Head(ready)[2] IN
       \/ /\ f = "copy" /\ Copy(c) /\ ready' = Tail(ready)
          /\ UNCHANGED <<timer, invalid>>
       \/ f = "on_complete" /\ OnComplete(c) /\ UNCHANGED <<result, invalid>>
       \/ f = "on_timeout" /\ OnTimeout(c) /\ ready' = Tail(ready)
    /\ UNCHANGED <<kind, src, cbs, worker, pc>>

\* The caller's task is cancelled while it awaits the returned Future.
CallerCancel(c) ==
    /\ CallerCancels /\ LoopFree
    /\ pc[c] = "returned" /\ ~Done(c)
    /\ result' = [result EXCEPT ![c] = "cancelled"]
    /\ UNCHANGED <<kind, src, cbs, ready, worker, pc, timer, invalid>>

Next ==
    \/ \E c \in Call : \/ ChainFuture(c) \/ StartTimer(c) \/ AddDoneCallback(c)
                       \/ TimerDue(c) \/ CallerCancel(c)
    \/ \E o \in Outcome : Complete(o)
    \/ WorkerStep \/ RunReady

Spec == Init /\ [][Next]_vars

\* The loop and the worker go on, with_timeout() returns, and the deadline
\* comes.  Nothing is assumed of the wrapped Future.
FairSpec ==
    /\ Spec /\ WF_vars(RunReady) /\ WF_vars(WorkerStep)
    /\ \A c \in Call : /\ WF_vars(StartTimer(c)) /\ WF_vars(AddDoneCallback(c))
                       /\ WF_vars(TimerDue(c))

-----------------------------------------------------------------------------
\* No outcome is made up: a caller sees the wrapped Future's own result or
\* exception, and a TimeoutError only if the timeout ran.
ResultFaithful ==
    \A c \in Call : /\ result[c] \in {"value", "error"} => src = result[c]
                    /\ result[c] = "timeout" => timer[c] = "fired"

\* on_timeout() does not look whether result is done, and needs not to unless
\* the caller cancelled it: whoever else resolves result has the timeout
\* removed before the loop gets to it.
NoInvalidState == \A c \in invalid : result[c] = "cancelled"

\* A caller is answered by the wrapped asyncio Future or by the deadline.  The
\* exception is a wrapped Future that is cancelled.
TimeoutBounds ==
    \A c \in Call : (pc[c] = "returned" /\ kind = "asyncio") ~> (Done(c) \/ src = "cancelled")

\* A caller is answered whatever the wrapped Future is and however it ends.
CallerAnswered == \A c \in Call : (pc[c] = "returned") ~> Done(c)
=============================================================================
