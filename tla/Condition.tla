----------------------------- MODULE Condition -----------------------------
(***************************************************************************)
(* tornado.locks.Condition (src/tornado/locks.py).  notify() slices the    *)
(* deque of waiters, which Python's deque refuses with a TypeError: it     *)
(* raises before it has changed anything, and notify_all(), which calls    *)
(* it, does too.                                                           *)
(***************************************************************************)
EXTENDS Integers, Sequences, FiniteSets, SequencesExt

CONSTANTS
    Call,        \* identities of wait() calls
    IOLoopBound, \* does the name IOLoop, used by wait(timeout), resolve?
    MaxNotify    \* bound on notify() calls

VARIABLES
    waiters,   \* self._waiters, a deque of Futures
    fut,       \* each call's Future: "true" is notified, "false" timed out
    timer,     \* is on_timeout of this call still scheduled?
    notified,  \* notify() calls so far
    owed       \* waiters that were to be woken by them

vars == <<waiters, fut, timer, notified, owed>>

Pending(w) == fut[w] = "pending"

InDeque(w) == w \in ToSet(waiters)

Init ==
    /\ waiters = <<>>
    /\ fut = [w \in Call |-> "none"]
    /\ timer = [w \in Call |-> FALSE]
    /\ notified = 0
    /\ owed = 0

\* wait() and wait(timeout).  As in Event and Semaphore the Future is queued
\* before IOLoop is looked up; if that fails it stays in the deque.
Wait(w, timed) ==
    /\ fut[w] # "pending" /\ ~timer[w] /\ ~InDeque(w)
    /\ waiters' = Append(waiters, w)
    /\ fut' = [fut EXCEPT ![w] = "pending"]
    /\ timer' = [timer EXCEPT ![w] = timed /\ IOLoopBound]
    /\ UNCHANGED <<notified, owed>>

\* on_timeout().  Its deque.remove() would raise ValueError for a Future that
\* had left the deque, but nothing else takes one out.
OnTimeout(w) ==
    /\ timer[w]
    /\ timer' = [timer EXCEPT ![w] = FALSE]
    /\ waiters' = RemoveFirst(waiters, w)
    /\ fut' = IF Pending(w) THEN [fut EXCEPT ![w] = "false"] ELSE fut
    /\ UNCHANGED <<notified, owed>>

\* The awaiting task is cancelled; its Future stays in the deque.
Cancel(w) ==
    /\ Pending(w)
    /\ fut' = [fut EXCEPT ![w] = "cancelled"]
    /\ UNCHANGED <<waiters, timer, notified, owed>>

\* notify(n), and notify_all() with n the length of the deque.
Notify(n) ==
    /\ notified < MaxNotify
    /\ notified' = notified + 1
    /\ owed' = owed + (IF n < Cardinality({w \in Call : Pending(w)})
                       THEN n ELSE Cardinality({w \in Call : Pending(w)}))
    /\ UNCHANGED <<waiters, fut, timer>>

Next ==
    \/ \E w \in Call : \/ \E timed \in BOOLEAN : Wait(w, timed)
                       \/ OnTimeout(w) \/ Cancel(w)
    \/ \E n \in 1 .. Cardinality(Call) : Notify(n)

Spec == Init /\ [][Next]_vars

-----------------------------------------------------------------------------
\* notify(n) wakes n waiters, or all of them if fewer wait.
NotifyWakes == owed <= Cardinality({w \in Call : fut[w] = "true"})
=============================================================================
