------------------------------- MODULE Event -------------------------------
(***************************************************************************)
(* tornado.locks.Event (src/tornado/locks.py).  A member of Call is one    *)
(* wait() call: its Future, its timer and the task awaiting it.  Identities *)
(* are used again once nothing refers to them.                             *)
(***************************************************************************)
EXTENDS Naturals

CONSTANTS
    Call,         \* identities of wait() calls
    IOLoopBound   \* does the name IOLoop, used by wait(timeout), resolve?

VARIABLES
    value,    \* self._value
    waiters,  \* self._waiters, a set of Futures
    fut,      \* the state of each call's Future
    timer,    \* is on_timeout of this call still scheduled?
    task      \* what the caller of wait() is doing

vars == <<value, waiters, fut, timer, task>>

Pending(w) == fut[w] = "pending"

Fresh(w) == task[w] = "done" /\ ~timer[w] /\ w \notin waiters

Init ==
    /\ value = FALSE
    /\ waiters = {}
    /\ fut = [w \in Call |-> "none"]
    /\ timer = [w \in Call |-> FALSE]
    /\ task = [w \in Call |-> "done"]

-----------------------------------------------------------------------------
(* A seeded mistake, used by no behaviour of Spec. *)

\* set() without its test that the Future is not done: set_result() raises
\* InvalidStateError for the first Future that was cancelled, when some of the
\* others are resolved and none has left the set.
SetUnchecked ==
    /\ value' = TRUE
    /\ \/ value /\ UNCHANGED <<waiters, fut>>
       \/ /\ ~value
          /\ \E some \in SUBSET {w \in waiters : Pending(w)} :
                /\ \/ (\A w \in waiters : w \in some) /\ waiters' = {}
                   \/ (\E w \in waiters : ~Pending(w)) /\ waiters' = waiters
                /\ fut' = [w \in Call |-> IF w \in some THEN "result" ELSE fut[w]]
    /\ UNCHANGED <<timer, task>>

-----------------------------------------------------------------------------
\* set(): resolve every waiting Future and empty the set, unless set already.
Set ==
    /\ value' = TRUE
    /\ \/ value /\ UNCHANGED <<waiters, fut>>
       \/ /\ ~value
          /\ fut' = [w \in Call |-> IF w \in waiters /\ Pending(w) THEN "result" ELSE fut[w]]
          /\ waiters' = {}
    /\ UNCHANGED <<timer, task>>

Clear == value' = FALSE /\ UNCHANGED <<waiters, fut, timer, task>>

\* wait() while the flag is set: a Future that is done already.
WaitSet(w) ==
    /\ Fresh(w)
    /\ value
    /\ fut' = [fut EXCEPT ![w] = "result"]
    /\ UNCHANGED <<value, waiters, timer, task>>

\* wait() without a (truthy) timeout.
Wait(w) ==
    /\ Fresh(w)
    /\ ~value
    /\ waiters' = waiters \cup {w}
    /\ fut' = [fut EXCEPT ![w] = "pending"]
    /\ task' = [task EXCEPT ![w] = "awaiting"]
    /\ UNCHANGED <<value, timer>>

\* wait(timeout): the Future is in the set before IOLoop is looked up, so the
\* caller may get a NameError and leave the Future behind.
WaitTimeout(w) ==
    /\ Fresh(w)
    /\ ~value
    /\ waiters' = waiters \cup {w}
    /\ fut' = [fut EXCEPT ![w] = "pending"]
    /\ timer' = [timer EXCEPT ![w] = IOLoopBound]
    /\ task' = [task EXCEPT ![w] = IF IOLoopBound THEN "awaiting" ELSE "orphan"]
    /\ UNCHANGED value

\* on_timeout(): the timer is not removed when the Future is resolved.
OnTimeout(w) ==
    /\ timer[w]
    /\ timer' = [timer EXCEPT ![w] = FALSE]
    /\ waiters' = waiters \ {w}
    /\ fut' = IF Pending(w) THEN [fut EXCEPT ![w] = "timeout"] ELSE fut
    /\ UNCHANGED <<value, task>>

\* The loop resumes the awaiting task once its Future is done.
Resume(w) ==
    /\ task[w] = "awaiting"
    /\ ~Pending(w)
    /\ task' = [task EXCEPT ![w] = "done"]
    /\ UNCHANGED <<value, waiters, fut, timer>>

\* The awaiting task is cancelled; its Future stays in the set.
Cancel(w) ==
    /\ task[w] = "awaiting"
    /\ Pending(w)
    /\ fut' = [fut EXCEPT ![w] = "cancelled"]
    /\ UNCHANGED <<value, waiters, timer, task>>

WaiterStep(w) ==
    \/ WaitSet(w) \/ Wait(w) \/ WaitTimeout(w)
    \/ OnTimeout(w) \/ Resume(w) \/ Cancel(w)

Next == Set \/ Clear \/ \E w \in Call : WaiterStep(w)

Spec == Init /\ [][Next]_vars

-----------------------------------------------------------------------------
TypeOK ==
    /\ value \in BOOLEAN
    /\ waiters \in SUBSET Call
    /\ fut \in [Call -> {"none", "pending", "result", "timeout", "cancelled"}]
    /\ timer \in [Call -> BOOLEAN]
    /\ task \in [Call -> {"done", "awaiting", "orphan"}]

\* set() can reach everybody who waits, and nobody waits while the flag is
\* set: a pending Future is in the set, the set is empty when the flag is up,
\* and of the others only cancelled ones wait there for the next set().
NobodyMissed ==
    /\ value => waiters = {}
    /\ \A w \in Call : Pending(w) => w \in waiters
    /\ \A w \in waiters : fut[w] \in {"pending", "cancelled"}

=============================================================================
