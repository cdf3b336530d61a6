----------------------------- MODULE Semaphore -----------------------------
(***************************************************************************)
(* tornado.locks.Semaphore, BoundedSemaphore and Lock (src/tornado/        *)
(* locks.py).  A Lock is a BoundedSemaphore of initial value 1, so one     *)
(* module covers the three classes: Bounded selects BoundedSemaphore's     *)
(* release and N is the initial value.                                     *)
(*                                                                         *)
(* Everything runs on one event loop, so a method is one atomic step and   *)
(* the interleaving is the one of coroutines, timers and cancellations.    *)
(* A member of Call identifies one acquire() call: the Future it creates,  *)
(* the timer it starts, and the task that awaits it.  An identity is used  *)
(* again once nothing refers to it any more.                               *)
(***************************************************************************)
EXTENDS Integers, Sequences, FiniteSets, SequencesExt

CONSTANTS
    Call,         \* identities of acquire() calls
    N,            \* the value the constructor is given
    Bounded,      \* TRUE: BoundedSemaphore (and Lock), FALSE: Semaphore
    IOLoopBound,  \* does the name IOLoop, used by acquire(), resolve?
    LateCancel,   \* may a task be cancelled between its grant and its wakeup?
    MaxSurplus    \* bound on release() calls not matched by an acquire()

ASSUME SemaphoreAssumption ==
    /\ N \in Nat                \* __init__ raises ValueError for value < 0
    /\ Bounded \in BOOLEAN
    /\ IOLoopBound \in BOOLEAN
    /\ LateCancel \in BOOLEAN
    /\ MaxSurplus \in Nat

VARIABLES
    value,    \* self._value
    waiters,  \* self._waiters, the deque of Futures
    fut,      \* the state of each call's Future
    timer,    \* is on_timeout of this call still scheduled?
    task,     \* what the caller of acquire() is doing
    surplus   \* releases by non-holders less the holders' rejected releases

vars == <<value, waiters, fut, timer, task, surplus>>

FutState  == {"none", "pending", "result", "timeout", "cancelled"}
TaskState == {"done", "awaiting", "holding", "lost", "orphan"}

\* waiter.done() is FALSE.
Pending(w) == fut[w] = "pending"

InDeque(w) == \E i \in DOMAIN waiters : waiters[i] = w

\* No task, timer or deque entry refers to the identity.
Fresh(w) == task[w] = "done" /\ ~timer[w] /\ ~InDeque(w)

Init ==
    /\ value = N
    /\ waiters = <<>>
    /\ fut = [w \in Call |-> "none"]
    /\ timer = [w \in Call |-> FALSE]
    /\ task = [w \in Call |-> "done"]
    /\ surplus = 0

-----------------------------------------------------------------------------
(* Seeded mistakes: forms of the definitions below with a plausible bug in   *)
(* them, which no behaviour of Spec uses.  Each breaks a property.           *)

\* acquire() without its test of the counter.
AcquireNowUnchecked(w) ==
    /\ Fresh(w)
    /\ value' = value - 1
    /\ fut' = [fut EXCEPT ![w] = "result"]
    /\ task' = [task EXCEPT ![w] = "holding"]
    /\ UNCHANGED <<waiters, timer, surplus>>

\* on_timeout() fails the Future and leaves it in the deque.
OnTimeoutNoRemove(w) ==
    /\ timer[w]
    /\ timer' = [timer EXCEPT ![w] = FALSE]
    /\ fut' = IF Pending(w) THEN [fut EXCEPT ![w] = "timeout"] ELSE fut
    /\ UNCHANGED <<value, waiters, task, surplus>>

\* release() looks at the head of the deque only ("if" for "while").
HandOverHeadOnly ==
    LET grant == IF waiters = <<>> THEN FALSE ELSE Pending(Head(waiters)) IN
    /\ waiters' = IF waiters = <<>> THEN <<>> ELSE Tail(waiters)
    /\ fut' = IF grant THEN [fut EXCEPT ![Head(waiters)] = "result"] ELSE fut
    /\ value' = IF grant THEN value ELSE value + 1

\* release() grants and forgets self._value -= 1.
HandOverKeepsPermit ==
    \/ /\ waiters # <<>> /\ Pending(Head(waiters))
       /\ waiters' = Tail(waiters)
       /\ fut' = [fut EXCEPT ![Head(waiters)] = "result"]
       /\ value' = value + 1
    \/ /\ waiters = <<>>
       /\ value' = value + 1
       /\ UNCHANGED <<waiters, fut>>

\* release() uses pop() for popleft().
HandOverLast ==
    \/ /\ waiters # <<>> /\ Pending(Last(waiters))
       /\ waiters' = Front(waiters)
       /\ fut' = [fut EXCEPT ![Last(waiters)] = "result"]
       /\ UNCHANGED value
    \/ /\ waiters = <<>>
       /\ value' = value + 1
       /\ UNCHANGED <<waiters, fut>>

\* BoundedSemaphore.release() compares with > for >=.
RejectedLate == Bounded /\ value > N

-----------------------------------------------------------------------------
\* acquire() with permits left: a Future that is done already, which the
\* caller's await does not suspend on.
AcquireNow(w) ==
    /\ Fresh(w)
    /\ value > 0
    /\ value' = value - 1
    /\ fut' = [fut EXCEPT ![w] = "result"]
    /\ task' = [task EXCEPT ![w] = "holding"]
    /\ UNCHANGED <<waiters, timer, surplus>>

\* acquire() without a permit and without a (truthy) timeout.
AcquireWait(w) ==
    /\ Fresh(w)
    /\ value <= 0
    /\ waiters' = Append(waiters, w)
    /\ fut' = [fut EXCEPT ![w] = "pending"]
    /\ task' = [task EXCEPT ![w] = "awaiting"]
    /\ UNCHANGED <<value, timer, surplus>>

\* acquire(timeout) without a permit.  The Future is in the deque before
\* IOLoop is looked up: if the name does not resolve the caller gets a
\* NameError and the Future stays behind with nobody awaiting it.
AcquireTimeout(w) ==
    /\ Fresh(w)
    /\ value <= 0
    /\ waiters' = Append(waiters, w)
    /\ fut' = [fut EXCEPT ![w] = "pending"]
    /\ timer' = [timer EXCEPT ![w] = IOLoopBound]
    /\ task' = [task EXCEPT ![w] = IF IOLoopBound THEN "awaiting" ELSE "orphan"]
    /\ UNCHANGED <<value, surplus>>

\* on_timeout().  The timer is never removed when the call is granted or
\* cancelled, so it also fires for a Future that has left the deque or that
\* is in it but done.
OnTimeout(w) ==
    /\ timer[w]
    /\ timer' = [timer EXCEPT ![w] = FALSE]
    /\ \/ /\ ~InDeque(w)
          /\ UNCHANGED <<waiters, fut>>
       \/ \E i \in DOMAIN waiters :
             /\ waiters[i] = w
             /\ waiters' = RemoveAt(waiters, i)
             /\ fut' = IF Pending(w) THEN [fut EXCEPT ![w] = "timeout"] ELSE fut
    /\ UNCHANGED <<value, task, surplus>>

\* The loop of release(): self._value is at least 1 after the increment, so
\* the Futures at the head of the deque are popped up to the first one that
\* is not done; it gets the permit.  Without one the deque is emptied and the
\* permit stays in self._value.
HandOver ==
    \/ \E i \in DOMAIN waiters :
          /\ Pending(waiters[i])
          /\ \A j \in 1 .. i-1 : ~Pending(waiters[j])
          /\ waiters' = SubSeq(waiters, i+1, Len(waiters))
          /\ fut' = [fut EXCEPT ![waiters[i]] = "result"]
          /\ UNCHANGED value
    \/ /\ \A i \in DOMAIN waiters : ~Pending(waiters[i])
       /\ waiters' = <<>>
       /\ value' = value + 1
       /\ UNCHANGED fut

\* BoundedSemaphore.release() raises ValueError (Lock.release() turns it into
\* a RuntimeError) and changes nothing.
Rejected == Bounded /\ value >= N

\* release() by the task that holds w's permit: __aexit__, the exit of a
\* _ReleasingContextManager, or a direct call.
Release(w) ==
    /\ task[w] = "holding"
    /\ task' = [task EXCEPT ![w] = "done"]
    /\ \/ Rejected /\ surplus' = surplus - 1 /\ UNCHANGED <<value, waiters, fut>>
       \/ ~Rejected /\ HandOver /\ UNCHANGED surplus
    /\ UNCHANGED timer

\* release() by a caller that holds nothing.
ReleaseSurplus ==
    /\ surplus < MaxSurplus
    /\ ~Rejected
    /\ HandOver
    /\ surplus' = surplus + 1
    /\ UNCHANGED <<timer, task>>

-----------------------------------------------------------------------------
\* The loop runs the awaiting task after its Future is done: it goes on with
\* the permit, or with the TimeoutError or CancelledError of the Future.
Resume(w) ==
    /\ task[w] = "awaiting"
    /\ ~Pending(w)
    /\ task' = [task EXCEPT ![w] = IF fut[w] = "result" THEN "holding" ELSE "done"]
    /\ UNCHANGED <<value, waiters, fut, timer, surplus>>

\* The awaiting task (or its Future) is cancelled while the call is pending:
\* the done Future stays in the deque.
Cancel(w) ==
    /\ task[w] = "awaiting"
    /\ Pending(w)
    /\ fut' = [fut EXCEPT ![w] = "cancelled"]
    /\ UNCHANGED <<value, waiters, timer, task, surplus>>

\* The task is cancelled after its Future got the permit and before the loop
\* resumed it: CancelledError is thrown into acquire's caller, the result is
\* dropped, and __aexit__ is never reached.
CancelGranted(w) ==
    /\ LateCancel
    /\ task[w] = "awaiting"
    /\ fut[w] = "result"
    /\ task' = [task EXCEPT ![w] = "lost"]
    /\ UNCHANGED <<value, waiters, fut, timer, surplus>>

Next ==
    \/ \E w \in Call :
          \/ AcquireNow(w) \/ AcquireWait(w) \/ AcquireTimeout(w)
          \/ OnTimeout(w) \/ Release(w)
          \/ Resume(w) \/ Cancel(w) \/ CancelGranted(w)
    \/ ReleaseSurplus

Spec == Init /\ [][Next]_vars

\* The loop runs every task that is ready, and whoever holds a permit
\* eventually releases it.  Nothing is assumed of timers or cancellations.
Fairness == \A w \in Call : WF_vars(Resume(w)) /\ WF_vars(Release(w))

FairSpec == Spec /\ Fairness

-----------------------------------------------------------------------------
\* Every call's state is one the class can produce.
TypeOK ==
    /\ value \in Nat
    /\ waiters \in Seq(Call)
    /\ fut \in [Call -> FutState]
    /\ timer \in [Call -> BOOLEAN]
    /\ task \in [Call -> TaskState]
    /\ surplus \in Int

\* The calls a permit has been given to and not taken back from.
Owners == {w \in Call : fut[w] = "result" /\ task[w] # "done"}

\* No wakeup is lost: while a permit is free, nobody in the deque is still
\* waiting for one (release() hands over before it leaves the counter up).
NoLostWakeup == value > 0 => \A i \in DOMAIN waiters : ~Pending(waiters[i])

\* No permit is created or destroyed by any mix of grants, timeouts and
\* cancellations: the counter and the permits given out add up to the initial
\* value and the unmatched releases.
Conservation == value + Cardinality(Owners) = N + surplus

\* A BoundedSemaphore's counter never exceeds its initial value, whoever
\* calls release().
BoundedValue == Bounded => value <= N

\* A pending call can always still be reached by release() or on_timeout():
\* its Future is in the deque.  A timed-out or granted one is not (the leak
\* _TimeoutGarbageCollector is there to avoid).
DequeExact ==
    \A w \in Call :
        /\ Pending(w) => InDeque(w)
        /\ InDeque(w) => fut[w] \in {"pending", "cancelled"}

\* A permit is given to w while v waits only if w waits ahead of v: neither a
\* later waiter nor a new acquire() overtakes.
FirstComeFirstServed ==
    [][\A w, v \in Call :
          (fut[w] # "result" /\ fut'[w] = "result" /\ v # w /\ Pending(v))
             => \E i, j \in DOMAIN waiters :
                   i < j /\ waiters[i] = w /\ waiters[j] = v]_vars

\* Every call that waits is served, times out or is cancelled, as long as
\* holders release: with FIFO hand-over nobody starves.
NoStarvation == \A w \in Call : (task[w] = "awaiting") ~> (task[w] # "awaiting")

\* A timed acquire() that fails leaves nothing behind that takes a permit.
NoPermitToOrphan == \A w \in Call : ~(task[w] = "orphan" /\ fut[w] = "result")

-----------------------------------------------------------------------------
\* What the class promises: a counting semaphore with a queue of waiters.
Waiting == {w \in Call : Pending(w)}

Ahead == {p \in Waiting \X Waiting :
            \E i, j \in DOMAIN waiters :
               i < j /\ waiters[i] = p[1] /\ waiters[j] = p[2]}

Ticket == INSTANCE TicketSemaphore WITH
             Client <- Call, Permits <- N,
             avail <- value, owners <- Owners, waiting <- Waiting, ahead <- Ahead

TicketSpec == Ticket!Spec
=============================================================================
