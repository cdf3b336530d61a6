--------------------------- MODULE ForkProcesses ---------------------------
(***************************************************************************)
(* tornado.process.fork_processes (src/tornado/process.py): the parent     *)
(* forks its workers, waits for them, and forks again for each one that    *)
(* ends abnormally.  Children run, and end, between any two steps of the   *)
(* parent.  Processes are numbered in the order they are forked.           *)
(*                                                                         *)
(* os.wait() returns any child of the process, and the code does not ask   *)
(* whether it forked that one: children the process had before the call    *)
(* are counted among the others.                                           *)
(***************************************************************************)
EXTENDS Integers, FiniteSets

CONSTANTS
    NumProcesses,  \* num_processes, or cpu_count() for None, 0 and negatives
    MaxRestarts,   \* max_restarts
    MaxForks,      \* bound on fork() calls, above what the code should need
    MaxOthers      \* bound on children that are not workers

ASSUME ForkAssumption ==
    /\ NumProcesses \in Nat \ {0}
    /\ MaxRestarts \in Nat
    /\ MaxForks \in Nat /\ MaxForks > NumProcesses + MaxRestarts
    /\ MaxOthers \in Nat

VARIABLES
    parent,       \* where the parent is
    numRestarts,  \* num_restarts
    child,        \* the state of each process; wait() has returned a reaped one
    others,       \* how many other children wait() has not returned yet
    extra         \* ghost: how many of those it returned had ended abnormally

vars == <<parent, numRestarts, child, others, extra>>

otherVars == <<others, extra>>

Process == 1 .. MaxForks

\* Waiting for wait() to be called: exited, with status 0 or otherwise.
Exited    == {"exited", "crashed"}
State     == {"none", "running", "reaped", "reaped_crash"} \cup Exited

In(states) == {p \in Process : child[p] \in states}

Forks == Cardinality(In(State \ {"none"}))

\* os.fork() in the parent.
Fork == child' = [child EXCEPT ![Forks + 1] = "running"]

\* IOLoop.initialized() makes the call raise before anything is forked.  No
\* class of the repository defines it: as shipped this is an AttributeError in
\* every call, and only the behaviours that begin with "raised" are left.
Init ==
    /\ parent \in {"forking", "raised"}
    /\ numRestarts = 0
    /\ child = [p \in Process |-> "none"]
    /\ others \in 0 .. MaxOthers
    /\ extra = 0

-----------------------------------------------------------------------------
(* Seeded mistakes, used by no behaviour of Spec. *)

\* The restart limit is compared with >= for >.
TooManyEarly == numRestarts + 1 >= MaxRestarts

\* num_restarts is compared before it is counted up.
TooManyLate == numRestarts > MaxRestarts

\* The parent waits for its children in the order it forked them.
WaitNormalInOrder(p) ==
    /\ parent = "waiting" /\ child[p] = "exited"
    /\ \A q \in Process : q < p => child[q] # "running"
    /\ child' = [child EXCEPT ![p] = "reaped"]
    /\ UNCHANGED <<parent, numRestarts, otherVars>>

\* A child killed by a signal is taken for one that ended normally.
RestartForgotten(p) ==
    /\ parent = "waiting" /\ child[p] = "crashed"
    /\ child' = [child EXCEPT ![p] = "reaped_crash"]
    /\ UNCHANGED <<parent, numRestarts, otherVars>>

-----------------------------------------------------------------------------
\* One turn of the loop that forks the workers.
ForkWorker ==
    /\ parent = "forking"
    /\ Forks < NumProcesses
    /\ Fork
    /\ UNCHANGED <<parent, numRestarts, otherVars>>

ForkedAll ==
    /\ parent = "forking"
    /\ Forks = NumProcesses
    /\ parent' = "waiting"
    /\ UNCHANGED <<numRestarts, child, otherVars>>

\* os.fork() fails: the OSError leaves fork_processes(), whatever runs.
ForkFails ==
    /\ parent = "forking" /\ Forks < NumProcesses
    /\ parent' = "raised"
    /\ UNCHANGED <<numRestarts, child, otherVars>>

\* num_restarts is counted up before it is compared.
TooMany == numRestarts + 1 > MaxRestarts

\* wait() returns a child that ended normally: go on waiting.
WaitNormal(p) ==
    /\ parent = "waiting" /\ child[p] = "exited"
    /\ child' = [child EXCEPT ![p] = "reaped"]
    /\ UNCHANGED <<parent, numRestarts, otherVars>>

\* wait() returns a child that a signal or a nonzero status ended: fork again.
WaitRestart(p) ==
    /\ parent = "waiting" /\ child[p] = "crashed"
    /\ ~TooMany
    /\ numRestarts' = numRestarts + 1
    /\ \/ /\ child' = [child EXCEPT ![p] = "reaped_crash", ![Forks + 1] = "running"]
          /\ UNCHANGED parent
       \/ /\ child' = [child EXCEPT ![p] = "reaped_crash"]   \* os.fork() fails
          /\ parent' = "raised"
    /\ UNCHANGED otherVars

\* ... or give up, with a RuntimeError.
WaitGiveUp(p) ==
    /\ parent = "waiting" /\ child[p] = "crashed"
    /\ TooMany
    /\ child' = [child EXCEPT ![p] = "reaped_crash"]
    /\ numRestarts' = numRestarts + 1
    /\ parent' = "gave_up"
    /\ UNCHANGED otherVars

\* wait() returns a child that is not a worker: it is treated like one, so
\* its abnormal end uses up a restart and forks a worker more.
WaitOther ==
    /\ parent = "waiting" /\ others > 0
    /\ others' = others - 1
    /\ \/ UNCHANGED <<parent, numRestarts, child, extra>>
       \/ /\ extra' = extra + 1
          /\ numRestarts' = numRestarts + 1
          /\ \/ ~TooMany /\ Fork /\ UNCHANGED parent
             \/ ~TooMany /\ parent' = "raised" /\ UNCHANGED child   \* os.fork() fails
             \/ TooMany /\ parent' = "gave_up" /\ UNCHANGED child

\* No child is left: wait() raises ECHILD.  The handler compares it with
\* errno.EINTR, but the module does not import errno; sys.exit(0) after the
\* loop is never reached, for os.wait() returns no pid 0.
WaitNoChild ==
    /\ parent = "waiting"
    /\ In({"running"} \cup Exited) = {} /\ others = 0
    /\ parent' = "no_children"
    /\ UNCHANGED <<numRestarts, child, otherVars>>

\* A worker ends, by itself or by a signal.
ChildEnds(p) ==
    /\ child[p] = "running"
    /\ child' = [child EXCEPT ![p] = "exited"] \/ child' = [child EXCEPT ![p] = "crashed"]
    /\ UNCHANGED <<parent, numRestarts, otherVars>>

ParentStep ==
    \/ ForkWorker \/ ForkedAll \/ ForkFails \/ WaitNoChild
    \/ \E p \in Process : WaitNormal(p) \/ WaitRestart(p) \/ WaitGiveUp(p)

Next == ParentStep \/ WaitOther \/ \E p \in Process : ChildEnds(p)

Spec == Init /\ [][Next]_vars

\* The parent runs.  Nothing is assumed of the workers, nor of other children.
FairSpec == Spec /\ WF_vars(ParentStep)

-----------------------------------------------------------------------------
TypeOK ==
    /\ parent \in {"forking", "waiting", "raised", "gave_up", "no_children"}
    /\ numRestarts \in 0 .. MaxRestarts + 1
    /\ child \in [Process -> State]
    /\ others \in 0 .. MaxOthers /\ extra \in Nat

\* While the parent waits, every place among the workers is filled by a
\* process that runs, waits to be reaped, or has done its work: no crash, in
\* whatever order wait() reports them, leaves a place empty or fills it twice.
\* The one way to more than num_processes workers is the abnormal end of
\* another child, which brings one each.
Supervised ==
    parent \in {"waiting", "no_children"} =>
        Cardinality(In({"running", "reaped"} \cup Exited)) = NumProcesses + extra

\* An abnormal end is answered by a new process up to max_restarts times, and
\* giving up means that there was one more.
RestartsExact ==
    /\ Forks <= NumProcesses + MaxRestarts
    /\ parent \in {"waiting", "gave_up"} =>
          Cardinality(In({"reaped_crash"})) + extra = numRestarts
    /\ parent = "gave_up" => numRestarts = MaxRestarts + 1 /\ Forks = NumProcesses + MaxRestarts

\* A worker that has ended is reaped, or the parent has ended.
CrashIsNoticed ==
    \A p \in Process :
        (child[p] \in Exited) ~> (child[p] \notin Exited \/ parent \notin {"forking", "waiting"})
=============================================================================
