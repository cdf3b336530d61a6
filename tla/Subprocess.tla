----------------------------- MODULE Subprocess -----------------------------
(***************************************************************************)
(* tornado.process.Subprocess (src/tornado/process.py): the pipes of a     *)
(* child process and who closes which end, with PipeIOStream               *)
(* (src/tornado/iostream.py), whose FileIO closes its descriptor when it   *)
(* is collected.  Other code of the process opens files between the steps  *)
(* of Python's garbage collection, but not during the constructor.         *)
(***************************************************************************)
EXTENDS Naturals, FiniteSets

CONSTANTS
    Std,     \* stdin, stdout, stderr
    MaxPipeFd

ASSUME PipesAssumption == MaxPipeFd \in Nat

VARIABLES
    phase,    \* of the constructor: new, making, running, exited, failed
    wanted,   \* the ends given as STREAM, not made yet
    fds,      \* fds[n]: what is open at descriptor n
    streamFd, \* the descriptor of each PipeIOStream, until it is collected
    childFd,  \* the descriptor of the child's end of each pipe, in to_close
    popen,    \* Popen() was called
    victim    \* ghost: a file of other code was closed under it

pipeVars == <<phase, wanted, fds, streamFd, childFd, popen, victim>>

Descriptor == 1 .. MaxPipeFd
Closed == 0

FreeFds == {n \in Descriptor : fds[n] = "free"}
Lowest(S) == CHOOSE n \in S : \A m \in S : n <= m

PipesInit ==
    /\ phase = "new"
    /\ wanted = {}
    /\ fds = [n \in Descriptor |-> "free"]
    /\ streamFd = [s \in Std |-> Closed]
    /\ childFd = [s \in Std |-> Closed]
    /\ popen = FALSE
    /\ victim = FALSE

PipeEnds == {childFd[s] : s \in Std} \cup {streamFd[s] : s \in Std}

\* os.close(): the number is free, whatever was open there.
CloseFds(S) == fds' = [n \in Descriptor |-> IF n \in S THEN "free" ELSE fds[n]]

-----------------------------------------------------------------------------
(* Seeded mistake, used by no behaviour of the specification. *)

\* The child's ends stay open in the parent.
CloseChildEndsNot == {}

-----------------------------------------------------------------------------
\* Subprocess(...), with some of the three given as STREAM.
NewSubprocess(S) ==
    /\ phase = "new"
    /\ phase' = "making"
    /\ wanted' = S
    /\ UNCHANGED <<fds, streamFd, childFd, popen, victim>>

\* One os.pipe(), and a PipeIOStream for the parent's end of it.
MakePipe(s) ==
    /\ phase = "making" /\ s \in wanted /\ Cardinality(FreeFds) >= 2
    /\ LET one == Lowest(FreeFds)
           two == Lowest(FreeFds \ {one})
       IN  /\ fds' = [fds EXCEPT ![one] = "pipe", ![two] = "pipe"]
           /\ IF s = "stdin"
              THEN childFd' = [childFd EXCEPT ![s] = one] /\ streamFd' = [streamFd EXCEPT ![s] = two]
              ELSE childFd' = [childFd EXCEPT ![s] = two] /\ streamFd' = [streamFd EXCEPT ![s] = one]
    /\ wanted' = wanted \ {s}
    /\ UNCHANGED <<phase, popen, victim>>

\* EMFILE from os.pipe(), outside the try: nothing is closed.
PipeFails ==
    /\ phase = "making" /\ wanted # {} /\ Cardinality(FreeFds) < 2
    /\ phase' = "failed"
    /\ UNCHANGED <<wanted, fds, streamFd, childFd, popen, victim>>

\* What is closed after Popen() has returned: to_close.
ToClose == {childFd[s] : s \in Std}

Popen ==
    /\ phase = "making" /\ wanted = {}
    /\ phase' = "running" /\ popen' = TRUE
    /\ CloseFds(ToClose)
    /\ UNCHANGED <<wanted, streamFd, childFd, victim>>

\* Popen() raises: all of pipe_fds is closed by number, also the descriptors
\* that the streams own.
PopenFails ==
    /\ phase = "making" /\ wanted = {}
    /\ phase' = "failed" /\ popen' = TRUE
    /\ CloseFds(PipeEnds)
    /\ UNCHANGED <<wanted, streamFd, childFd, victim>>

ChildExits ==
    /\ phase = "running" /\ phase' = "exited"
    /\ UNCHANGED <<wanted, fds, streamFd, childFd, popen, victim>>

\* A PipeIOStream that nothing refers to any more is collected.
CollectStream(s) ==
    /\ phase \in {"running", "exited", "failed"} /\ streamFd[s] # Closed
    /\ victim' = (victim \/ fds[streamFd[s]] = "other")
    /\ CloseFds({streamFd[s]})
    /\ streamFd' = [streamFd EXCEPT ![s] = Closed]
    /\ UNCHANGED <<phase, wanted, childFd, popen>>

OpenOther ==
    /\ phase # "making" /\ FreeFds # {}
    /\ fds' = [fds EXCEPT ![Lowest(FreeFds)] = "other"]
    /\ UNCHANGED <<phase, wanted, streamFd, childFd, popen, victim>>

CloseOther(n) ==
    /\ phase # "making" /\ fds[n] = "other"
    /\ CloseFds({n})
    /\ UNCHANGED <<phase, wanted, streamFd, childFd, popen, victim>>

PipesNext ==
    \/ \E S \in SUBSET Std : NewSubprocess(S)
    \/ PipeFails \/ Popen \/ PopenFails \/ ChildExits \/ OpenOther
    \/ \E s \in Std : MakePipe(s) \/ CollectStream(s)
    \/ \E n \in Descriptor : CloseOther(n)

PipesSpec == PipesInit /\ [][PipesNext]_pipeVars

-----------------------------------------------------------------------------
\* Once there is a child, the parent has open its own end of each pipe and no
\* other, so that the child's exit is an end of file.  A Popen() that fails
\* leaves no pipe open.  And no file of other code is closed, unless Popen()
\* has failed: then a stream closes its number a second time.
PipesAreExact ==
    /\ phase \in {"running", "exited"} =>
          {n \in Descriptor : fds[n] = "pipe"} = {streamFd[s] : s \in Std} \ {Closed}
    /\ phase = "failed" /\ popen => \A n \in Descriptor : fds[n] # "pipe"
    /\ victim => phase = "failed" /\ popen
=============================================================================
