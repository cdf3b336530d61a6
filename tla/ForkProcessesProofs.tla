------------------------ MODULE ForkProcessesProofs ------------------------
(***************************************************************************)
(* Theorems about ForkProcesses for every number of workers and every      *)
(* max_restarts, whatever the workers do.                                  *)
(*                                                                         *)
(* The argument counts: what a step does to the number of processes in a   *)
(* set of states is read off the one or two entries of child it changes.   *)
(***************************************************************************)
EXTENDS ForkProcesses, FiniteSetTheorems, TLAPS

USE ForkAssumption

\* How many processes are in one of the states of S.
Count(c, S) == Cardinality({p \in Process : c[p] \in S})

\* What one process in state s adds to it.
One(s, S) == IF s \in S THEN 1 ELSE 0

\* Process q moves to state s.
Moves(c, d, q, s) == d = [c EXCEPT ![q] = s]

Forked == State \ {"none"}
Placed == {"running", "reaped"} \cup Exited     \* hold a worker's place
Failed == {"reaped_crash"}

\* The processes forked so far are those numbered 1 .. Forks.
Numbered == \A p \in Process : child[p] # "none" <=> p <= Forks

\* How many processes there are of each sort, at each place of the parent.
Counts ==
    /\ parent = "forking" => /\ numRestarts = 0 /\ extra = 0
                             /\ Count(child, Placed) <= NumProcesses
                             /\ Count(child, Failed) = 0
    /\ parent \in {"waiting", "no_children"} =>
          /\ numRestarts <= MaxRestarts
          /\ Count(child, Placed) = NumProcesses + extra
          /\ Count(child, Failed) + extra = numRestarts
    /\ parent = "gave_up" =>
          /\ numRestarts = MaxRestarts + 1
          /\ Count(child, Placed) = NumProcesses + extra - 1
          /\ Count(child, Failed) + extra = numRestarts
    /\ parent = "raised" =>
          Count(child, Placed) + Count(child, Failed) <= NumProcesses + MaxRestarts

Inv == TypeOK /\ Numbered /\ Counts

-----------------------------------------------------------------------------
\* A count is a natural number.
LEMMA CountType ==
    ASSUME NEW c, NEW S
    PROVE  /\ IsFiniteSet({p \in Process : c[p] \in S})
           /\ Count(c, S) \in Nat
<1>1. IsFiniteSet(Process)
  BY FS_Interval, 1 \in Int, MaxForks \in Int DEF Process
<1>2. IsFiniteSet({p \in Process : c[p] \in S})
  BY <1>1, FS_Subset
<1> QED
  BY <1>2, FS_CardinalityType DEF Count

\* Nothing is in a given state before anything is forked.
LEMMA CountNone ==
    ASSUME NEW S, "none" \notin S
    PROVE  Count([p \in Process |-> "none"], S) = 0
<1>1. {p \in Process : [q \in Process |-> "none"][p] \in S} = {}
  OBVIOUS
<1> QED
  BY <1>1, FS_EmptySet DEF Count

\* One process changes its state: it leaves the count of the old state and
\* enters that of the new one.
LEMMA CountUpdate ==
    ASSUME NEW c \in [Process -> State], NEW q \in Process, NEW s, NEW S,
           NEW d, Moves(c, d, q, s)
    PROVE  Count(d, S) = Count(c, S) + One(s, S) - One(c[q], S)
<1> DEFINE A == {p \in Process : c[p] \in S}
           B == {p \in Process : d[p] \in S}
<1>1. IsFiniteSet(A) /\ Cardinality(A) \in Nat
  BY CountType DEF Count
<1>2. q \in A <=> c[q] \in S
  OBVIOUS
<1>3. B = IF s \in S THEN (A \ {q}) \cup {q} ELSE A \ {q}
  BY DEF Moves
<1>4. Count(d, S) = Cardinality(B) /\ Count(c, S) = Cardinality(A)
  BY DEF Count
<1> HIDE DEF A, B
<1>5. IsFiniteSet(A \ {q})
  BY <1>1, FS_RemoveElement, Zenon
<1>6. Cardinality(A \ {q}) = IF q \in A THEN Cardinality(A) - 1 ELSE Cardinality(A)
  BY <1>1, FS_RemoveElement, Zenon
<1>7. Cardinality((A \ {q}) \cup {q}) =
        IF q \in A \ {q} THEN Cardinality(A \ {q}) ELSE Cardinality(A \ {q}) + 1
  BY <1>5, FS_AddElement, Zenon
<1>8. Cardinality(B) = Cardinality(A) + One(s, S) - One(c[q], S)
  BY <1>1, <1>2, <1>3, <1>6, <1>7 DEF One
<1> QED
  BY <1>4, <1>8

\* The same for the three sorts that matter.
LEMMA CountChange ==
    ASSUME NEW c \in [Process -> State], NEW q \in Process, NEW s,
           NEW d, Moves(c, d, q, s)
    PROVE  /\ Count(d, Placed) = Count(c, Placed) + One(s, Placed) - One(c[q], Placed)
           /\ Count(d, Failed) = Count(c, Failed) + One(s, Failed) - One(c[q], Failed)
           /\ Count(d, Forked) = Count(c, Forked) + One(s, Forked) - One(c[q], Forked)
           /\ Count(c, Placed) \in Nat /\ Count(c, Failed) \in Nat /\ Count(c, Forked) \in Nat
<1>1. Count(d, Placed) = Count(c, Placed) + One(s, Placed) - One(c[q], Placed)
  BY CountUpdate
<1>2. Count(d, Failed) = Count(c, Failed) + One(s, Failed) - One(c[q], Failed)
  BY CountUpdate
<1>3. Count(d, Forked) = Count(c, Forked) + One(s, Forked) - One(c[q], Forked)
  BY CountUpdate
<1> QED
  BY <1>1, <1>2, <1>3, CountType

\* Every process forked holds a place, or has crashed and been reaped.
LEMMA CountForked ==
    ASSUME NEW c \in [Process -> State]
    PROVE  Count(c, Forked) = Count(c, Placed) + Count(c, Failed)
<1> DEFINE A == {p \in Process : c[p] \in Placed}
           B == {p \in Process : c[p] \in Failed}
<1>1. IsFiniteSet(A) /\ IsFiniteSet(B)
  BY CountType
<1>2. {p \in Process : c[p] \in Forked} = A \cup B /\ A \cap B = {}
  BY DEF Forked, Placed, Failed, State, Exited
<1>3. Count(c, Placed) = Cardinality(A) /\ Count(c, Failed) = Cardinality(B)
      /\ Count(c, Forked) = Cardinality(A \cup B)
  BY <1>2 DEF Count
<1> HIDE DEF A, B
<1>4. Cardinality(A \cup B) = Cardinality(A) + Cardinality(B) - Cardinality(A \cap B)
  BY <1>1, FS_Union, Zenon
<1>5. Cardinality(A \cap B) = 0
  BY <1>2, FS_EmptySet
<1>6. Count(c, Placed) \in Nat /\ Count(c, Failed) \in Nat
  BY CountType
<1> QED
  BY <1>3, <1>4, <1>5, <1>6

\* The counts of the properties are counts in this sense.
LEMMA CountIn ==
    /\ Forks = Count(child, Forked) /\ Forks' = Count(child', Forked)
    /\ Cardinality(In({"running", "reaped"} \cup Exited)) = Count(child, Placed)
    /\ Cardinality(In({"reaped_crash"})) = Count(child, Failed)
  BY DEF Forks, In, Count, Forked, Placed, Failed

-----------------------------------------------------------------------------
\* A process that changes its state within Placed, from running to exited or
\* from exited to reaped, changes no count.
LEMMA PlacedStep ==
    ASSUME Inv, NEW p \in Process, NEW s \in Placed, child[p] \in Placed,
           child' = [child EXCEPT ![p] = s], UNCHANGED <<parent, numRestarts, otherVars>>
    PROVE  Inv'
<1> USE DEF Inv, otherVars
<1>1. TypeOK'
  BY DEF TypeOK, Placed, State
<1>2. /\ s \in Forked /\ child[p] \in Forked
      /\ s \notin Failed /\ child[p] \notin Failed
  BY DEF Placed, Failed, Forked, State, Exited
<1>3. /\ Count(child', Placed) = Count(child, Placed)
      /\ Count(child', Failed) = Count(child, Failed)
      /\ Count(child', Forked) = Count(child, Forked)
  <2>1. Moves(child, child', p, s) /\ child \in [Process -> State]
    BY DEF Moves, TypeOK
  <2> QED
    BY <1>2, <2>1, CountChange DEF One
<1>4. Numbered'
  BY <1>3, CountIn DEF TypeOK, Numbered, Placed, Exited
<1>5. Counts'
  BY <1>3 DEF Counts
<1> QED
  BY <1>1, <1>4, <1>5

\* os.fork() takes the first free number: one process more holds a place.
LEMMA ForkStep ==
    ASSUME NEW c \in [Process -> State],
           \A p \in Process : c[p] # "none" <=> p <= Count(c, Forked),
           Count(c, Forked) < NumProcesses + MaxRestarts,
           NEW d, d = [c EXCEPT ![Count(c, Forked) + 1] = "running"]
    PROVE  /\ d \in [Process -> State]
           /\ Count(d, Placed) = Count(c, Placed) + 1
           /\ Count(d, Failed) = Count(c, Failed)
           /\ Count(d, Forked) = Count(c, Forked) + 1
           /\ \A p \in Process : d[p] # "none" <=> p <= Count(d, Forked)
<1> DEFINE q == Count(c, Forked) + 1
<1>1. Count(c, Forked) \in Nat /\ Count(c, Placed) \in Nat /\ Count(c, Failed) \in Nat
  BY CountType
<1>2. q \in Process /\ c[q] = "none"
  BY <1>1 DEF Process
<1>3. "none" \notin Placed \cup Failed \cup Forked /\ "running" \in Placed \cap Forked
      /\ "running" \notin Failed /\ "running" \in State
  BY DEF Placed, Failed, Forked, State, Exited
<1>4. /\ Count(d, Placed) = Count(c, Placed) + 1
      /\ Count(d, Failed) = Count(c, Failed)
      /\ Count(d, Forked) = q
  <2>1. Moves(c, d, q, "running")
    BY DEF Moves
  <2> QED
    BY <1>1, <1>2, <1>3, <2>1, CountChange DEF One
<1>5. ASSUME NEW p \in Process PROVE d[p] # "none" <=> p <= q
  BY <1>1, <1>2 DEF Process
<1> QED
  BY <1>3, <1>4, <1>5

\* wait() returns a process that crashed: its place is empty.
LEMMA ReapStep ==
    ASSUME TypeOK, Numbered, NEW p \in Process, child[p] = "crashed",
           NEW d, d = [child EXCEPT ![p] = "reaped_crash"]
    PROVE  /\ d \in [Process -> State]
           /\ Count(d, Placed) = Count(child, Placed) - 1
           /\ Count(d, Failed) = Count(child, Failed) + 1
           /\ Count(d, Forked) = Count(child, Forked)
           /\ \A r \in Process : d[r] # "none" <=> r <= Count(d, Forked)
<1>1. /\ Count(child, Forked) \in Nat /\ Count(child, Placed) \in Nat
      /\ Count(child, Failed) \in Nat
  BY CountType
<1>2. /\ "crashed" \in Placed \cap Forked /\ "crashed" \notin Failed
      /\ "reaped_crash" \in Failed \cap Forked /\ "reaped_crash" \notin Placed
      /\ "reaped_crash" \in State
  BY DEF Placed, Failed, Forked, State, Exited
<1>3. /\ Count(d, Placed) = Count(child, Placed) - 1
      /\ Count(d, Failed) = Count(child, Failed) + 1
      /\ Count(d, Forked) = Count(child, Forked)
  <2>1. Moves(child, d, p, "reaped_crash") /\ child \in [Process -> State]
    BY DEF Moves, TypeOK
  <2> QED
    BY <1>1, <1>2, <2>1, CountChange DEF One
<1> QED
  BY <1>2, <1>3, CountIn DEF TypeOK, Numbered

-----------------------------------------------------------------------------
\* Forking the workers.
LEMMA ForkWorkerInv == Inv /\ ForkWorker => Inv'
<1> SUFFICES ASSUME Inv, ForkWorker PROVE Inv'
  OBVIOUS
<1> USE DEF Inv, otherVars
<1>1. /\ child \in [Process -> State]
      /\ \A p \in Process : child[p] # "none" <=> p <= Count(child, Forked)
      /\ Count(child, Forked) < NumProcesses + MaxRestarts
      /\ child' = [child EXCEPT ![Count(child, Forked) + 1] = "running"]
  <2>1. Count(child, Forked) \in Nat
    BY CountType
  <2> QED
    BY <2>1, CountIn DEF TypeOK, Numbered, ForkWorker, Fork
<1>2. /\ child' \in [Process -> State]
      /\ Count(child', Placed) = Count(child, Placed) + 1
      /\ Count(child', Failed) = Count(child, Failed)
      /\ \A p \in Process : child'[p] # "none" <=> p <= Count(child', Forked)
  BY <1>1, ForkStep
<1>3. TypeOK'
  BY <1>2 DEF TypeOK, ForkWorker
<1>4. Numbered'
  BY <1>2, CountIn DEF Numbered
<1>5. Count(child, Placed) \in Nat /\ Count(child, Placed) < NumProcesses
  <2>1. Count(child, Placed) \in Nat
    BY CountType
  <2>2. Count(child, Forked) = Count(child, Placed) + Count(child, Failed)
    BY CountForked DEF TypeOK
  <2> QED
    BY <2>1, <2>2, CountIn DEF Counts, ForkWorker
<1>6. Counts'
  BY <1>2, <1>5 DEF Counts, ForkWorker
<1> QED
  BY <1>3, <1>4, <1>6

\* What the parent has counted while it waits.
LEMMA WaitingCounts ==
    ASSUME Inv, parent = "waiting"
    PROVE  /\ numRestarts \in Nat /\ numRestarts <= MaxRestarts /\ extra \in Nat
           /\ Count(child, Failed) \in Nat
           /\ Count(child, Placed) = NumProcesses + extra
           /\ Count(child, Failed) + extra = numRestarts
           /\ Count(child, Forked) = NumProcesses + numRestarts
<1>1. /\ numRestarts \in Nat /\ extra \in Nat /\ child \in [Process -> State]
  BY DEF Inv, TypeOK
<1>2. /\ numRestarts <= MaxRestarts
      /\ Count(child, Placed) = NumProcesses + extra
      /\ Count(child, Failed) + extra = numRestarts
  BY DEF Inv, Counts
<1>3. Count(child, Failed) \in Nat /\ Count(child, Placed) \in Nat
  BY CountType
<1>4. Count(child, Forked) = Count(child, Placed) + Count(child, Failed)
  BY <1>1, CountForked
<1> QED
  BY <1>1, <1>2, <1>3, <1>4

\* A crash is answered by a new process, or by an os.fork() that fails.
LEMMA WaitRestartInv == \A p \in Process : Inv /\ WaitRestart(p) => Inv'
<1> SUFFICES ASSUME NEW p \in Process, Inv, WaitRestart(p) PROVE Inv'
  OBVIOUS
<1> USE DEF Inv, otherVars
<1> DEFINE d == [child EXCEPT ![p] = "reaped_crash"]
<1>1. /\ d \in [Process -> State]
      /\ Count(d, Placed) = Count(child, Placed) - 1
      /\ Count(d, Failed) = Count(child, Failed) + 1
      /\ Count(d, Forked) = Count(child, Forked)
      /\ \A r \in Process : d[r] # "none" <=> r <= Count(d, Forked)
  BY ReapStep DEF WaitRestart
<1>2. /\ numRestarts \in Nat /\ numRestarts + 1 <= MaxRestarts
      /\ extra \in Nat /\ Count(child, Failed) \in Nat
      /\ Count(child, Placed) = NumProcesses + extra
      /\ Count(child, Failed) + extra = numRestarts
      /\ Count(child, Forked) = NumProcesses + numRestarts
      /\ extra' = extra
  BY WaitingCounts DEF WaitRestart, TooMany
<1>3. CASE child' = [child EXCEPT ![p] = "reaped_crash", ![Forks + 1] = "running"]
           /\ UNCHANGED parent
  <2>1. child' = [d EXCEPT ![Count(d, Forked) + 1] = "running"]
    BY <1>1, <1>3, CountIn
  <2> HIDE DEF d
  <2>2. /\ child' \in [Process -> State]
        /\ Count(child', Placed) = Count(d, Placed) + 1
        /\ Count(child', Failed) = Count(d, Failed)
        /\ \A r \in Process : child'[r] # "none" <=> r <= Count(child', Forked)
    <3>1. Count(d, Forked) < NumProcesses + MaxRestarts
      BY <1>1, <1>2
    <3> QED
      BY <1>1, <2>1, <3>1, ForkStep, Zenon
  <2>3. TypeOK'
    BY <1>2, <1>3, <2>2 DEF TypeOK, WaitRestart
  <2>4. Numbered'
    BY <2>2, CountIn DEF Numbered
  <2>5. Counts'
    BY <1>1, <1>2, <1>3, <2>2 DEF Counts, WaitRestart
  <2> QED
    BY <2>3, <2>4, <2>5
<1>4. CASE child' = [child EXCEPT ![p] = "reaped_crash"] /\ parent' = "raised"
  <2>1. child' = d
    BY <1>4
  <2> HIDE DEF d
  <2>2. TypeOK'
    BY <1>1, <1>2, <1>4, <2>1 DEF TypeOK, WaitRestart
  <2>3. Numbered'
    BY <1>1, <2>1, CountIn DEF Numbered
  <2>4. Count(child', Placed) + Count(child', Failed) <= NumProcesses + MaxRestarts
    BY <1>1, <1>2, <2>1
  <2>5. Counts'
    BY <1>4, <2>4 DEF Counts
  <2> QED
    BY <2>2, <2>3, <2>5
<1> QED
  BY <1>3, <1>4 DEF WaitRestart

\* One crash more than max_restarts.
LEMMA WaitGiveUpInv == \A p \in Process : Inv /\ WaitGiveUp(p) => Inv'
<1> SUFFICES ASSUME NEW p \in Process, Inv, WaitGiveUp(p) PROVE Inv'
  OBVIOUS
<1> USE DEF Inv, otherVars
<1>1. /\ child' \in [Process -> State]
      /\ Count(child', Placed) = Count(child, Placed) - 1
      /\ Count(child', Failed) = Count(child, Failed) + 1
      /\ \A r \in Process : child'[r] # "none" <=> r <= Count(child', Forked)
  BY ReapStep DEF WaitGiveUp
<1>2. /\ numRestarts = MaxRestarts
      /\ extra \in Nat /\ Count(child, Failed) \in Nat
      /\ Count(child, Placed) = NumProcesses + extra
      /\ Count(child, Failed) + extra = numRestarts
      /\ extra' = extra
  BY WaitingCounts DEF WaitGiveUp, TooMany
<1>3. TypeOK'
  BY <1>1, <1>2 DEF TypeOK, WaitGiveUp
<1>4. Numbered'
  BY <1>1, CountIn DEF Numbered
<1>5. Counts'
  BY <1>1, <1>2 DEF Counts, WaitGiveUp
<1> QED
  BY <1>3, <1>4, <1>5

\* A child that is not a worker ends: nothing happens, a worker more is forked,
\* or the call ends.
LEMMA WaitOtherInv == Inv /\ WaitOther => Inv'
<1> SUFFICES ASSUME Inv, WaitOther PROVE Inv'
  OBVIOUS
<1> USE DEF Inv
<1>1. /\ numRestarts \in Nat /\ numRestarts <= MaxRestarts
      /\ extra \in Nat /\ Count(child, Failed) \in Nat
      /\ Count(child, Placed) = NumProcesses + extra
      /\ Count(child, Failed) + extra = numRestarts
      /\ Count(child, Forked) = NumProcesses + numRestarts
      /\ parent = "waiting" /\ others' \in 0 .. MaxOthers
  BY WaitingCounts DEF TypeOK, WaitOther
<1>2. CASE UNCHANGED <<parent, numRestarts, child, extra>>
  BY <1>1, <1>2, CountIn DEF TypeOK, Numbered, Counts
<1>3. CASE /\ extra' = extra + 1 /\ numRestarts' = numRestarts + 1
           /\ ~TooMany /\ Fork /\ UNCHANGED parent
  <2>1. /\ child \in [Process -> State]
        /\ \A p \in Process : child[p] # "none" <=> p <= Count(child, Forked)
        /\ child' = [child EXCEPT ![Count(child, Forked) + 1] = "running"]
    BY <1>3, CountIn DEF TypeOK, Numbered, Fork
  <2>2. numRestarts + 1 <= MaxRestarts
    BY <1>1, <1>3 DEF TooMany
  <2>3. Count(child, Forked) < NumProcesses + MaxRestarts
    BY <1>1, <2>2
  <2>4. /\ child' \in [Process -> State]
        /\ Count(child', Placed) = Count(child, Placed) + 1
        /\ Count(child', Failed) = Count(child, Failed)
        /\ \A p \in Process : child'[p] # "none" <=> p <= Count(child', Forked)
    BY <2>1, <2>3, ForkStep
  <2>5. TypeOK'
    BY <1>1, <1>3, <2>2, <2>4 DEF TypeOK
  <2>6. Numbered'
    BY <2>4, CountIn DEF Numbered
  <2>7. Counts'
    BY <1>1, <1>3, <2>2, <2>4 DEF Counts
  <2> QED
    BY <2>5, <2>6, <2>7
<1>4. CASE /\ extra' = extra + 1 /\ numRestarts' = numRestarts + 1
           /\ \/ ~TooMany /\ parent' = "raised"
              \/ TooMany /\ parent' = "gave_up"
           /\ UNCHANGED child
  <2>1. TypeOK'
    BY <1>1, <1>4 DEF TypeOK
  <2>2. Numbered'
    BY <1>4, CountIn DEF Numbered
  <2>3. Counts'
    BY <1>1, <1>4 DEF Counts, TooMany
  <2> QED
    BY <2>1, <2>2, <2>3
<1> QED
  BY <1>2, <1>3, <1>4 DEF WaitOther

\* Steps that fork and reap nobody.
LEMMA ParentMovesInv ==
    Inv /\ (ForkedAll \/ ForkFails \/ WaitNoChild) => Inv'
<1> SUFFICES ASSUME Inv, ForkedAll \/ ForkFails \/ WaitNoChild PROVE Inv'
  OBVIOUS
<1> USE DEF Inv, otherVars
<1>1. UNCHANGED child
  BY DEF ForkedAll, ForkFails, WaitNoChild
<1>2. TypeOK'
  BY DEF TypeOK, ForkedAll, ForkFails, WaitNoChild
<1>3. Numbered'
  BY <1>1, CountIn DEF Numbered
<1>4. Forks = Count(child, Placed) + Count(child, Failed)
  BY CountForked, CountIn DEF TypeOK
<1>5. Count(child, Placed) \in Nat /\ Count(child, Failed) \in Nat
  BY CountType
<1>6. Counts'
  BY <1>1, <1>4, <1>5 DEF TypeOK, Counts, ForkedAll, ForkFails, WaitNoChild
<1> QED
  BY <1>2, <1>3, <1>6

LEMMA InitInv == Init => Inv
<1> SUFFICES ASSUME Init PROVE Inv
  OBVIOUS
<1>1. "none" \notin Placed /\ "none" \notin Failed /\ "none" \notin Forked
  BY DEF Placed, Failed, Forked, Exited
<1>2. Count(child, Placed) = 0 /\ Count(child, Failed) = 0 /\ Forks = 0
  BY <1>1, CountNone, CountIn DEF Init
<1>3. TypeOK
  BY DEF TypeOK, Init, State
<1>4. Numbered
  BY <1>2 DEF Numbered, Init, Process
<1>5. Counts
  BY <1>2 DEF Counts, Init
<1> QED
  BY <1>3, <1>4, <1>5 DEF Inv

LEMMA NextInv == Inv /\ [Next]_vars => Inv'
<1> SUFFICES ASSUME Inv, [Next]_vars PROVE Inv'
  OBVIOUS
<1>1. CASE ForkWorker
  BY <1>1, ForkWorkerInv
<1>2. CASE ForkedAll \/ ForkFails \/ WaitNoChild
  BY <1>2, ParentMovesInv
<1>3. ASSUME NEW p \in Process, WaitNormal(p) PROVE Inv'
  BY <1>3, PlacedStep, "exited" \in Placed, "reaped" \in Placed DEF WaitNormal, Placed, Exited
<1>4. ASSUME NEW p \in Process, WaitRestart(p) PROVE Inv'
  BY <1>4, WaitRestartInv
<1>5. ASSUME NEW p \in Process, WaitGiveUp(p) PROVE Inv'
  BY <1>5, WaitGiveUpInv
<1>6. ASSUME NEW p \in Process, ChildEnds(p) PROVE Inv'
  <2>1. {"running", "exited", "crashed"} \subseteq Placed
    BY DEF Placed, Exited
  <2> QED
    BY <1>6, <2>1, PlacedStep DEF ChildEnds
<1>7. CASE UNCHANGED vars
  BY <1>7, CountIn DEF vars, otherVars, Inv, TypeOK, Numbered, Counts
<1> QED
  BY <1>1, <1>2, <1>3, <1>4, <1>5, <1>6, <1>7, WaitOtherInv DEF Next, ParentStep

\* The counts hold in every reachable state.
THEOREM Invariance == Spec => []Inv
  BY InitInv, NextInv, PTL DEF Spec

\* The variables keep their types, and num_restarts never passes
\* max_restarts + 1.
THEOREM TypeCorrect == Spec => []TypeOK
<1>1. Inv => TypeOK
  BY DEF Inv
<1> QED
  BY <1>1, Invariance, PTL

\* While the parent waits, no crash has left a worker's place empty or filled
\* it twice, in whatever order os.wait() reports the children; only the
\* abnormal end of a child that is not a worker adds one.
THEOREM SupervisionCorrect == Spec => []Supervised
<1>1. Inv => Supervised
  BY CountIn DEF Inv, Counts, Supervised
<1> QED
  BY <1>1, Invariance, PTL

\* fork_processes() forks at most num_processes + max_restarts times, forks
\* one worker for each abnormal end, and gives up after exactly max_restarts of them.
THEOREM RestartsCorrect == Spec => []RestartsExact
<1>1. ASSUME Inv PROVE RestartsExact
  <2>1. /\ Forks = Count(child, Placed) + Count(child, Failed)
        /\ Count(child, Placed) \in Nat /\ Count(child, Failed) \in Nat
        /\ Cardinality(In({"reaped_crash"})) = Count(child, Failed)
    BY <1>1, CountForked, CountIn, CountType DEF Inv, TypeOK
  <2> QED
    BY <1>1, <2>1 DEF Inv, TypeOK, Counts, RestartsExact
<1> QED
  BY <1>1, Invariance, PTL
=============================================================================
