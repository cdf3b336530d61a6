------------------------ MODULE AsyncTestCaseProofs ------------------------
(***************************************************************************)
(* Proofs about AsyncTestCase, for any number of wait() and stop() calls.  *)
(***************************************************************************)
EXTENDS AsyncTestCase, TLAPS

\* As long as nothing has failed, what stop() left behind is newer than the
\* last wait().
ArgsFresh ==
    /\ stops \in Nat /\ stops <= MaxStops
    /\ LastBy <= stops
    /\ stopped /\ ~failed => stopArgs > LastBy

IInv == TypeOK /\ StopReachesLoop /\ ArgsFresh /\ OneStopOneWait

LEMMA InitIInv == Init => IInv
<1> SUFFICES ASSUME Init PROVE IInv
  OBVIOUS
<1>1. TypeOK
  <2>1. waits = Len(outcome) + (IF looping THEN 1 ELSE 0) /\ outcome \in Seq(Outcome)
    BY DEF Init
  <2>2. stopArgs \in 0 .. MaxStops /\ armed \subseteq 1 .. waits
    BY TestCaseAssumption DEF Init, NoArgs
  <2> QED
    BY <2>1, <2>2 DEF Init, TypeOK
<1>2. ArgsFresh
  BY TestCaseAssumption DEF Init, ArgsFresh, LastBy
<1> QED
  BY <1>1, <1>2 DEF Init, IInv, StopReachesLoop, OneStopOneWait

\* stop() keeps what the flags say of the loop.
LEMMA StopKeepsFlags ==
    ASSUME IInv, NEW args \in 0 .. MaxStops, Stop(args), looping' = looping
    PROVE  StopReachesLoop' /\ {stopped', running', loopStop'} \subseteq BOOLEAN
  BY DEF IInv, TypeOK, StopReachesLoop, Stop

\* What has been used up is a number of stop() calls.
LEMMA LastByTyped ==
    ASSUME IInv
    PROVE  LastBy \in 0 .. MaxStops /\ LastBy <= stops
<1>1. ASSUME NEW o \in Outcome PROVE o.by \in 0 .. MaxStops
  BY DEF Outcome
<1>2. outcome # <<>> => outcome[Len(outcome)] \in Outcome
  BY DEF IInv, TypeOK
<1>3. LastBy \in 0 .. MaxStops
  BY <1>1, <1>2, TestCaseAssumption DEF LastBy
<1> QED
  BY <1>3 DEF IInv, ArgsFresh

\* A condition() that raises: the wait() ends, and the stop() is kept.
LEMMA ConditionRaisesKeeps ==
    ASSUME IInv, ConditionRaises
    PROVE  IInv'
<1> DEFINE r == [gave |-> Raised, by |-> LastBy]
<1>1. /\ looping /\ loopStop /\ loopStop' = FALSE /\ looping' = FALSE
      /\ outcome' = Append(outcome, r)
      /\ stopped' = stopped /\ running' = running /\ failed' = failed
      /\ stopArgs' = stopArgs /\ hasCond' = hasCond /\ armed' = armed
      /\ waits' = waits /\ stops' = stops
  BY DEF ConditionRaises
<1>2. outcome \in Seq(Outcome) /\ LastBy \in 0 .. MaxStops /\ LastBy <= stops
  BY LastByTyped DEF IInv, TypeOK
<1>3. r \in Outcome
  BY <1>2, TestCaseAssumption DEF Raised, Outcome
<1>r. r.by = LastBy /\ r.gave = Raised
  OBVIOUS
<1> HIDE DEF r
<1>4. /\ outcome' \in Seq(Outcome)
      /\ Len(outcome') = Len(outcome) + 1 /\ Len(outcome) \in Nat
      /\ outcome'[Len(outcome) + 1] = r
      /\ \A i \in 1 .. Len(outcome) : outcome'[i] = outcome[i]
      /\ DOMAIN outcome = 1 .. Len(outcome) /\ DOMAIN outcome' = 1 .. Len(outcome')
      /\ outcome' # <<>>
  BY <1>1, <1>2, <1>3
<1>5. LastBy' = LastBy
  BY <1>4, <1>r DEF LastBy
<1>6. ArgsFresh'
  BY <1>1, <1>5 DEF IInv, ArgsFresh
<1>7. StopReachesLoop'
  BY <1>1 DEF IInv, TypeOK, StopReachesLoop
<1>8. TypeOK'
  <2>1. waits' = Len(outcome') + (IF looping' THEN 1 ELSE 0)
    BY <1>1, <1>4 DEF IInv, TypeOK
  <2>2. {stopped', running', failed', looping', loopStop', hasCond'} \subseteq BOOLEAN
    BY <1>1 DEF IInv, TypeOK
  <2> QED
    BY <1>1, <1>4, <2>1, <2>2 DEF IInv, TypeOK
<1>9. ASSUME NEW i \in DOMAIN outcome', outcome'[i].gave # Raised
      PROVE  outcome'[i].gave > (IF i = 1 THEN 0 ELSE outcome'[i-1].by)
  <2>1. i \in 1 .. Len(outcome)
    BY <1>4, <1>9, <1>r
  <2>2. outcome'[i] = outcome[i] /\ (i # 1 => outcome'[i-1] = outcome[i-1])
    BY <2>1, <1>4
  <2> QED
    BY <2>1, <2>2, <1>4, <1>9 DEF IInv, OneStopOneWait
<1> QED
  BY <1>6, <1>7, <1>8, <1>9 DEF IInv, OneStopOneWait

\* The end of a wait() that was stopped: what it hands out is fresh.
LEMMA WaitEndKeeps ==
    ASSUME IInv, WaitEnd, stopped, stops' = stops, failed' = failed
    PROVE  /\ outcome' \in Seq(Outcome)
           /\ Len(outcome') = Len(outcome) + 1
           /\ stopArgs' \in 0 .. MaxStops
           /\ ArgsFresh' /\ OneStopOneWait'
<1> DEFINE r == [gave |-> IF failed THEN Raised ELSE stopArgs, by |-> stops]
<1>1. /\ outcome' = Append(outcome, r) /\ stopped' = FALSE
      /\ stopArgs' = IF failed THEN stopArgs ELSE NoArgs
  BY DEF WaitEnd
<1>2. /\ outcome \in Seq(Outcome)
      /\ stops \in 0 .. MaxStops /\ stopArgs \in 0 .. MaxStops /\ failed \in BOOLEAN
  BY TestCaseAssumption DEF IInv, TypeOK, ArgsFresh
<1>3. r \in Outcome
  BY <1>2, TestCaseAssumption DEF Raised, Outcome
<1>r. r.by = stops /\ r.gave = IF failed THEN Raised ELSE stopArgs
  OBVIOUS
<1> HIDE DEF r
<1>4. /\ outcome' \in Seq(Outcome)
      /\ Len(outcome') = Len(outcome) + 1 /\ Len(outcome) \in Nat
      /\ outcome'[Len(outcome) + 1] = r
      /\ \A i \in 1 .. Len(outcome) : outcome'[i] = outcome[i]
      /\ DOMAIN outcome = 1 .. Len(outcome) /\ DOMAIN outcome' = 1 .. Len(outcome')
      /\ outcome' # <<>> /\ (outcome = <<>> <=> Len(outcome) = 0)
  BY <1>1, <1>2, <1>3
<1>5. LastBy' = stops
  BY <1>4, <1>r DEF LastBy
<1>6. ArgsFresh'
  BY <1>1, <1>5 DEF IInv, ArgsFresh
<1>7. ASSUME NEW i \in DOMAIN outcome', outcome'[i].gave # Raised
      PROVE  outcome'[i].gave > (IF i = 1 THEN 0 ELSE outcome'[i-1].by)
  <2>1. CASE i \in 1 .. Len(outcome)
    <3>1. outcome'[i] = outcome[i] /\ (i # 1 => outcome'[i-1] = outcome[i-1])
      BY <2>1, <1>4
    <3>2. i \in DOMAIN outcome
      BY <2>1, <1>4
    <3> QED
      BY <3>1, <3>2, <1>7 DEF IInv, OneStopOneWait
  <2>2. CASE i = Len(outcome) + 1
    <3>1. outcome'[i] = r /\ ~failed /\ r.gave = stopArgs
      BY <2>2, <1>4, <1>7, <1>r
    <3>2. (IF i = 1 THEN 0 ELSE outcome'[i-1].by) = LastBy
      BY <2>2, <1>4 DEF LastBy
    <3> QED
      BY <3>1, <3>2 DEF IInv, ArgsFresh
  <2> QED
    BY <2>1, <2>2, <1>4
<1>8. OneStopOneWait'
  BY <1>7 DEF OneStopOneWait
<1>9. stopArgs' \in 0 .. MaxStops
  BY <1>1, <1>2, TestCaseAssumption DEF NoArgs
<1> QED
  BY <1>4, <1>6, <1>8, <1>9

LEMMA NextKeepsIInv == IInv /\ [Next]_vars => IInv'
<1> SUFFICES ASSUME IInv, [Next]_vars PROVE IInv'
  OBVIOUS
<1> USE TestCaseAssumption
<1>1. CASE CallStop
  <2>1. /\ Stop(stops + 1) /\ stops' = stops + 1 /\ stops < MaxStops
        /\ failed' = failed /\ looping' = looping /\ hasCond' = hasCond /\ armed' = armed
        /\ waits' = waits /\ outcome' = outcome
    BY <1>1 DEF CallStop
  <2>2. stops + 1 \in 0 .. MaxStops /\ stops \in Nat
    BY <2>1 DEF IInv, ArgsFresh
  <2>3. StopReachesLoop' /\ {stopped', running', loopStop'} \subseteq BOOLEAN
    BY <2>1, <2>2, StopKeepsFlags
  <2>4. TypeOK'
    BY <2>1, <2>2, <2>3 DEF IInv, TypeOK, Stop
  <2>5. LastBy' = LastBy /\ LastBy <= stops /\ LastBy \in Nat
    BY <2>1, LastByTyped DEF LastBy
  <2>6. ArgsFresh'
    BY <2>1, <2>2, <2>5 DEF ArgsFresh, Stop
  <2> QED
    BY <2>1, <2>3, <2>4, <2>6 DEF IInv, OneStopOneWait
<1>2. ASSUME NEW w \in 1 .. MaxWaits, TimeoutFunc(w) PROVE IInv'
  <2>1. /\ Stop(NoArgs) /\ failed' = TRUE /\ armed' = armed \ {w}
        /\ looping' = looping /\ hasCond' = hasCond
        /\ waits' = waits /\ stops' = stops /\ outcome' = outcome
    BY <1>2 DEF TimeoutFunc
  <2>2. NoArgs \in 0 .. MaxStops
    BY DEF NoArgs
  <2>3. StopReachesLoop' /\ {stopped', running', loopStop'} \subseteq BOOLEAN
    BY <2>1, <2>2, StopKeepsFlags
  <2>4. TypeOK'
    BY <2>1, <2>2, <2>3 DEF IInv, TypeOK, Stop
  <2>5. ArgsFresh'
    BY <2>1 DEF IInv, ArgsFresh, LastBy
  <2> QED
    BY <2>1, <2>3, <2>4, <2>5 DEF IInv, OneStopOneWait
<1>3. CASE WaitStopped
  <2>1. /\ ~looping /\ stopped /\ waits' = waits + 1 /\ WaitEnd
        /\ running' = running /\ failed' = failed /\ loopStop' = loopStop
        /\ hasCond' = hasCond /\ armed' = armed /\ stops' = stops
    BY <1>3 DEF WaitStopped
  <2>2. looping' = FALSE /\ stopped' = FALSE
    BY <2>1 DEF WaitEnd
  <2>3. StopReachesLoop'
    BY <2>1, <2>2 DEF IInv, StopReachesLoop
  <2>4. TypeOK'
    <3>1. /\ outcome' \in Seq(Outcome) /\ Len(outcome') = Len(outcome) + 1
          /\ stopArgs' \in 0 .. MaxStops /\ Len(outcome) \in Nat
      BY <2>1, <2>2, WaitEndKeeps DEF IInv, TypeOK
    <3>2. waits' = Len(outcome') + (IF looping' THEN 1 ELSE 0) /\ armed' \subseteq 1 .. waits'
      BY <3>1, <2>1, <2>2 DEF IInv, TypeOK
    <3>3. {stopped', running', failed', looping', loopStop', hasCond'} \subseteq BOOLEAN
      BY <2>1, <2>2 DEF IInv, TypeOK
    <3> QED
      BY <3>1, <3>2, <3>3 DEF TypeOK
  <2> QED
    BY <2>1, <2>3, <2>4, WaitEndKeeps DEF IInv
<1>4. ASSUME NEW cond \in BOOLEAN, NEW timed \in BOOLEAN, WaitStart(cond, timed) PROVE IInv'
  <2>1. /\ ~looping /\ ~stopped /\ waits' = waits + 1
        /\ armed' = (IF timed THEN armed \cup {waits + 1} ELSE armed)
        /\ running' = TRUE /\ looping' = TRUE /\ hasCond' = cond
        /\ stopped' = stopped /\ failed' = failed /\ stopArgs' = stopArgs
        /\ loopStop' = loopStop /\ stops' = stops /\ outcome' = outcome
    BY <1>4 DEF WaitStart
  <2>2. waits \in Nat
    BY <2>1 DEF IInv, TypeOK
  <2>3. TypeOK'
    <3>1. waits' = Len(outcome') + (IF looping' THEN 1 ELSE 0)
      BY <2>1, <2>2 DEF IInv, TypeOK
    <3>2. armed' \subseteq 1 .. waits'
      <4>1. armed \subseteq 1 .. waits
        BY DEF IInv, TypeOK
      <4>2. 1 .. waits \subseteq 1 .. waits + 1 /\ waits + 1 \in 1 .. waits + 1
        BY <2>2
      <4> QED
        BY <4>1, <4>2, <2>1
    <3>3. {stopped', running', failed', looping', loopStop', hasCond'} \subseteq BOOLEAN
      BY <2>1, <2>2 DEF IInv, TypeOK
    <3> QED
      BY <3>1, <3>2, <3>3, <2>1 DEF IInv, TypeOK
  <2>4. StopReachesLoop' /\ ArgsFresh' /\ OneStopOneWait'
    BY <2>1 DEF IInv, StopReachesLoop, ArgsFresh, LastBy, OneStopOneWait
  <2> QED
    BY <2>3, <2>4 DEF IInv
<1>5. CASE LoopEnds
  <2>1. /\ looping /\ loopStop /\ loopStop' = FALSE /\ WaitEnd
        /\ running' = running /\ failed' = failed /\ hasCond' = hasCond
        /\ armed' = armed /\ waits' = waits /\ stops' = stops
    BY <1>5 DEF LoopEnds
  <2>2. looping' = FALSE /\ stopped' = FALSE /\ stopped /\ ~running
    BY <2>1 DEF WaitEnd, IInv, StopReachesLoop, TypeOK
  <2>3. StopReachesLoop'
    BY <2>1, <2>2 DEF StopReachesLoop
  <2>4. TypeOK'
    <3>1. /\ outcome' \in Seq(Outcome) /\ Len(outcome') = Len(outcome) + 1
          /\ stopArgs' \in 0 .. MaxStops /\ Len(outcome) \in Nat
      BY <2>1, <2>2, WaitEndKeeps DEF IInv, TypeOK
    <3>2. waits' = Len(outcome') + (IF looping' THEN 1 ELSE 0) /\ armed' \subseteq 1 .. waits'
      BY <3>1, <2>1, <2>2 DEF IInv, TypeOK
    <3>3. {stopped', running', failed', looping', loopStop', hasCond'} \subseteq BOOLEAN
      BY <2>1, <2>2 DEF IInv, TypeOK
    <3> QED
      BY <3>1, <3>2, <3>3 DEF TypeOK
  <2> QED
    BY <2>1, <2>2, <2>3, <2>4, WaitEndKeeps DEF IInv
<1>6. CASE LoopAgain
  <2>1. /\ looping /\ loopStop' = FALSE /\ running' = TRUE
        /\ stopped' = stopped /\ failed' = failed /\ stopArgs' = stopArgs
        /\ looping' = looping /\ hasCond' = hasCond /\ armed' = armed
        /\ waits' = waits /\ stops' = stops /\ outcome' = outcome
    BY <1>6 DEF LoopAgain
  <2>2. TypeOK'
    BY <2>1 DEF IInv, TypeOK
  <2>3. StopReachesLoop' /\ ArgsFresh' /\ OneStopOneWait'
    BY <2>1 DEF IInv, StopReachesLoop, ArgsFresh, LastBy, OneStopOneWait
  <2> QED
    BY <2>2, <2>3 DEF IInv
<1>7. CASE UNCHANGED vars
  BY <1>7 DEF vars, IInv, TypeOK, StopReachesLoop, ArgsFresh, LastBy, OneStopOneWait
<1> QED
  BY <1>1, <1>2, <1>3, <1>4, <1>5, <1>6, <1>7, ConditionRaisesKeeps DEF Next

LEMMA Invariance == Spec => []IInv
  BY InitIInv, NextKeepsIInv, PTL DEF Spec

\* The flags of the test case keep their types, and every wait() has one
\* outcome.
THEOREM TypeCorrect == Spec => []TypeOK
<1>1. IInv => TypeOK
  BY DEF IInv
<1> QED
  BY <1>1, Invariance, PTL

\* What __running and __stopped say of the loop is always true, so stop() never
\* misses a loop that runs and wait()'s assertion never fails.
THEOREM FlagsAreRight == Spec => []StopReachesLoop
<1>1. IInv => StopReachesLoop
  BY DEF IInv
<1> QED
  BY <1>1, Invariance, PTL

\* One stop() never makes two wait() calls return.
THEOREM StopsAreNotReused == Spec => []OneStopOneWait
<1>1. IInv => OneStopOneWait
  BY DEF IInv
<1> QED
  BY <1>1, Invariance, PTL
=============================================================================
