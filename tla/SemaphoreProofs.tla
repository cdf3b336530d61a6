-------------------------- MODULE SemaphoreProofs --------------------------
(***************************************************************************)
(* Theorems about Semaphore for every number of calls, every initial       *)
(* value, Semaphore and BoundedSemaphore alike, with and without a         *)
(* resolvable IOLoop, and any number of late cancellations and unmatched   *)
(* releases.                                                               *)
(***************************************************************************)
EXTENDS Semaphore, FiniteSetTheorems, TLAPS

USE SemaphoreAssumption

\* What the promised invariants rest on: a Future is in the deque at most
\* once, the task's state agrees with its Future's, and the deque holds the
\* pending Futures and nothing that was granted or timed out.
NoDuplicates == \A i, j \in DOMAIN waiters : waiters[i] = waiters[j] => i = j

TaskMatchesFuture ==
    \A w \in Call :
        /\ fut[w] = "pending" => task[w] \in {"awaiting", "orphan"}
        /\ task[w] \in {"holding", "lost"} => fut[w] = "result"

Structure == TypeOK /\ NoDuplicates /\ TaskMatchesFuture /\ DequeExact

\* Appending an identity that is not in the deque.
LEMMA AppendFacts ==
    ASSUME TypeOK, NEW w \in Call
    PROVE  /\ Append(waiters, w) \in Seq(Call)
           /\ Len(Append(waiters, w)) = Len(waiters) + 1
           /\ DOMAIN Append(waiters, w) = 1 .. Len(waiters) + 1
           /\ DOMAIN waiters = 1 .. Len(waiters)
           /\ Append(waiters, w)[Len(waiters) + 1] = w
           /\ \A i \in 1 .. Len(waiters) : Append(waiters, w)[i] = waiters[i]
  BY DEF TypeOK

\* Dropping the i elements at the head of the deque.
LEMMA SuffixFacts ==
    ASSUME TypeOK, NEW i \in DOMAIN waiters
    PROVE  LET s == SubSeq(waiters, i+1, Len(waiters)) IN
           /\ s \in Seq(Call)
           /\ Len(s) = Len(waiters) - i
           /\ DOMAIN s = 1 .. Len(waiters) - i
           /\ \A k \in 1 .. Len(waiters) - i : s[k] = waiters[i + k]
  BY DEF TypeOK

\* Removing one element of the deque.
LEMMA RemoveFacts ==
    ASSUME TypeOK, NEW i \in DOMAIN waiters
    PROVE  LET s == RemoveAt(waiters, i) IN
           /\ s \in Seq(Call)
           /\ Len(s) = Len(waiters) - 1
           /\ DOMAIN s = 1 .. Len(waiters) - 1
           /\ \A k \in 1 .. Len(waiters) - 1 :
                 s[k] = IF k < i THEN waiters[k] ELSE waiters[k + 1]
<1> DEFINE a == SubSeq(waiters, 1, i-1)
           b == SubSeq(waiters, i+1, Len(waiters))
<1>1. /\ i \in 1 .. Len(waiters) /\ Len(waiters) \in Nat
      /\ a \in Seq(Call) /\ b \in Seq(Call)
      /\ Len(a) = i - 1 /\ Len(b) = Len(waiters) - i
      /\ \A k \in 1 .. i - 1 : a[k] = waiters[k]
      /\ \A k \in 1 .. Len(waiters) - i : b[k] = waiters[i + k]
  BY DEF TypeOK
<1>2. RemoveAt(waiters, i) = a \o b
  BY DEF RemoveAt
<1> HIDE DEF a, b
<1>3. /\ a \o b \in Seq(Call)
      /\ Len(a \o b) = Len(waiters) - 1
      /\ \A k \in 1 .. Len(waiters) - 1 :
            (a \o b)[k] = IF k < i THEN a[k] ELSE b[k - (i - 1)]
  <2>1. a \in Seq(Call) /\ b \in Seq(Call)
    BY <1>1
  <2>2. /\ a \o b \in Seq(Call) /\ Len(a \o b) = Len(a) + Len(b)
        /\ \A k \in 1 .. Len(a) + Len(b) :
              (a \o b)[k] = IF k <= Len(a) THEN a[k] ELSE b[k - Len(a)]
    BY <2>1
  <2>3. Len(a) = i - 1 /\ Len(a) + Len(b) = Len(waiters) - 1 /\ i \in Nat
    BY <1>1
  <2>4. ASSUME NEW k \in 1 .. Len(waiters) - 1
        PROVE  (a \o b)[k] = IF k < i THEN a[k] ELSE b[k - (i - 1)]
    <3>1. (a \o b)[k] = IF k <= i - 1 THEN a[k] ELSE b[k - (i - 1)]
      BY <2>2, <2>3
    <3>2. (k <= i - 1) <=> (k < i)
      BY <2>3
    <3> QED
      BY <3>1, <3>2
  <2> QED
    BY <2>2, <2>3, <2>4
<1>4. ASSUME NEW k \in 1 .. Len(waiters) - 1
      PROVE  (a \o b)[k] = IF k < i THEN waiters[k] ELSE waiters[k + 1]
  <2>1. CASE k < i
    BY <1>1, <1>3, <2>1
  <2>2. CASE ~(k < i)
    <3>1. k - (i - 1) \in 1 .. Len(waiters) - i /\ i + (k - (i - 1)) = k + 1
      BY <1>1, <2>2
    <3> QED
      BY <1>1, <1>3, <2>2, <3>1
  <2> QED
    BY <2>1, <2>2
<1>5. DOMAIN (a \o b) = 1 .. Len(waiters) - 1
  BY <1>3
<1> QED
  BY <1>2, <1>3, <1>4, <1>5

\* Entering the deque keeps its structure.
LEMMA EnqueueStructure ==
    ASSUME Structure, NEW w \in Call, Fresh(w),
           waiters' = Append(waiters, w),
           fut' = [fut EXCEPT ![w] = "pending"],
           timer' \in [Call -> BOOLEAN],
           \/ task' = [task EXCEPT ![w] = "awaiting"]
           \/ task' = [task EXCEPT ![w] = "orphan"],
           UNCHANGED <<value, surplus>>
    PROVE  Structure'
<1> USE DEF Structure, FutState, TaskState
<1>1. TypeOK'
  BY AppendFacts DEF TypeOK
<1>2. NoDuplicates'
  BY AppendFacts DEF NoDuplicates, Fresh, InDeque
<1>3. TaskMatchesFuture'
  BY DEF TypeOK, TaskMatchesFuture, Fresh
<1>4. ASSUME NEW v \in Call
      PROVE  /\ InDeque(v)' <=> InDeque(v) \/ v = w
             /\ v # w => fut'[v] = fut[v]
             /\ fut'[w] = "pending"
  BY AppendFacts DEF TypeOK, InDeque
<1>5. DequeExact'
  BY <1>4 DEF DequeExact, Pending
<1> QED
  BY <1>1, <1>2, <1>3, <1>5

\* on_timeout()'s removal keeps the structure, and afterwards the Future is
\* no longer in the deque.
LEMMA RemoveStructure ==
    ASSUME Structure, NEW w \in Call, NEW i \in DOMAIN waiters, waiters[i] = w,
           waiters' = RemoveAt(waiters, i),
           fut' = IF Pending(w) THEN [fut EXCEPT ![w] = "timeout"] ELSE fut,
           timer' \in [Call -> BOOLEAN],
           UNCHANGED <<value, task, surplus>>
    PROVE  Structure'
<1> USE DEF Structure, FutState, TaskState
<1>0. /\ Len(waiters) \in Nat
      /\ DOMAIN waiters = 1 .. Len(waiters)
      /\ waiters' \in Seq(Call)
      /\ DOMAIN waiters' = 1 .. Len(waiters) - 1
      /\ \A k \in 1 .. Len(waiters) - 1 :
            waiters'[k] = IF k < i THEN waiters[k] ELSE waiters[k + 1]
  BY RemoveFacts DEF TypeOK
<1> DEFINE src(k) == IF k < i THEN k ELSE k + 1
<1>a. ASSUME NEW k \in DOMAIN waiters'
      PROVE  src(k) \in DOMAIN waiters /\ src(k) # i /\ waiters'[k] = waiters[src(k)]
  BY <1>0
<1>b. \A k, l \in DOMAIN waiters' : src(k) = src(l) => k = l
  BY <1>0
<1>1. TypeOK'
  BY <1>0 DEF TypeOK
<1>2. NoDuplicates'
  <2> HIDE DEF src
  <2> QED
    BY <1>a, <1>b DEF NoDuplicates
<1>3. TaskMatchesFuture'
  BY DEF TypeOK, TaskMatchesFuture, Pending
<1>4. ~InDeque(w)'
  BY <1>a DEF NoDuplicates, InDeque
<1>5. ASSUME NEW v \in Call, v # w
      PROVE  InDeque(v)' <=> InDeque(v)
  <2>1. ASSUME InDeque(v) PROVE InDeque(v)'
    <3>1. PICK j \in DOMAIN waiters : waiters[j] = v
      BY <2>1 DEF InDeque
    <3>2. j # i
      BY <1>5, <3>1
    <3>3. CASE j < i
      BY <1>0, <3>1, <3>3 DEF InDeque
    <3>4. CASE j > i
      <4>1. j - 1 \in 1 .. Len(waiters) - 1 /\ ~(j - 1 < i) /\ (j - 1) + 1 = j
        BY <1>0, <3>1, <3>4
      <4> QED
        BY <1>0, <3>1, <4>1 DEF InDeque
    <3> QED
      BY <1>0, <3>1, <3>2, <3>3, <3>4
  <2>2. ASSUME InDeque(v)' PROVE InDeque(v)
    BY <1>a, <2>2 DEF InDeque
  <2> QED
    BY <2>1, <2>2
<1>6. DequeExact'
  <2>1. /\ fut'[w] # "pending"
        /\ \A v \in Call : v # w => fut'[v] = fut[v]
    BY DEF TypeOK, Pending
  <2> QED
    BY <1>4, <1>5, <2>1 DEF DequeExact, Pending
<1> QED
  BY <1>1, <1>2, <1>3, <1>6

\* The two outcomes of release()'s loop: the first pending Future u of the
\* deque is granted, or none is pending and the counter goes up.
Granted(u) ==
    /\ Pending(u)
    /\ \E i \in DOMAIN waiters :
          /\ waiters[i] = u
          /\ waiters' = SubSeq(waiters, i+1, Len(waiters))
          /\ \A j \in 1 .. i-1 : ~Pending(waiters[j])
    /\ fut' = [fut EXCEPT ![u] = "result"]
    /\ value' = value

KeptFree ==
    /\ \A i \in DOMAIN waiters : ~Pending(waiters[i])
    /\ waiters' = <<>>
    /\ value' = value + 1
    /\ fut' = fut

LEMMA HandOverCases ==
    ASSUME TypeOK, HandOver
    PROVE  (\E u \in Call : Granted(u)) \/ KeptFree
<1>1. CASE \A i \in DOMAIN waiters : ~Pending(waiters[i])
  BY <1>1 DEF HandOver, KeptFree
<1>2. CASE \E i \in DOMAIN waiters : Pending(waiters[i])
  <2>1. PICK i \in DOMAIN waiters :
          /\ Pending(waiters[i])
          /\ \A j \in 1 .. i-1 : ~Pending(waiters[j])
          /\ waiters' = SubSeq(waiters, i+1, Len(waiters))
          /\ fut' = [fut EXCEPT ![waiters[i]] = "result"]
          /\ UNCHANGED value
    BY <1>2 DEF HandOver
  <2>2. waiters[i] \in Call
    BY DEF TypeOK
  <2>3. Granted(waiters[i])
    BY <2>1 DEF Granted
  <2> QED
    BY <2>2, <2>3
<1> QED
  BY <1>1, <1>2

\* In a granting step what is left of the deque is what was behind u, so every
\* other pending Future is still in it.
LEMMA GrantedDeque ==
    ASSUME Structure, NEW u \in Call, Granted(u)
    PROVE  /\ waiters' \in Seq(Call)
           /\ NoDuplicates'
           /\ ~InDeque(u)'
           /\ \A v \in Call : InDeque(v)' => InDeque(v)
           /\ \A v \in Call : v # u /\ Pending(v) => InDeque(v)'
<1>1. PICK i \in DOMAIN waiters :
        /\ waiters[i] = u
        /\ waiters' = SubSeq(waiters, i+1, Len(waiters))
        /\ \A j \in 1 .. i-1 : ~Pending(waiters[j])
  BY DEF Granted
<1> USE DEF Structure
<1>0. /\ Len(waiters) \in Nat
      /\ DOMAIN waiters = 1 .. Len(waiters)
      /\ waiters' \in Seq(Call)
      /\ DOMAIN waiters' = 1 .. Len(waiters) - i
      /\ \A k \in 1 .. Len(waiters) - i : waiters'[k] = waiters[i + k]
  BY <1>1, SuffixFacts DEF TypeOK
<1>a. ASSUME NEW k \in DOMAIN waiters'
      PROVE  i + k \in DOMAIN waiters /\ i + k # i /\ waiters'[k] = waiters[i + k]
  BY <1>0
<1>b. \A k, l \in DOMAIN waiters' : i + k = i + l => k = l
  BY <1>0
<1>2. NoDuplicates' /\ ~InDeque(u)'
  BY <1>1, <1>a, <1>b DEF NoDuplicates, InDeque
<1>3. ASSUME NEW v \in Call, InDeque(v)' PROVE InDeque(v)
  BY <1>a, <1>3 DEF InDeque
<1>4. ASSUME NEW v \in Call, v # u, Pending(v) PROVE InDeque(v)'
  <2>1. PICK j \in DOMAIN waiters : waiters[j] = v
    BY <1>4 DEF DequeExact, InDeque
  <2>2. j > i
    <3>1. j # i /\ ~(j \in 1 .. i - 1)
      BY <1>1, <1>4, <2>1
    <3> QED
      BY <1>0, <2>1, <3>1
  <2>3. j - i \in 1 .. Len(waiters) - i /\ i + (j - i) = j
    BY <1>0, <2>1, <2>2
  <2> QED
    BY <1>0, <2>1, <2>3 DEF InDeque
<1> QED
  BY <1>0, <1>2, <1>3, <1>4

\* release() keeps the structure, whoever the caller is.
LEMMA HandOverStructure ==
    ASSUME Structure, HandOver, surplus' \in Int, UNCHANGED timer,
           \/ UNCHANGED task
           \/ \E w \in Call : task[w] = "holding" /\ task' = [task EXCEPT ![w] = "done"]
    PROVE  Structure'
<1> USE DEF Structure, FutState, TaskState
<1>1. CASE KeptFree
  <2>1. TypeOK' /\ NoDuplicates' /\ TaskMatchesFuture'
    BY <1>1 DEF TypeOK, KeptFree, NoDuplicates, TaskMatchesFuture
  <2>2. DequeExact'
    BY <1>1 DEF KeptFree, DequeExact, InDeque, Pending, TypeOK
  <2> QED
    BY <2>1, <2>2
<1>2. CASE \E u \in Call : Granted(u)
  <2>1. PICK u \in Call : Granted(u)
    BY <1>2
  <2>2. TypeOK' /\ NoDuplicates'
    BY <2>1, GrantedDeque DEF TypeOK, Granted
  <2>3. TaskMatchesFuture'
    BY <2>1 DEF TypeOK, TaskMatchesFuture, Granted, Pending
  <2>4. fut'[u] = "result" /\ \A v \in Call : v # u => fut'[v] = fut[v]
    BY <2>1 DEF TypeOK, Granted
  <2>5. DequeExact'
    BY <2>1, <2>4, GrantedDeque DEF DequeExact, Pending
  <2> QED
    BY <2>2, <2>3, <2>5
<1> QED
  BY <1>1, <1>2, HandOverCases

-----------------------------------------------------------------------------
\* Every action keeps the structure of the deque, the Futures and the tasks.
LEMMA StructureStep ==
    ASSUME Structure, [Next]_vars
    PROVE  Structure'
<1> USE DEF FutState, TaskState
<1>1. ASSUME NEW w \in Call, AcquireNow(w) PROVE Structure'
  <2>1. TypeOK' /\ TaskMatchesFuture'
    BY <1>1 DEF AcquireNow, Structure, TypeOK, TaskMatchesFuture
  <2>2. NoDuplicates' /\ DequeExact'
    BY <1>1 DEF AcquireNow, Fresh, Structure, TypeOK, NoDuplicates, DequeExact, InDeque, Pending
  <2> QED
    BY <2>1, <2>2 DEF Structure
<1>2. ASSUME NEW w \in Call, AcquireWait(w) \/ AcquireTimeout(w) PROVE Structure'
  <2>1. timer' \in [Call -> BOOLEAN]
    BY <1>2 DEF AcquireWait, AcquireTimeout, Structure, TypeOK
  <2> QED
    BY <1>2, <2>1, EnqueueStructure DEF AcquireWait, AcquireTimeout
<1>3. ASSUME NEW w \in Call, OnTimeout(w) PROVE Structure'
  <2>1. timer' \in [Call -> BOOLEAN] /\ UNCHANGED <<value, task, surplus>>
    BY <1>3 DEF OnTimeout, Structure, TypeOK
  <2>2. CASE UNCHANGED <<waiters, fut>>
    BY <2>1, <2>2 DEF Structure, TypeOK, NoDuplicates, TaskMatchesFuture,
                      DequeExact, InDeque, Pending
  <2>3. CASE \E i \in DOMAIN waiters :
                /\ waiters[i] = w
                /\ waiters' = RemoveAt(waiters, i)
                /\ fut' = IF Pending(w) THEN [fut EXCEPT ![w] = "timeout"] ELSE fut
    BY <2>1, <2>3, RemoveStructure
  <2> QED
    BY <1>3, <2>2, <2>3 DEF OnTimeout
<1>4. ASSUME NEW w \in Call, Release(w) PROVE Structure'
  <2>1. CASE Rejected /\ surplus' = surplus - 1 /\ UNCHANGED <<value, waiters, fut>>
    BY <1>4, <2>1 DEF Release, Structure, TypeOK, NoDuplicates, TaskMatchesFuture,
                      DequeExact, InDeque, Pending
  <2>2. CASE ~Rejected /\ HandOver /\ UNCHANGED surplus
    <3>1. surplus' \in Int
      BY <2>2 DEF Structure, TypeOK
    <3> QED
      BY <1>4, <2>2, <3>1, HandOverStructure DEF Release
  <2> QED
    BY <1>4, <2>1, <2>2 DEF Release
<1>5. ASSUME ReleaseSurplus PROVE Structure'
  <2>1. surplus' \in Int
    BY <1>5 DEF ReleaseSurplus, Structure, TypeOK
  <2> QED
    BY <1>5, <2>1, HandOverStructure DEF ReleaseSurplus
<1>6. ASSUME NEW w \in Call, Resume(w) \/ CancelGranted(w) PROVE Structure'
  <2>1. UNCHANGED <<value, waiters, fut, timer, surplus>>
    BY <1>6 DEF Resume, CancelGranted
  <2>2. TypeOK' /\ TaskMatchesFuture'
    BY <1>6, <2>1 DEF Resume, CancelGranted, Structure, TypeOK, TaskMatchesFuture, Pending
  <2> QED
    BY <2>1, <2>2 DEF Structure, NoDuplicates, DequeExact, InDeque, Pending
<1>7. ASSUME NEW w \in Call, Cancel(w) PROVE Structure'
  BY <1>7 DEF Cancel, Structure, TypeOK, NoDuplicates, TaskMatchesFuture, DequeExact,
              InDeque, Pending
<1>8. CASE UNCHANGED vars
  BY <1>8 DEF vars, Structure, TypeOK, NoDuplicates, TaskMatchesFuture, DequeExact,
              InDeque, Pending
<1> QED
  BY <1>1, <1>2, <1>3, <1>4, <1>5, <1>6, <1>7, <1>8 DEF Next

LEMMA AlwaysStructure == Spec => []Structure
<1>1. Init => Structure
  BY DEF Init, Structure, TypeOK, NoDuplicates, TaskMatchesFuture, DequeExact, InDeque,
         Pending, FutState, TaskState
<1> QED
  BY <1>1, StructureStep, PTL DEF Spec

\* Type correctness: every variable keeps its type, and the counter never
\* becomes negative although release() and acquire() only add and subtract 1.
THEOREM TypeCorrect == Spec => []TypeOK
  BY AlwaysStructure, PTL DEF Structure

\* The deque holds every pending Future, and no granted or timed-out one.
THEOREM DequeIsExact == Spec => []DequeExact
  BY AlwaysStructure, PTL DEF Structure

-----------------------------------------------------------------------------
\* While a permit is free nobody waits: release() never leaves the counter
\* positive over a pending Future, and acquire() only enqueues at zero.
LEMMA NoLostWakeupStep ==
    ASSUME Structure, NoLostWakeup, [Next]_vars
    PROVE  NoLostWakeup'
<1> USE DEF NoLostWakeup, Pending
<1>1. ASSUME HandOver PROVE NoLostWakeup'
  <2>1. CASE KeptFree
    BY <2>1 DEF KeptFree
  <2>2. CASE \E u \in Call : Granted(u)
    <3>1. PICK u \in Call : Granted(u)
      BY <2>2
    <3>2. ~(value > 0)
      BY <3>1 DEF Granted, Structure, DequeExact, InDeque
    <3> QED
      BY <3>1, <3>2 DEF Granted
  <2> QED
    BY <1>1, <2>1, <2>2, HandOverCases DEF Structure
<1>2. ASSUME NEW w \in Call,
             AcquireNow(w) \/ AcquireWait(w) \/ AcquireTimeout(w)
      PROVE  NoLostWakeup'
  BY <1>2 DEF AcquireNow, AcquireWait, AcquireTimeout, Structure, TypeOK, Fresh, InDeque
<1>3. ASSUME NEW w \in Call, OnTimeout(w)
      PROVE  NoLostWakeup'
  <2>1. CASE UNCHANGED <<waiters, fut>>
    BY <1>3, <2>1 DEF OnTimeout
  <2>2. CASE ~UNCHANGED <<waiters, fut>>
    <3>1. PICK i \in DOMAIN waiters :
             /\ waiters' = RemoveAt(waiters, i)
             /\ fut' = IF Pending(w) THEN [fut EXCEPT ![w] = "timeout"] ELSE fut
      BY <1>3, <2>2 DEF OnTimeout
    <3>2. /\ \A k \in DOMAIN waiters' : \E j \in DOMAIN waiters : waiters'[k] = waiters[j]
          /\ \A k \in DOMAIN waiters' : waiters'[k] \in Call
      <4>1. /\ DOMAIN waiters = 1 .. Len(waiters) /\ Len(waiters) \in Nat
            /\ waiters' \in Seq(Call)
            /\ DOMAIN waiters' = 1 .. Len(waiters) - 1
            /\ \A k \in 1 .. Len(waiters) - 1 :
                  waiters'[k] = IF k < i THEN waiters[k] ELSE waiters[k + 1]
        BY <3>1, RemoveFacts DEF Structure, TypeOK
      <4>2. ASSUME NEW k \in DOMAIN waiters'
            PROVE  k \in DOMAIN waiters /\ k + 1 \in DOMAIN waiters
        BY <4>1
      <4> QED
        BY <4>1, <4>2
    <3>3. \A v \in Call : fut'[v] = "pending" => fut[v] = "pending"
      BY <3>1 DEF Structure, TypeOK
    <3> QED
      BY <1>3, <3>2, <3>3 DEF OnTimeout
  <2> QED
    BY <2>1, <2>2
<1>4. ASSUME NEW w \in Call, Cancel(w)
      PROVE  NoLostWakeup'
  BY <1>4 DEF Cancel, Structure, TypeOK
<1>5. ASSUME NEW w \in Call, Release(w)
      PROVE  NoLostWakeup'
  BY <1>1, <1>5 DEF Release
<1>6. CASE ReleaseSurplus
  BY <1>1, <1>6 DEF ReleaseSurplus
<1>7. ASSUME NEW w \in Call, Resume(w) \/ CancelGranted(w)
      PROVE  NoLostWakeup'
  BY <1>7 DEF Resume, CancelGranted
<1>8. CASE UNCHANGED vars
  BY <1>8 DEF vars
<1> QED
  BY <1>2, <1>3, <1>4, <1>5, <1>6, <1>7, <1>8 DEF Next

\* No interleaving of acquire(), release(), timeouts and cancellations leaves
\* a caller waiting while the semaphore has a free permit.
THEOREM WakeupNotLost == Spec => []NoLostWakeup
<1>1. Init => NoLostWakeup
  BY DEF Init, NoLostWakeup
<1> QED
  BY <1>1, NoLostWakeupStep, AlwaysStructure, PTL DEF Spec

-----------------------------------------------------------------------------
\* BoundedSemaphore.release() keeps the counter within the initial value.
THEOREM ValueIsBounded == Spec => []BoundedValue
<1>1. Init => BoundedValue
  BY DEF Init, BoundedValue
<1>2. TypeOK /\ BoundedValue /\ [Next]_vars => BoundedValue'
  <2> SUFFICES ASSUME TypeOK, BoundedValue, [Next]_vars
               PROVE  BoundedValue'
    OBVIOUS
  <2>1. ASSUME HandOver, ~Rejected PROVE BoundedValue'
    BY <2>1 DEF HandOver, Rejected, BoundedValue, TypeOK
  <2>2. ASSUME UNCHANGED value PROVE BoundedValue'
    BY <2>2 DEF BoundedValue
  <2>3. ASSUME NEW w \in Call, AcquireNow(w) PROVE BoundedValue'
    BY <2>3 DEF AcquireNow, BoundedValue, TypeOK
  <2> QED
    BY <2>1, <2>2, <2>3 DEF Next, vars, AcquireWait, AcquireTimeout, OnTimeout, Release,
                            ReleaseSurplus, Resume, Cancel, CancelGranted
<1> QED
  BY <1>1, <1>2, TypeCorrect, PTL DEF Spec

-----------------------------------------------------------------------------
\* Owners changes by at most the caller that releases and the call that is
\* granted, in step with the counter.
OwnersFinite == IsFiniteSet(Owners)

LEMMA ConservationStep ==
    ASSUME Structure, OwnersFinite, Conservation, [Next]_vars
    PROVE  OwnersFinite' /\ Conservation'
<1> USE DEF OwnersFinite, Conservation
<1>0. /\ Cardinality(Owners) \in Nat /\ value \in Int /\ surplus \in Int /\ N \in Int
      /\ IsFiniteSet(Owners)
  BY FS_CardinalityType DEF Structure, TypeOK
<1>1. ASSUME Owners' = Owners, NEW d \in Int, value' = value + d, surplus' = surplus + d
      PROVE  OwnersFinite' /\ Conservation'
  BY <1>0, <1>1
<1>2. ASSUME NEW u, u \notin Owners, Owners' = Owners \cup {u},
             NEW d \in Int, value' = (value - 1) + d, surplus' = surplus + d
      PROVE  OwnersFinite' /\ Conservation'
  <2>1. IsFiniteSet(Owners \cup {u}) /\ Cardinality(Owners \cup {u}) = Cardinality(Owners) + 1
    BY <1>0, <1>2, FS_AddElement
  <2> QED
    BY <1>0, <1>2, <2>1
<1>3. ASSUME NEW w, w \in Owners, Owners' = Owners \ {w},
             NEW d \in Int, value' = (value + 1) + d, surplus' = surplus + d
      PROVE  OwnersFinite' /\ Conservation'
  <2>1. IsFiniteSet(Owners \ {w}) /\ Cardinality(Owners \ {w}) = Cardinality(Owners) - 1
    BY <1>0, <1>3, FS_RemoveElement
  <2> QED
    BY <1>0, <1>3, <2>1
<1>4. ASSUME NEW w, w \in Owners, NEW u, u \notin Owners,
             Owners' = (Owners \ {w}) \cup {u},
             UNCHANGED <<value, surplus>>
      PROVE  OwnersFinite' /\ Conservation'
  <2>1. IsFiniteSet(Owners \ {w}) /\ Cardinality(Owners \ {w}) = Cardinality(Owners) - 1
    BY <1>0, <1>4, FS_RemoveElement
  <2>2. u \notin Owners \ {w}
    BY <1>4
  <2>3. /\ IsFiniteSet((Owners \ {w}) \cup {u})
        /\ Cardinality((Owners \ {w}) \cup {u}) = Cardinality(Owners \ {w}) + 1
    BY <2>1, <2>2, FS_AddElement
  <2> QED
    BY <1>0, <1>4, <2>1, <2>3
<1> HIDE DEF OwnersFinite, Conservation
<1>5. ASSUME NEW w \in Call, AcquireNow(w) PROVE OwnersFinite' /\ Conservation'
  <2>1. w \notin Owners /\ Owners' = Owners \cup {w}
    BY <1>5 DEF AcquireNow, Fresh, Owners, Structure, TypeOK
  <2>2. value' = (value - 1) + 0 /\ surplus' = surplus + 0
    BY <1>0, <1>5 DEF AcquireNow
  <2> QED
    BY <1>2, <2>1, <2>2
<1>6. ASSUME NEW w \in Call,
             \/ AcquireWait(w) \/ AcquireTimeout(w) \/ OnTimeout(w)
             \/ Resume(w) \/ Cancel(w) \/ CancelGranted(w)
      PROVE  OwnersFinite' /\ Conservation'
  <2>1. UNCHANGED <<value, surplus>>
    BY <1>6 DEF AcquireWait, AcquireTimeout, OnTimeout, Resume, Cancel, CancelGranted
  <2>2. Owners' = Owners
    <3>1. CASE AcquireWait(w) \/ AcquireTimeout(w)
      BY <3>1 DEF AcquireWait, AcquireTimeout, Fresh, Owners, Structure, TypeOK
    <3>2. CASE OnTimeout(w)
      BY <3>2 DEF OnTimeout, Owners, Pending, Structure, TypeOK
    <3>3. CASE Resume(w) \/ CancelGranted(w)
      BY <3>3 DEF Resume, CancelGranted, Owners, Structure, TypeOK
    <3>4. CASE Cancel(w)
      BY <3>4 DEF Cancel, Pending, Owners, Structure, TypeOK
    <3> QED
      BY <1>6, <3>1, <3>2, <3>3, <3>4
  <2> QED
    <3>1. value' = value + 0 /\ surplus' = surplus + 0
      BY <1>0, <2>1
    <3> QED
      BY <1>1, <2>2, <3>1
<1>7. ASSUME NEW w \in Call, Release(w) PROVE OwnersFinite' /\ Conservation'
  <2>1. w \in Owners
    BY <1>7 DEF Release, Owners, Structure, TaskMatchesFuture
  <2>2. CASE Rejected /\ surplus' = surplus - 1 /\ UNCHANGED <<value, waiters, fut>>
    <3>1. Owners' = Owners \ {w}
      BY <1>7, <2>2 DEF Release, Owners, Structure, TypeOK
    <3>2. value' = (value + 1) + (-1) /\ surplus' = surplus + (-1)
      BY <1>0, <2>2
    <3> QED
      BY <1>3, <2>1, <3>1, <3>2
  <2>3. CASE HandOver /\ UNCHANGED surplus
    <3>1. CASE KeptFree
      <4>1. Owners' = Owners \ {w}
        BY <1>7, <3>1 DEF KeptFree, Release, Owners, Structure, TypeOK
      <4>2. value' = (value + 1) + 0 /\ surplus' = surplus + 0
        BY <1>0, <2>3, <3>1 DEF KeptFree
      <4> QED
        BY <1>3, <2>1, <4>1, <4>2
    <3>2. CASE \E u \in Call : Granted(u)
      <4>1. PICK u \in Call : Granted(u)
        BY <3>2
      <4>2. u # w /\ u \notin Owners /\ task[u] # "done"
        BY <4>1, <2>1 DEF Granted, Pending, Owners, Structure, TaskMatchesFuture
      <4>3. Owners' = (Owners \ {w}) \cup {u}
        BY <1>7, <4>1, <4>2 DEF Granted, Release, Owners, Structure, TypeOK
      <4> QED
        BY <1>4, <2>1, <2>3, <4>1, <4>2, <4>3 DEF Granted
    <3> QED
      BY <2>3, <3>1, <3>2, HandOverCases DEF Structure
  <2> QED
    BY <1>7, <2>2, <2>3 DEF Release
<1>8. ASSUME ReleaseSurplus PROVE OwnersFinite' /\ Conservation'
  <2>1. HandOver /\ surplus' = surplus + 1 /\ UNCHANGED task
    BY <1>8 DEF ReleaseSurplus
  <2>2. CASE KeptFree
    <3>1. Owners' = Owners
      BY <2>1, <2>2 DEF KeptFree, Owners
    <3> QED
      BY <1>1, <2>1, <2>2, <3>1 DEF KeptFree
  <2>3. CASE \E u \in Call : Granted(u)
    <3>1. PICK u \in Call : Granted(u)
      BY <2>3
    <3>2. u \notin Owners /\ task[u] # "done"
      BY <3>1 DEF Granted, Pending, Owners, Structure, TaskMatchesFuture
    <3>3. Owners' = Owners \cup {u}
      BY <2>1, <3>1, <3>2 DEF Granted, Owners, Structure, TypeOK
    <3>4. value' = (value - 1) + 1 /\ surplus' = surplus + 1
      BY <1>0, <2>1, <3>1 DEF Granted
    <3> QED
      BY <1>2, <3>2, <3>3, <3>4
  <2> QED
    BY <2>1, <2>2, <2>3, HandOverCases DEF Structure
<1>9. CASE UNCHANGED vars
  <2>1. Owners' = Owners /\ value' = value + 0 /\ surplus' = surplus + 0
    BY <1>0, <1>9 DEF vars, Owners
  <2> QED
    BY <1>1, <2>1
<1> QED
  BY <1>5, <1>6, <1>7, <1>8, <1>9 DEF Next

\* So they always agree, and finitely many permits are out.
LEMMA AlwaysConserved == Spec => [](OwnersFinite /\ Conservation)
<1>1. Init => OwnersFinite /\ Conservation
  <2> SUFFICES ASSUME Init PROVE Owners = {}
    BY FS_EmptySet DEF Init, OwnersFinite, Conservation
  <2> QED
    BY DEF Init, Owners
<1> QED
  BY <1>1, ConservationStep, AlwaysStructure, PTL DEF Spec

\* Permits are conserved: counter and permits given out always add up to the
\* initial value plus the unmatched releases, so no more than N + surplus
\* callers are inside at once, and a permit that is not out is in the counter.
THEOREM PermitsConserved == Spec => []Conservation
  BY AlwaysConserved, PTL

\* The callers inside, and how many there may be: as long as no release() came
\* from a caller that held nothing, at most N, and with a Lock at most one.
Holding == {w \in Call : task[w] = "holding"}

Exclusion ==
    surplus <= 0 =>
        /\ IsFiniteSet(Holding) /\ Cardinality(Holding) <= N
        /\ N = 1 => \A u, v \in Holding : u = v

\* What callers use the classes for: a Semaphore lets at most N of them in, and
\* a Lock excludes all but one, through timeouts, cancellations before and after
\* the grant, and releases that are rejected.
THEOREM MutualExclusion == Spec => []Exclusion
<1>1. ASSUME Structure, OwnersFinite, Conservation
      PROVE  Exclusion
  <2> SUFFICES ASSUME surplus <= 0
               PROVE  /\ IsFiniteSet(Holding) /\ Cardinality(Holding) <= N
                      /\ N = 1 => \A u, v \in Holding : u = v
    BY DEF Exclusion
  <2>1. Holding \subseteq Owners
    BY <1>1 DEF Holding, Owners, Structure, TaskMatchesFuture
  <2>2. IsFiniteSet(Holding) /\ Cardinality(Holding) <= Cardinality(Owners)
    BY <1>1, <2>1, FS_Subset DEF OwnersFinite
  <2>3. Cardinality(Owners) \in Nat /\ Cardinality(Holding) \in Nat
    BY <1>1, <2>2, FS_CardinalityType DEF OwnersFinite
  <2>4. Cardinality(Holding) <= N
    BY <1>1, <2>2, <2>3 DEF Conservation, Structure, TypeOK
  <2>5. ASSUME N = 1, NEW u \in Holding, NEW v \in Holding, u # v
        PROVE  FALSE
    <3>1. {u, v} \subseteq Holding
      OBVIOUS
    <3>2. IsFiniteSet({u}) /\ Cardinality({u}) = 1
      BY FS_Singleton
    <3>3. IsFiniteSet({u} \cup {v}) /\ Cardinality({u} \cup {v}) = Cardinality({u}) + 1
      BY <2>5, <3>2, FS_AddElement
    <3>4. Cardinality({u} \cup {v}) <= Cardinality(Holding)
      BY <2>2, <3>1, FS_Subset
    <3> QED
      BY <2>3, <2>4, <2>5, <3>2, <3>3, <3>4
  <2> QED
    BY <2>2, <2>4, <2>5
<1> QED
  BY <1>1, AlwaysStructure, AlwaysConserved, PTL

-----------------------------------------------------------------------------
\* Nobody overtakes: a step that grants w while v is pending takes w from a
\* place ahead of v in the deque; a new acquire() succeeds only when nobody
\* is pending.
THEOREM NoOvertaking == Spec => FirstComeFirstServed
<1> DEFINE Fair == \A w, v \in Call :
          (fut[w] # "result" /\ fut'[w] = "result" /\ v # w /\ Pending(v))
             => \E i, j \in DOMAIN waiters :
                   i < j /\ waiters[i] = w /\ waiters[j] = v
<1>1. ASSUME Structure, NoLostWakeup, [Next]_vars PROVE Fair
  <2> SUFFICES ASSUME NEW w \in Call, NEW v \in Call,
                      fut[w] # "result", fut'[w] = "result", v # w, Pending(v)
               PROVE  \E i, j \in DOMAIN waiters :
                         i < j /\ waiters[i] = w /\ waiters[j] = v
    OBVIOUS
  <2>1. PICK j \in DOMAIN waiters : waiters[j] = v
    BY <1>1 DEF Structure, DequeExact, InDeque
  <2>2. ASSUME NEW u \in Call, AcquireNow(u) PROVE FALSE
    BY <1>1, <2>1, <2>2 DEF AcquireNow, NoLostWakeup
  <2>3. HandOver
    <3>1. ASSUME NEW u \in Call,
                 \/ AcquireWait(u) \/ AcquireTimeout(u) \/ OnTimeout(u) \/ Cancel(u)
                 \/ Resume(u) \/ CancelGranted(u)
          PROVE  FALSE
      BY <1>1, <3>1 DEF AcquireWait, AcquireTimeout, OnTimeout, Cancel, Resume,
                        CancelGranted, Structure, TypeOK
    <3>2. ~UNCHANGED vars
      BY DEF vars
    <3> QED
      BY <1>1, <2>2, <3>1, <3>2 DEF Next, Release, ReleaseSurplus
  <2>4. ~KeptFree
    BY <2>1 DEF KeptFree
  <2>5. PICK u \in Call : Granted(u)
    BY <1>1, <2>3, <2>4, HandOverCases DEF Structure
  <2>6. u = w
    BY <1>1, <2>5 DEF Granted, Structure, TypeOK
  <2>7. PICK i \in DOMAIN waiters :
          waiters[i] = w /\ \A k \in 1 .. i-1 : ~Pending(waiters[k])
    BY <2>5, <2>6 DEF Granted
  <2>8. i < j
    <3>1. j # i /\ ~(j \in 1 .. i - 1)
      BY <2>1, <2>7
    <3> QED
      BY <1>1, <2>1, <2>7, <3>1 DEF Structure, TypeOK
  <2> QED
    BY <2>1, <2>7, <2>8
<1>2. ASSUME Structure, NoLostWakeup, [Next]_vars PROVE [Fair]_vars
  BY <1>1, <1>2
<1> QED
  BY <1>2, AlwaysStructure, WakeupNotLost, PTL DEF Spec, FirstComeFirstServed

-----------------------------------------------------------------------------
\* A granting step is a Return step of the abstract semaphore; the order of
\* those who still wait is the order of the deque.
LEMMA ReturnRefined ==
    ASSUME Structure, HandOver, NEW S,
           \A u \in Call : Granted(u) => Owners' = (Owners \ S) \cup {u},
           KeptFree => Owners' = Owners \ S
    PROVE  Ticket!Return(S)
<1>1. CASE KeptFree
  <2>1. Waiting = {}
    BY <1>1 DEF KeptFree, Waiting, Structure, DequeExact, InDeque
  <2>2. Waiting' = {}
    BY <1>1, <2>1 DEF KeptFree, Waiting, Pending
  <2>3. Ahead = {} /\ Ahead' = {}
    BY <2>1, <2>2 DEF Ahead
  <2> QED
    BY <1>1, <2>1, <2>2, <2>3 DEF KeptFree, Ticket!Return
<1>2. CASE \E u \in Call : Granted(u)
  <2>1. PICK u \in Call : Granted(u)
    BY <1>2
  <2>2. PICK i \in DOMAIN waiters :
          /\ waiters[i] = u
          /\ waiters' = SubSeq(waiters, i+1, Len(waiters))
          /\ \A j \in 1 .. i-1 : ~Pending(waiters[j])
    BY <2>1 DEF Granted
  <2>3. u \in Waiting /\ Waiting' = Waiting \ {u}
    BY <2>1 DEF Granted, Waiting, Pending, Structure, TypeOK
  <2>4. /\ Len(waiters) \in Nat
        /\ DOMAIN waiters = 1 .. Len(waiters)
        /\ DOMAIN waiters' = 1 .. Len(waiters) - i
        /\ \A k \in DOMAIN waiters' : i + k \in DOMAIN waiters /\ waiters'[k] = waiters[i + k]
    <3>1. /\ Len(waiters) \in Nat
          /\ DOMAIN waiters = 1 .. Len(waiters)
          /\ DOMAIN waiters' = 1 .. Len(waiters) - i
          /\ \A k \in 1 .. Len(waiters) - i : waiters'[k] = waiters[i + k]
      BY <2>2, SuffixFacts DEF Structure, TypeOK
    <3>2. ASSUME NEW k \in DOMAIN waiters'
          PROVE  i + k \in DOMAIN waiters /\ waiters'[k] = waiters[i + k]
      BY <3>1
    <3> QED
      BY <3>1, <3>2
  <2>5. ASSUME NEW j \in DOMAIN waiters, Pending(waiters[j]), waiters[j] # u
        PROVE  j > i
    <3>1. j # i /\ ~(j \in 1 .. i - 1)
      BY <2>2, <2>5
    <3> QED
      BY <2>4, <3>1
  <2>6. Ticket!First(u)
    <3> SUFFICES ASSUME NEW v \in Waiting, <<v, u>> \in Ahead PROVE FALSE
      BY <2>3 DEF Ticket!First
    <3>1. PICK k, l \in DOMAIN waiters : k < l /\ waiters[k] = v /\ waiters[l] = u
      BY DEF Ahead
    <3>2. l = i
      BY <2>2, <3>1 DEF Structure, NoDuplicates
    <3>3. k \in 1 .. i - 1
      BY <2>4, <3>1, <3>2
    <3> QED
      BY <2>2, <3>1, <3>3 DEF Waiting
  <2>7. Ahead' = Ticket!Without(u)
    <3> DEFINE Before(p) == \E k, l \in DOMAIN waiters :
                               k < l /\ waiters[k] = p[1] /\ waiters[l] = p[2]
    <3>1. ASSUME NEW p \in Waiting' \X Waiting'
          PROVE  Before(p)' <=> Before(p)
      <4>0. p[1] \in Waiting /\ p[2] \in Waiting /\ p[1] # u /\ p[2] # u
        BY <2>3
      <4>1. ASSUME NEW k \in DOMAIN waiters', NEW l \in DOMAIN waiters',
                   k < l, waiters'[k] = p[1], waiters'[l] = p[2]
            PROVE  Before(p)
        <5>1. i + k < i + l
          BY <2>4, <4>1
        <5> QED
          BY <2>4, <4>1, <5>1
      <4>2. ASSUME NEW k \in DOMAIN waiters, NEW l \in DOMAIN waiters,
                   k < l, waiters[k] = p[1], waiters[l] = p[2]
            PROVE  Before(p)'
        <5>1. k > i /\ l > i
          BY <2>5, <4>0, <4>2 DEF Waiting
        <5>2. /\ k - i \in DOMAIN waiters' /\ l - i \in DOMAIN waiters'
              /\ i + (k - i) = k /\ i + (l - i) = l /\ k - i < l - i
          BY <2>4, <4>2, <5>1
        <5> QED
          BY <2>4, <4>2, <5>2
      <4> QED
        BY <4>1, <4>2
    <3>2. Ahead = {p \in Waiting \X Waiting : Before(p)}
      BY DEF Ahead
    <3>3. Ahead' = {p \in Waiting' \X Waiting' : Before(p)'}
      BY DEF Ahead
    <3> HIDE DEF Before
    <3> QED
      BY <2>3, <3>1, <3>2, <3>3 DEF Ticket!Without
  <2> QED
    BY <2>1, <2>3, <2>6, <2>7 DEF Granted, Ticket!Return
<1> QED
  BY <1>1, <1>2, HandOverCases DEF Structure

\* v is ahead of w in the deque.
Before(v, w) ==
    \E k, l \in DOMAIN waiters : k < l /\ waiters[k] = v /\ waiters[l] = w

LEMMA AheadIsBefore ==
    /\ Ahead = {p \in Waiting \X Waiting : Before(p[1], p[2])}
    /\ Ahead' = {p \in Waiting' \X Waiting' : Before(p[1], p[2])'}
  BY DEF Ahead, Before

\* Removing a Future from the deque does not reorder the others.
LEMMA RemoveKeepsOrder ==
    ASSUME TypeOK, NEW i \in DOMAIN waiters, waiters' = RemoveAt(waiters, i),
           NEW v, v # waiters[i], NEW w, w # waiters[i]
    PROVE  Before(v, w)' <=> Before(v, w)
<1>1. /\ Len(waiters) \in Nat
      /\ DOMAIN waiters = 1 .. Len(waiters)
      /\ DOMAIN waiters' = 1 .. Len(waiters) - 1
      /\ \A k \in 1 .. Len(waiters) - 1 :
            waiters'[k] = IF k < i THEN waiters[k] ELSE waiters[k + 1]
  BY RemoveFacts DEF TypeOK
<1> DEFINE src(k) == IF k < i THEN k ELSE k + 1
           dst(k) == IF k < i THEN k ELSE k - 1
<1>2. \A k \in DOMAIN waiters' : src(k) \in DOMAIN waiters /\ waiters'[k] = waiters[src(k)]
  BY <1>1
<1>3. \A k, l \in DOMAIN waiters' : k < l => src(k) < src(l)
  BY <1>1
<1>4. \A k \in DOMAIN waiters : k # i => dst(k) \in DOMAIN waiters' /\ waiters'[dst(k)] = waiters[k]
  <2> SUFFICES ASSUME NEW k \in DOMAIN waiters, k # i
               PROVE  dst(k) \in DOMAIN waiters' /\ waiters'[dst(k)] = waiters[k]
    OBVIOUS
  <2>1. CASE k < i
    BY <1>1, <2>1
  <2>2. CASE k > i
    <3>1. k - 1 \in 1 .. Len(waiters) - 1 /\ ~(k - 1 < i) /\ (k - 1) + 1 = k /\ ~(k < i)
      BY <1>1, <2>2
    <3> QED
      BY <1>1, <3>1
  <2> QED
    BY <1>1, <2>1, <2>2
<1>5. \A k, l \in DOMAIN waiters : k # i /\ l # i /\ k < l => dst(k) < dst(l)
  BY <1>1
<1> HIDE DEF src, dst
<1>6. ASSUME Before(v, w)' PROVE Before(v, w)
  BY <1>2, <1>3, <1>6 DEF Before
<1>7. ASSUME Before(v, w) PROVE Before(v, w)'
  BY <1>4, <1>5, <1>7 DEF Before
<1> QED
  BY <1>6, <1>7

\* A step that takes w out of Waiting and keeps everybody's order is Leave.
LEMMA LeaveRefined ==
    ASSUME NEW w \in Call, w \in Waiting, Waiting' = Waiting \ {w},
           \A v, u \in Waiting \ {w} : Before(v, u)' <=> Before(v, u),
           UNCHANGED value, Owners' = Owners
    PROVE  Ticket!Leave(w)
<1>1. Ahead' = Ticket!Without(w)
  BY AheadIsBefore DEF Ticket!Without
<1> QED
  BY <1>1 DEF Ticket!Leave

LEMMA EnqueueRefined ==
    ASSUME Structure, NEW w \in Call, Fresh(w), value <= 0,
           waiters' = Append(waiters, w),
           fut' = [fut EXCEPT ![w] = "pending"],
           UNCHANGED value, Owners' = Owners
    PROVE  Ticket!Enqueue(w)
<1>1. w \notin Owners /\ w \notin Waiting /\ ~InDeque(w)
  BY DEF Fresh, Owners, Waiting, Structure, TaskMatchesFuture, Pending
<1>2. Waiting' = Waiting \cup {w}
  BY DEF Waiting, Pending, Structure, TypeOK
<1>3. /\ Len(waiters) \in Nat
      /\ DOMAIN waiters = 1 .. Len(waiters)
      /\ DOMAIN waiters' = 1 .. Len(waiters) + 1
      /\ waiters'[Len(waiters) + 1] = w
      /\ \A i \in DOMAIN waiters : waiters'[i] = waiters[i]
  BY AppendFacts DEF Structure, TypeOK
<1>4. ASSUME NEW v \in Waiting PROVE Before(v, w)'
  <2>1. PICK k \in DOMAIN waiters : waiters[k] = v
    BY DEF Waiting, Structure, DequeExact, InDeque
  <2>2. k \in DOMAIN waiters' /\ Len(waiters) + 1 \in DOMAIN waiters' /\ k < Len(waiters) + 1
    BY <1>3, <2>1
  <2> QED
    BY <1>3, <2>1, <2>2 DEF Before
<1>5. ASSUME NEW v PROVE ~Before(w, v)'
  <2> SUFFICES ASSUME NEW k \in DOMAIN waiters', NEW l \in DOMAIN waiters', k < l,
                      waiters'[k] = w
               PROVE  FALSE
    BY DEF Before
  <2>1. k \in DOMAIN waiters
    BY <1>3
  <2> QED
    BY <1>1, <1>3, <2>1 DEF InDeque
<1>6. ASSUME NEW v \in Waiting, NEW u \in Waiting PROVE Before(v, u)' <=> Before(v, u)
  <2>1. u # w /\ v # w
    BY <1>1
  <2>2. \A k \in DOMAIN waiters' : waiters'[k] # w => k \in DOMAIN waiters
    BY <1>3
  <2>3. \A k \in DOMAIN waiters : k \in DOMAIN waiters'
    BY <1>3
  <2> QED
    BY <1>3, <2>1, <2>2, <2>3 DEF Before
<1>7. Ahead' = Ahead \cup (Waiting \X {w})
  BY <1>1, <1>2, <1>4, <1>5, <1>6, AheadIsBefore
<1>8. value = 0
  BY DEF Structure, TypeOK
<1> QED
  BY <1>1, <1>2, <1>7, <1>8 DEF Ticket!Enqueue

\* A step that touches neither a pending Future nor an owner is invisible.
LEMMA Invisible ==
    ASSUME UNCHANGED value, Owners' = Owners, Waiting' = Waiting,
           \A v, u \in Waiting : Before(v, u)' <=> Before(v, u)
    PROVE  UNCHANGED Ticket!vars
<1>1. Ahead' = Ahead
  BY AheadIsBefore
<1> QED
  BY <1>1 DEF Ticket!vars

LEMMA RefinementStep ==
    ASSUME Structure, NoLostWakeup, [Next]_vars
    PROVE  [Ticket!Next]_(Ticket!vars)
<1>1. ASSUME NEW w \in Call, AcquireNow(w) PROVE Ticket!Take(w)
  <2>1. Waiting = {} /\ Waiting' = {}
    BY <1>1 DEF AcquireNow, NoLostWakeup, Waiting, Pending, Structure, TypeOK, DequeExact, InDeque
  <2>2. w \notin Owners /\ Owners' = Owners \cup {w}
    BY <1>1 DEF AcquireNow, Fresh, Owners, Structure, TypeOK
  <2>3. Ahead = {} /\ Ahead' = {}
    BY <2>1 DEF Ahead
  <2> QED
    BY <1>1, <2>1, <2>2, <2>3 DEF AcquireNow, Ticket!Take
<1>2. ASSUME NEW w \in Call, AcquireWait(w) \/ AcquireTimeout(w) PROVE Ticket!Enqueue(w)
  <2>1. Owners' = Owners
    BY <1>2 DEF AcquireWait, AcquireTimeout, Fresh, Owners, Structure, TypeOK
  <2> QED
    BY <1>2, <2>1, EnqueueRefined DEF AcquireWait, AcquireTimeout
<1>3. ASSUME NEW w \in Call, OnTimeout(w)
      PROVE  Ticket!Leave(w) \/ UNCHANGED Ticket!vars
  <2>1. Owners' = Owners /\ UNCHANGED value
    BY <1>3 DEF OnTimeout, Owners, Pending, Structure, TypeOK
  <2>2. CASE UNCHANGED <<waiters, fut>>
    BY <2>1, <2>2, Invisible DEF Waiting, Pending, Before
  <2>3. CASE ~UNCHANGED <<waiters, fut>>
    <3>1. PICK i \in DOMAIN waiters :
             /\ waiters[i] = w
             /\ waiters' = RemoveAt(waiters, i)
             /\ fut' = IF Pending(w) THEN [fut EXCEPT ![w] = "timeout"] ELSE fut
      BY <1>3, <2>3 DEF OnTimeout
    <3>2. \A v, u \in Waiting \ {w} : Before(v, u)' <=> Before(v, u)
      BY <3>1, RemoveKeepsOrder DEF Structure
    <3>3. CASE Pending(w)
      <4>1. w \in Waiting /\ Waiting' = Waiting \ {w}
        BY <3>1, <3>3 DEF Waiting, Pending, Structure, TypeOK
      <4> QED
        BY <2>1, <3>2, <4>1, LeaveRefined
    <3>4. CASE ~Pending(w)
      <4>1. Waiting' = Waiting /\ w \notin Waiting
        BY <3>1, <3>4 DEF Waiting, Pending
      <4> QED
        BY <2>1, <3>2, <4>1, Invisible
    <3> QED
      BY <3>3, <3>4
  <2> QED
    BY <2>2, <2>3
<1>4. ASSUME NEW w \in Call, Cancel(w) PROVE Ticket!Leave(w)
  <2>1. w \in Waiting /\ Waiting' = Waiting \ {w}
    BY <1>4 DEF Cancel, Waiting, Pending, Structure, TypeOK
  <2>2. Owners' = Owners
    BY <1>4 DEF Cancel, Pending, Owners, Structure, TypeOK
  <2>3. \A v, u \in Waiting \ {w} : Before(v, u)' <=> Before(v, u)
    BY <1>4 DEF Cancel, Before
  <2> QED
    BY <1>4, <2>1, <2>2, <2>3, LeaveRefined DEF Cancel
<1>5. ASSUME NEW w \in Call, Release(w)
      PROVE  (w \in Owners /\ Ticket!Return({w})) \/ Ticket!Forfeit(w)
  <2>1. w \in Owners
    BY <1>5 DEF Release, Owners, Structure, TaskMatchesFuture
  <2>2. CASE HandOver
    <3>1. ASSUME KeptFree PROVE Owners' = Owners \ {w}
      BY <1>5, <3>1 DEF KeptFree, Release, Owners, Structure, TypeOK
    <3>2. ASSUME NEW u \in Call, Granted(u) PROVE Owners' = (Owners \ {w}) \cup {u}
      <4>1. u # w /\ task[u] # "done"
        BY <3>2, <2>1 DEF Granted, Pending, Owners, Structure, TaskMatchesFuture
      <4> QED
        BY <1>5, <3>2, <4>1 DEF Granted, Release, Owners, Structure, TypeOK
    <3> QED
      BY <2>1, <2>2, <3>1, <3>2, ReturnRefined
  <2>3. CASE UNCHANGED <<value, waiters, fut>>
    <3>1. Owners' = Owners \ {w}
      BY <1>5, <2>3 DEF Release, Owners, Structure, TypeOK
    <3>2. Waiting' = Waiting /\ Ahead' = Ahead
      BY <2>3 DEF Waiting, Ahead, Pending
    <3> QED
      BY <2>1, <2>3, <3>1, <3>2 DEF Ticket!Forfeit
  <2> QED
    BY <1>5, <2>2, <2>3 DEF Release
<1>6. ASSUME ReleaseSurplus PROVE Ticket!Return({})
  <2>1. HandOver /\ UNCHANGED task
    BY <1>6 DEF ReleaseSurplus
  <2>2. ASSUME KeptFree PROVE Owners' = Owners \ {}
    BY <2>1, <2>2 DEF KeptFree, Owners
  <2>3. ASSUME NEW u \in Call, Granted(u) PROVE Owners' = (Owners \ {}) \cup {u}
    <3>1. task[u] # "done"
      BY <2>3 DEF Granted, Pending, Structure, TaskMatchesFuture
    <3> QED
      BY <2>1, <2>3, <3>1 DEF Granted, Owners, Structure, TypeOK
  <2> QED
    BY <2>1, <2>2, <2>3, ReturnRefined
<1>7. ASSUME NEW w \in Call, Resume(w) \/ CancelGranted(w) PROVE UNCHANGED Ticket!vars
  <2>1. Owners' = Owners
    BY <1>7 DEF Resume, CancelGranted, Owners, Structure, TypeOK
  <2> QED
    BY <1>7, <2>1, Invisible DEF Resume, CancelGranted, Waiting, Pending, Before
<1>8. CASE UNCHANGED vars
  BY <1>8, Invisible DEF vars, Owners, Waiting, Pending, Before
<1> QED
  BY <1>1, <1>2, <1>3, <1>4, <1>5, <1>6, <1>7, <1>8 DEF Next, Ticket!Next

\* Semaphore, BoundedSemaphore and Lock implement the counting semaphore with
\* a queue of waiters: timeouts and cancellations are clients that leave the
\* queue, and nothing else of the Futures, timers and tasks can be observed.
THEOREM ImplementsTicket == Spec => TicketSpec
<1>1. Init => Ticket!Init
  BY DEF Init, Ticket!Init, Owners, Waiting, Ahead, Pending
<1> QED
  BY <1>1, RefinementStep, AlwaysStructure, WakeupNotLost, PTL DEF Spec, TicketSpec, Ticket!Spec
=============================================================================
