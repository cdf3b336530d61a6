--------------------------- MODULE LibraryProofs ---------------------------
(***************************************************************************)
(* Theorems about the parts of the library that keep state by themselves:  *)
(* the cache of HTTP clients, for any number of loops, implementations and *)
(* clients; the headers of a message, for any names and values; the pipes  *)
(* of a Subprocess, for any number of descriptors; the registry of locales *)
(* for any codes, directories and loads; and multi(), for any nesting of   *)
(* calls.  The results of loops over sequences are proved by induction     *)
(* over their indices, in the form of a set that holds 0 and the successor *)
(* of each of its elements.                                                *)
(***************************************************************************)
EXTENDS Multi, ClientCache, HTTPHeaders, Subprocess, Locale, FiniteSetTheorems,
        WellFoundedInduction, SequenceTheorems, TLAPS

-----------------------------------------------------------------------------
\* Every set of natural numbers that is not empty has a least element.
LEMMA LeastElement ==
    ASSUME NEW S \in SUBSET Nat, S # {}
    PROVE  \E n \in S : \A m \in S : n <= m
<1>1. PICK n \in S : \A m \in S : ~(<<m, n>> \in OpToRel(<, Nat))
  BY NatLessThanWellFounded, WFMin
<1>2. \A m, k \in Nat : m < k => <<m, k>> \in OpToRel(<, Nat)
  BY DEF OpToRel
<1>3. \A m \in S : ~(m < n)
  BY <1>1, <1>2
<1> QED
  BY <1>3

\* Induction over the natural numbers, for a set.
LEMMA SetInduction ==
    ASSUME NEW S, 0 \in S, \A n \in Nat : n \in S => n + 1 \in S
    PROVE  \A n \in Nat : n \in S
<1> SUFFICES ASSUME NEW k \in Nat, k \notin S
             PROVE  FALSE
  OBVIOUS
<1> DEFINE Rest == {n \in Nat : n \notin S}
<1>1. PICK n \in Rest : \A m \in Rest : n <= m
  BY LeastElement
<1>2. n \in Nat /\ n # 0 /\ n - 1 \in Nat /\ n - 1 \notin Rest /\ (n - 1) + 1 = n
  BY <1>1
<1> QED
  BY <1>2

-----------------------------------------------------------------------------
(* FoldLeft and FlattenSeq, step by step. *)

\* What FoldLeft goes through: the results for the sets of indices.
IsFold(f, D, b, G, n) ==
    /\ f[{}] = b
    /\ \A S \in SUBSET (1 .. n) : S # {} /\ f[S \ {Max(S)}] \in D => f[S] = G[Max(S)][f[S \ {Max(S)}]]

\* A loop over the indices, with the result after each.
IsLoop(g, b, G, n) == g[0] = b /\ \A i \in 1 .. n : g[i] = G[i][g[i - 1]]

\* A function of the subsets of 1 .. n may be defined by what it is without the
\* greatest element.
LEMMA FoldExists ==
    ASSUME NEW D, NEW b \in D, NEW G \in [Nat -> [D -> D]], NEW n \in Nat
    PROVE  \E f \in [SUBSET (1 .. n) -> D] : IsFold(f, D, b, G, n)
<1> DEFINE Ks == {k \in Nat : \E f \in [SUBSET (1 .. k) -> D] : IsFold(f, D, b, G, k)}
<1>1. 0 \in Ks
  <2> DEFINE f == [S \in SUBSET (1 .. 0) |-> b]
  <2>1. \A S \in SUBSET (1 .. 0) : S = {}
    OBVIOUS
  <2>2. f \in [SUBSET (1 .. 0) -> D] /\ IsFold(f, D, b, G, 0)
    BY <2>1 DEF IsFold
  <2> QED
    BY <2>2, Zenon
<1>2. ASSUME NEW k \in Nat, k \in Ks
      PROVE  k + 1 \in Ks
  <2>1. PICK f \in [SUBSET (1 .. k) -> D] : IsFold(f, D, b, G, k)
    BY <1>2, Zenon
  <2> DEFINE g == [S \in SUBSET (1 .. k + 1) |->
                     IF k + 1 \in S THEN G[k + 1][f[S \ {k + 1}]] ELSE f[S]]
  <2>2. \A S \in SUBSET (1 .. k + 1) : S \ {k + 1} \in SUBSET (1 .. k)
    OBVIOUS
  <2>3. \A S \in SUBSET (1 .. k + 1) : k + 1 \notin S => S \in SUBSET (1 .. k)
    OBVIOUS
  <2>4. g \in [SUBSET (1 .. k + 1) -> D]
    BY <2>2, <2>3
  <2>5. ASSUME NEW S \in SUBSET (1 .. k + 1)
        PROVE  g[S] = IF S = {} THEN b ELSE G[Max(S)][g[S \ {Max(S)}]]
    <3>1. CASE k + 1 \in S
      <4>1. \A x \in S : k + 1 >= x
        OBVIOUS
      <4>2. \A x \in S : x >= k + 1 => x = k + 1
        OBVIOUS
      <4>3. Max(S) = k + 1
        BY <3>1, <4>1, <4>2, Zenon DEF Max
      <4>4. g[S \ {k + 1}] = f[S \ {k + 1}]
        BY <2>2
      <4> QED
        BY <3>1, <4>3, <4>4
    <3>2. CASE k + 1 \notin S
      <4>1. S \in SUBSET (1 .. k) /\ S \ {Max(S)} \in SUBSET (1 .. k) /\ k + 1 \notin S \ {Max(S)}
        BY <2>3, <3>2
      <4>2. g[S] = f[S] /\ g[S \ {Max(S)}] = f[S \ {Max(S)}]
        BY <3>2, <4>1
      <4>3. f[S] = IF S = {} THEN b ELSE G[Max(S)][f[S \ {Max(S)}]]
        BY <2>1, <4>1 DEF IsFold
      <4> QED
        BY <4>2, <4>3
    <3> QED
      BY <3>1, <3>2
  <2>6. k + 1 \in Nat
    OBVIOUS
  <2>7. IsFold(g, D, b, G, k + 1)
    <3>1. {} \in SUBSET (1 .. k + 1)
      OBVIOUS
    <3> QED
      BY <2>5, <3>1, Zenon DEF IsFold
  <2> HIDE DEF g
  <2> QED
    BY <2>4, <2>6, <2>7, Zenon
<1>3. n \in Ks
  <2> HIDE DEF Ks
  <2> QED
    BY <1>1, <1>2, SetInduction
<1> QED
  BY <1>3, Zenon

\* Such a function, taken at 1 .. i, is a loop over the indices.
LEMMA FoldIsLoop ==
    ASSUME NEW D, NEW b \in D, NEW G \in [Nat -> [D -> D]], NEW n \in Nat, NEW f,
           IsFold(f, D, b, G, n)
    PROVE  \E g \in [0 .. n -> D] : IsLoop(g, b, G, n) /\ f[1 .. n] = g[n]
<1>1. f[1 .. 0] = b
  <2>1. 1 .. 0 = {} /\ {} \in SUBSET (1 .. n)
    OBVIOUS
  <2> QED
    BY <2>1 DEF IsFold
<1>2. ASSUME NEW i \in 1 .. n, f[1 .. (i - 1)] \in D
      PROVE  f[1 .. i] = G[i][f[1 .. (i - 1)]]
  <2>1. 1 .. i \in SUBSET (1 .. n)
    OBVIOUS
  <2>2. (1 .. i) \ {i} = 1 .. (i - 1)
    OBVIOUS
  <2>3. \A x \in 1 .. i : i >= x
    OBVIOUS
  <2>4. \A x \in 1 .. i : x >= i => x = i
    OBVIOUS
  <2>5. i \in 1 .. i
    OBVIOUS
  <2>6. Max(1 .. i) = i
    BY <2>3, <2>4, <2>5, Zenon DEF Max
  <2> QED
    BY <1>2, <2>1, <2>5, <2>6, <2>2 DEF IsFold
<1> DEFINE Js == {j \in Nat : j <= n => f[1 .. j] \in D}
<1>3. 0 \in Js
  BY <1>1
<1>4. ASSUME NEW j \in Nat, j \in Js
      PROVE  j + 1 \in Js
  <2> SUFFICES ASSUME j + 1 <= n
               PROVE  f[1 .. (j + 1)] \in D
    OBVIOUS
  <2>1. j + 1 \in 1 .. n /\ (j + 1) - 1 = j /\ j + 1 \in Nat
    OBVIOUS
  <2>2. f[1 .. j] \in D
    BY <1>4
  <2>3. f[1 .. (j + 1)] = G[j + 1][f[1 .. j]]
    BY <1>2, <2>1, <2>2
  <2> QED
    BY <2>1, <2>2, <2>3
<1>5. \A j \in Nat : j \in Js
  <2> HIDE DEF Js
  <2> QED
    BY <1>3, <1>4, SetInduction
<1>6. \A j \in 0 .. n : f[1 .. j] \in D
  BY <1>5
<1> DEFINE g == [i \in 0 .. n |-> f[1 .. i]]
<1>7. \A i \in 0 .. n : g[i] = f[1 .. i]
  OBVIOUS
<1>8. g \in [0 .. n -> D]
  BY <1>6
<1> HIDE DEF g
<1>9. g[0] = b /\ f[1 .. n] = g[n]
  BY <1>1, <1>7
<1>10. \A i \in 1 .. n : g[i] = G[i][g[i - 1]]
  BY <1>2, <1>6, <1>7
<1> QED
  BY <1>8, <1>9, <1>10, Zenon DEF IsLoop

\* So a loop over 1 .. n has its results.
LEMMA LoopExists ==
    ASSUME NEW D, NEW b \in D, NEW G \in [Nat -> [D -> D]], NEW n \in Nat
    PROVE  \E g \in [0 .. n -> D] : IsLoop(g, b, G, n)
BY FoldExists, FoldIsLoop, Zenon

\* A function of 1 .. k is a sequence.
LEMMA FunctionIsSeq ==
    ASSUME NEW T, NEW k \in Nat, NEW s \in [1 .. k -> T]
    PROVE  s \in Seq(T) /\ Len(s) = k
OBVIOUS

\* Joining a sequence of sequences, from left to right.
IsJoin(f, ss, n) ==
    f = [i \in 1 .. n |-> IF i = 1 THEN ss[i] ELSE f[i - 1] \o ss[i]]

\* The recursive function of FlattenSeq exists.
LEMMA JoinExists ==
    ASSUME NEW T, NEW ss \in Seq(Seq(T)), ss # <<>>
    PROVE  \E f : IsJoin(f, ss, Len(ss))
<1> DEFINE n == Len(ss)
           G == [i \in Nat |-> [s \in Seq(T) |-> IF i \in 1 .. n THEN s \o ss[i] ELSE s]]
<1>1. n \in Nat /\ n # 0
  OBVIOUS
<1>2. \A i \in 1 .. n : ss[i] \in Seq(T)
  OBVIOUS
<1>3. \A s \in Seq(T), i \in 1 .. n : s \o ss[i] \in Seq(T)
  BY <1>2, ConcatProperties
<1>4. G \in [Nat -> [Seq(T) -> Seq(T)]] /\ <<>> \in Seq(T)
  BY <1>3
<1>5. \A s \in Seq(T), i \in 1 .. n : G[i][s] = s \o ss[i]
  <2>1. \A i \in 1 .. n : i \in Nat
    BY <1>1
  <2> QED
    BY <2>1, Zenon
<1> HIDE DEF G, n
<1>6. PICK g \in [0 .. n -> Seq(T)] : IsLoop(g, <<>>, G, n)
  BY <1>1, <1>4, LoopExists, Zenon
<1>7. \A i \in 1 .. n : i - 1 \in 0 .. n
  BY <1>1
<1>8. \A i \in 1 .. n : g[i] = g[i - 1] \o ss[i]
  BY <1>5, <1>6, <1>7, Zenon DEF IsLoop
<1>9. 1 \in 1 .. n /\ 1 - 1 = 0
  BY <1>1
<1>10. g[1] = ss[1]
  <2>1. g[1] = g[1 - 1] \o ss[1]
    BY <1>8, <1>9, Zenon
  <2>2. g[1] = <<>> \o ss[1]
    BY <1>6, <1>9, <2>1 DEF IsLoop
  <2>3. ss[1] \in Seq(T)
    BY <1>2, <1>9
  <2> QED
    BY <2>2, <2>3, ConcatEmptySeq
<1> DEFINE u == [i \in 1 .. n |-> g[i]]
<1>11. \A i \in 1 .. n : i # 1 => i - 1 \in 1 .. n
  BY <1>1
<1>12. \A i \in 1 .. n : u[i] = IF i = 1 THEN ss[i] ELSE u[i - 1] \o ss[i]
  BY <1>8, <1>10, <1>11, Zenon
<1>13. u = [i \in 1 .. n |-> u[i]]
  BY Zenon
<1> HIDE DEF u
<1>14. IsJoin(u, ss, n)
  BY <1>12, <1>13, Zenon DEF IsJoin
<1> QED
  BY <1>14 DEF n

\* The steps of FlattenSeq: the join of the first i sequences is a sequence.
LEMMA FlattenSteps ==
    ASSUME NEW T, NEW ss \in Seq(Seq(T)), ss # <<>>
    PROVE  \E f \in [1 .. Len(ss) -> Seq(T)] :
              /\ f[1] = ss[1]
              /\ \A i \in 1 .. (Len(ss) - 1) : f[i + 1] = f[i] \o ss[i + 1]
              /\ FlattenSeq(ss) = f[Len(ss)]
<1> DEFINE n == Len(ss)
           f == CHOOSE u : u = [i \in 1 .. Len(ss) |-> IF i = 1 THEN ss[i] ELSE u[i - 1] \o ss[i]]
<1>1. n \in Nat /\ n # 0
  OBVIOUS
<1>2. FlattenSeq(ss) = f[Len(ss)]
  BY <1>1 DEF FlattenSeq
<1>3. IsJoin(f, ss, n)
  BY JoinExists, Zenon DEF IsJoin
<1>4. \A i \in 1 .. n : ss[i] \in Seq(T)
  OBVIOUS
<1> HIDE DEF f, n
<1>5. /\ DOMAIN f = 1 .. n /\ f = [i \in 1 .. n |-> f[i]]
      /\ \A i \in 1 .. n : f[i] = IF i = 1 THEN ss[i] ELSE f[i - 1] \o ss[i]
  BY <1>3, Zenon DEF IsJoin
<1>6. 1 \in 1 .. n /\ \A i \in 1 .. (n - 1) : i + 1 \in 1 .. n /\ i + 1 # 1 /\ (i + 1) - 1 = i
  BY <1>1
<1>7. f[1] = ss[1]
  BY <1>5, <1>6, Zenon
<1>8. \A i \in 1 .. (n - 1) : f[i + 1] = f[i] \o ss[i + 1]
  BY <1>5, <1>6, Zenon
<1> DEFINE Js == {j \in Nat : j < n => f[j + 1] \in Seq(T)}
<1>9. 0 \in Js
  BY <1>4, <1>6, <1>7
<1>10. ASSUME NEW j \in Nat, j \in Js
       PROVE  j + 1 \in Js
  <2> SUFFICES ASSUME j + 1 < n
               PROVE  f[(j + 1) + 1] \in Seq(T)
    OBVIOUS
  <2>1. j + 1 \in 1 .. (n - 1) /\ (j + 1) + 1 \in 1 .. n /\ j < n
    BY <1>1
  <2>2. f[j + 1] \in Seq(T)
    BY <1>10, <2>1
  <2>3. ss[(j + 1) + 1] \in Seq(T)
    BY <1>4, <2>1, Zenon
  <2>4. f[(j + 1) + 1] = f[j + 1] \o ss[(j + 1) + 1]
    BY <1>8, <2>1, Zenon
  <2> QED
    BY <2>2, <2>3, <2>4, ConcatProperties
<1>11. \A j \in Nat : j \in Js
  <2> HIDE DEF Js
  <2> QED
    BY <1>9, <1>10, SetInduction
<1>12. \A i \in 1 .. n : i - 1 \in Nat /\ i - 1 < n /\ (i - 1) + 1 = i
  BY <1>1
<1>13. \A i \in 1 .. n : f[i] \in Seq(T)
  <2> TAKE i \in 1 .. n
  <2>1. i - 1 \in Js
    BY <1>11, <1>12
  <2>2. f[(i - 1) + 1] \in Seq(T)
    BY <1>12, <2>1
  <2> QED
    BY <1>12, <2>2
<1>14. f \in [1 .. n -> Seq(T)]
  BY <1>5, <1>13
<1> QED
  BY <1>2, <1>7, <1>8, <1>14 DEF n

\* The join of a sequence and one more.
LEMMA FlattenAppend ==
    ASSUME NEW T, NEW ss \in Seq(Seq(T)), NEW v \in Seq(T)
    PROVE  /\ FlattenSeq(ss) \in Seq(T)
           /\ FlattenSeq(Append(ss, v)) = FlattenSeq(ss) \o v
           /\ FlattenSeq(<<>>) = <<>>
<1> DEFINE n == Len(ss)
           tt == Append(ss, v)
<1>1. /\ n \in Nat /\ tt \in Seq(Seq(T)) /\ tt # <<>> /\ Len(tt) = n + 1
      /\ tt[n + 1] = v /\ \A i \in 1 .. n : tt[i] = ss[i]
  BY AppendProperties
<1>2. FlattenSeq(<<>>) = <<>> /\ <<>> \in Seq(T)
  BY DEF FlattenSeq
<1> HIDE DEF tt
<1>3. PICK g \in [1 .. Len(tt) -> Seq(T)] :
         /\ g[1] = tt[1]
         /\ \A i \in 1 .. (Len(tt) - 1) : g[i + 1] = g[i] \o tt[i + 1]
         /\ FlattenSeq(tt) = g[Len(tt)]
  BY <1>1, FlattenSteps, Zenon
<1>4. CASE ss = <<>>
  <2>1. n = 0
    BY <1>4
  <2>2. FlattenSeq(tt) = v
    BY <1>1, <1>3, <2>1
  <2> QED
    BY <1>2, <1>4, <2>2, ConcatEmptySeq DEF tt
<1>5. CASE ss # <<>>
  <2>1. PICK f \in [1 .. n -> Seq(T)] :
           /\ f[1] = ss[1]
           /\ \A i \in 1 .. (n - 1) : f[i + 1] = f[i] \o ss[i + 1]
           /\ FlattenSeq(ss) = f[n]
    BY <1>5, FlattenSteps
  <2>2. n # 0
    BY <1>5
  <2> HIDE DEF n
  <2> DEFINE Js == {j \in Nat : j < n => f[j + 1] = g[j + 1]}
  <2>3. 0 \in Js
    BY <1>1, <1>3, <2>1
  <2>4. ASSUME NEW j \in Nat, j \in Js
        PROVE  j + 1 \in Js
    <3> SUFFICES ASSUME j + 1 < n
                 PROVE  f[(j + 1) + 1] = g[(j + 1) + 1]
      OBVIOUS
    <3>1. j + 1 \in 1 .. (n - 1) /\ j + 1 \in 1 .. (Len(tt) - 1) /\ (j + 1) + 1 \in 1 .. n /\ j < n
      BY <1>1
    <3>2. f[j + 1] = g[j + 1]
      BY <2>4, <3>1
    <3> QED
      BY <1>1, <1>3, <2>1, <3>1, <3>2, Zenon
  <2>5. \A j \in Nat : j \in Js
    <3> HIDE DEF Js
    <3> QED
      BY <2>3, <2>4, SetInduction
  <2>6. n - 1 \in Nat /\ n - 1 < n /\ (n - 1) + 1 = n /\ n \in 1 .. n /\ n \in 1 .. (Len(tt) - 1)
    BY <1>1, <2>2
  <2>7. f[n] = g[n]
    <3>1. n - 1 \in Js
      BY <2>5, <2>6
    <3>2. f[(n - 1) + 1] = g[(n - 1) + 1]
      BY <2>6, <3>1
    <3> QED
      BY <2>6, <3>2
  <2>8. FlattenSeq(tt) = f[n] \o v
    BY <1>1, <1>3, <2>6, <2>7, Zenon
  <2>9. f[n] \in Seq(T)
    BY <2>6
  <2> QED
    BY <1>2, <2>1, <2>8, <2>9 DEF tt
<1> QED
  BY <1>4, <1>5

\* Where the elements of a sequence are in the join.
LEMMA FlattenPositions ==
    ASSUME NEW T, NEW ss \in Seq(Seq(T))
    PROVE  \E E \in [0 .. Len(ss) -> Nat] :
              /\ E[0] = 0 /\ E[Len(ss)] = Len(FlattenSeq(ss))
              /\ \A i \in 1 .. Len(ss) :
                    /\ E[i] = E[i - 1] + Len(ss[i]) /\ E[i] <= Len(FlattenSeq(ss))
                    /\ \A j \in 1 .. Len(ss[i]) : FlattenSeq(ss)[E[i - 1] + j] = ss[i][j]
<1> DEFINE n == Len(ss)
<1>1. n \in Nat
  OBVIOUS
<1>2. CASE ss = <<>>
  <2>1. FlattenSeq(ss) = <<>> /\ n = 0
    BY <1>2 DEF FlattenSeq
  <2> DEFINE E == [i \in 0 .. 0 |-> 0]
  <2>2. E \in [0 .. 0 -> Nat] /\ E[0] = 0 /\ Len(<<>>) = 0 /\ 1 .. 0 = {}
    OBVIOUS
  <2> HIDE DEF E
  <2> QED
    BY <2>1, <2>2
<1>3. CASE ss # <<>>
  <2>1. PICK f \in [1 .. n -> Seq(T)] :
           /\ f[1] = ss[1]
           /\ \A i \in 1 .. (n - 1) : f[i + 1] = f[i] \o ss[i + 1]
           /\ FlattenSeq(ss) = f[n]
    BY <1>3, FlattenSteps
  <2>2. n # 0 /\ \A i \in 1 .. n : ss[i] \in Seq(T)
    BY <1>3
  <2>3. n # 0 /\ \A i \in 1 .. n : ss[i] \in Seq(T) /\ f[i] \in Seq(T)
    BY <2>2, Zenon
  <2> HIDE DEF n
  <2> DEFINE E == [i \in 0 .. n |-> IF i = 0 THEN 0 ELSE Len(f[i])]
  <2>4. E \in [0 .. n -> Nat] /\ E[0] = 0 /\ \A i \in 1 .. n : E[i] = Len(f[i])
    BY <1>1, <2>3
  <2> HIDE DEF E
  <2>5. ASSUME NEW i \in 1 .. (n - 1)
        PROVE  /\ E[i + 1] = E[i] + Len(ss[i + 1])
               /\ \A k \in 1 .. E[i] : f[i + 1][k] = f[i][k]
               /\ \A k \in 1 .. Len(ss[i + 1]) : f[i + 1][E[i] + k] = ss[i + 1][k]
    <3>1. i \in 1 .. n /\ i + 1 \in 1 .. n
      BY <1>1
    <3>2. f[i] \in Seq(T) /\ ss[i + 1] \in Seq(T)
      BY <2>3, <3>1
    <3>3. f[i + 1] = f[i] \o ss[i + 1]
      BY <2>1
    <3>4. E[i] = Len(f[i]) /\ E[i + 1] = Len(f[i + 1])
      BY <2>4, <3>1
    <3>5. \A x, y \in Seq(T) : /\ Len(x \o y) = Len(x) + Len(y)
                               /\ \A k \in 1 .. Len(x) : (x \o y)[k] = x[k]
                               /\ \A k \in 1 .. Len(y) : (x \o y)[Len(x) + k] = y[k]
      OBVIOUS
    <3>6. /\ Len(f[i] \o ss[i + 1]) = Len(f[i]) + Len(ss[i + 1])
          /\ \A k \in 1 .. Len(f[i]) : (f[i] \o ss[i + 1])[k] = f[i][k]
          /\ \A k \in 1 .. Len(ss[i + 1]) : (f[i] \o ss[i + 1])[Len(f[i]) + k] = ss[i + 1][k]
      BY <3>2, <3>5, Zenon
    <3> QED
      BY <3>4, <3>3, <3>6, Zenon
  <2>6. E[1] = E[0] + Len(ss[1]) /\ \A k \in 1 .. Len(ss[1]) : f[1][E[0] + k] = ss[1][k]
    <3>1. 1 \in 1 .. n /\ ss[1] \in Seq(T)
      BY <1>1, <2>3
    <3> QED
      BY <2>1, <2>4, <3>1
  <2> DEFINE Upto(m) == \A i \in 1 .. m :
                 /\ E[i] = E[i - 1] + Len(ss[i]) /\ E[i] <= E[m]
                 /\ \A j \in 1 .. Len(ss[i]) : f[m][E[i - 1] + j] = ss[i][j]
             Ms == {m \in Nat : m < n => Upto(m + 1)}
  <2>7. 0 \in Ms
    <3>1. 1 .. 1 = {1} /\ 1 - 1 = 0 /\ 0 + 1 = 1 /\ E[1] \in Nat
      BY <1>1, <2>3, <2>4
    <3>2. Upto(1)
      BY <2>6, <3>1
    <3> QED
      BY <3>1, <3>2
  <2>8. ASSUME NEW m \in Nat, m \in Ms
        PROVE  m + 1 \in Ms
    <3> SUFFICES ASSUME m + 1 < n
                 PROVE  Upto((m + 1) + 1)
      OBVIOUS
    <3>1. Upto(m + 1)
      BY <1>1, <2>8
    <3>2. m + 1 \in 1 .. (n - 1) /\ m + 1 \in 0 .. n /\ (m + 1) + 1 \in 0 .. n
          /\ ((m + 1) + 1) - 1 = m + 1
      BY <1>1
    <3>3. /\ E[(m + 1) + 1] = E[m + 1] + Len(ss[(m + 1) + 1])
          /\ \A k \in 1 .. E[m + 1] : f[(m + 1) + 1][k] = f[m + 1][k]
          /\ \A k \in 1 .. Len(ss[(m + 1) + 1]) : f[(m + 1) + 1][E[m + 1] + k] = ss[(m + 1) + 1][k]
      BY <2>5, <3>2
    <3>4. Len(ss[(m + 1) + 1]) \in Nat /\ E[m + 1] \in Nat
      BY <2>3, <2>4, <3>2
    <3>5. ASSUME NEW i \in 1 .. ((m + 1) + 1)
          PROVE  /\ E[i] = E[i - 1] + Len(ss[i]) /\ E[i] <= E[(m + 1) + 1]
                 /\ \A j \in 1 .. Len(ss[i]) : f[(m + 1) + 1][E[i - 1] + j] = ss[i][j]
      <4>1. CASE i = (m + 1) + 1
        BY <3>2, <3>3, <3>4, <4>1
      <4>2. CASE i # (m + 1) + 1
        <5>1. i \in 1 .. (m + 1) /\ i \in 1 .. n /\ i \in 0 .. n /\ i - 1 \in 0 .. n
          BY <1>1, <4>2
        <5>2. /\ E[i] = E[i - 1] + Len(ss[i]) /\ E[i] <= E[m + 1]
              /\ \A j \in 1 .. Len(ss[i]) : f[m + 1][E[i - 1] + j] = ss[i][j]
          BY <3>1, <5>1
        <5>3. Len(ss[i]) \in Nat /\ E[i] \in Nat /\ E[i - 1] \in Nat
          BY <2>3, <2>4, <5>1
        <5>4. \A j \in 1 .. Len(ss[i]) : E[i - 1] + j \in 1 .. E[m + 1]
          <6>1. \A a, b, c, k \in Nat : b = a + k /\ b <= c => \A j \in 1 .. k : a + j \in 1 .. c
            OBVIOUS
          <6> QED
            BY <3>4, <5>2, <5>3, <6>1, Zenon
        <5>5. \A j \in 1 .. Len(ss[i]) : f[(m + 1) + 1][E[i - 1] + j] = f[m + 1][E[i - 1] + j]
          BY <3>3, <5>4, Zenon
        <5>6. E[i] <= E[(m + 1) + 1]
          BY <3>3, <3>4, <5>2, <5>3
        <5> QED
          BY <5>2, <5>5, <5>6, Zenon
      <4> QED
        BY <4>1, <4>2
    <3> QED
      BY <3>5, Zenon
  <2>9. \A m \in Nat : m \in Ms
    <3> HIDE DEF Ms
    <3> QED
      BY <2>7, <2>8, SetInduction
  <2>10. Upto(n)
    <3>1. n - 1 \in Nat /\ n - 1 < n /\ (n - 1) + 1 = n
      BY <1>1, <2>3
    <3>2. n - 1 \in Ms
      BY <2>9, <3>1
    <3>3. Upto((n - 1) + 1)
      BY <3>1, <3>2, Zenon
    <3> QED
      BY <3>1, <3>3
  <2>11. FlattenSeq(ss) = f[n] /\ E[n] = Len(f[n])
    BY <1>1, <2>1, <2>3, <2>4
  <2> QED
    BY <2>4, <2>10, <2>11, Zenon DEF n
<1> QED
  BY <1>2, <1>3

-----------------------------------------------------------------------------
(* The cache of HTTP clients. *)

ClientRecord ==
    [class : Impl, option : Option \cup {Unset}, loop : AllLoops,
     cache : Class \cup {Unset}, open : BOOLEAN]

\* Clients are numbered in the order they are made; a cache knows no other.
CacheTypeOK ==
    /\ \E n \in 0 .. MaxClients : Made = 1 .. n
    /\ clients \in [Made -> ClientRecord]
    /\ cache \in [Class -> [AllLoops -> Made \cup {NoClient}]]
    /\ impl \in Impl \cup {Unset}
    /\ kwargs \in Option \cup {Unset}
    /\ handed \in [client : Made \cup {NoClient}, loop : AllLoops \cup {Unset}, forced : BOOLEAN]

CacheInv == CacheTypeOK /\ CachedAreOpen

\* The number of the next client is one that no client has.
LEMMA NewIsFresh ==
    ASSUME CacheTypeOK, New \in Client
    PROVE  /\ New \notin Made /\ NoClient \notin Made \cup {New}
           /\ \E n \in 0 .. MaxClients : Made \cup {New} = 1 .. n
<1> USE CacheAssumption
<1>1. PICK n \in 0 .. MaxClients : Made = 1 .. n
  BY DEF CacheTypeOK
<1>2. \A m \in 0 .. MaxClients : Made = 1 .. m => m = n
  BY <1>1
<1>3. (CHOOSE m \in 0 .. MaxClients : Made = 1 .. m) = n
  <2> DEFINE k == CHOOSE m \in 0 .. MaxClients : Made = 1 .. m
  <2>1. k \in 0 .. MaxClients /\ Made = 1 .. k
    BY <1>1, Zenon
  <2> QED
    BY <1>2, <2>1, Zenon
<1>4. New = n + 1
  BY <1>1, <1>3 DEF New
<1>5. n + 1 \in 0 .. MaxClients
  BY <1>4 DEF Client
<1>6. Made \cup {New} = 1 .. (n + 1)
  BY <1>1, <1>4
<1> QED
  BY <1>1, <1>4, <1>5, <1>6 DEF NoClient

\* A constructor call that finds its class and loop in the cache.
LEMMA ConstructHit ==
    ASSUME CacheInv, NEW cls \in Class, NEW loop \in AllLoops, NEW forced \in BOOLEAN, NEW opt,
           Hit(cls, loop, forced), Construct(cls, loop, forced, opt), UNCHANGED kwargs
    PROVE  CacheInv'
<1> USE DEF CacheInv, Hit, Construct
<1>1. CacheTypeOK'
  BY DEF CacheTypeOK, Made
<1>2. CachedAreOpen'
  BY DEF CacheTypeOK, ClientRecord, CachedAreOpen, Made
<1> QED
  BY <1>1, <1>2

\* A constructor call that makes a client: nobody is pushed out of the cache.
LEMMA ConstructNew ==
    ASSUME CacheInv, NEW cls \in Class, NEW loop \in AllLoops, NEW forced \in BOOLEAN,
           NEW opt \in Option \cup {Unset},
           ~Hit(cls, loop, forced), Construct(cls, loop, forced, opt), UNCHANGED kwargs
    PROVE  CacheInv'
<1> USE CacheAssumption DEF CacheInv
<1> DEFINE client == Make(cls, loop, opt, ~forced)
<1>1. client \in ClientRecord
  BY DEF CacheTypeOK, Make, ClientRecord, Configured, Default, Class
<1>2. /\ client.loop = loop /\ client.open
      /\ client.cache = IF forced THEN Unset ELSE cls
      /\ cls = "base" \/ client.class = cls
  BY DEF Make
<1>3. /\ New \in Client /\ New \notin Made /\ NoClient \notin Made \cup {New}
      /\ \E n \in 0 .. MaxClients : Made \cup {New} = 1 .. n
  BY NewIsFresh DEF Construct
<1>4. /\ Made' = Made \cup {New}
      /\ clients' = [c \in Made \cup {New} |-> IF c = New THEN client ELSE clients[c]]
      /\ cache' = IF forced THEN cache ELSE [cache EXCEPT ![cls][loop] = New]
      /\ impl' = IF cls = "base" THEN Configured ELSE impl
      /\ handed' = [client |-> New, loop |-> loop, forced |-> forced]
  BY DEF Construct, Made
<1> HIDE DEF client
<1>5. CacheTypeOK'
  <2>1. clients' \in [Made' -> ClientRecord]
    BY <1>1, <1>4 DEF CacheTypeOK
  <2>2. cache' \in [Class -> [AllLoops -> Made' \cup {NoClient}]]
    BY <1>4 DEF CacheTypeOK
  <2>3. impl' \in Impl \cup {Unset}
    BY <1>4 DEF CacheTypeOK, Configured, Default
  <2>4. handed' \in [client : Made' \cup {NoClient}, loop : AllLoops \cup {Unset},
                     forced : BOOLEAN]
    BY <1>4
  <2> QED
    BY <1>3, <1>4, <2>1, <2>2, <2>3, <2>4 DEF CacheTypeOK
<1>6. ASSUME NEW k \in Class, NEW l \in AllLoops
      PROVE  cache'[k][l] = IF ~forced /\ k = cls /\ l = loop THEN New ELSE cache[k][l]
  BY <1>4 DEF CacheTypeOK
<1>7. ASSUME NEW k \in Class, NEW l \in AllLoops, cache'[k][l] # NoClient
      PROVE  LET c == clients'[cache'[k][l]] IN
             c.open /\ c.loop = l /\ c.cache = k /\ (k = "base" \/ c.class = k)
  <2>1. CASE ~forced /\ k = cls /\ l = loop
    <3>1. cache'[k][l] = New /\ clients'[New] = client
      BY <1>4, <1>6, <2>1
    <3> QED
      BY <1>2, <2>1, <3>1
  <2>2. CASE ~(~forced /\ k = cls /\ l = loop)
    <3>1. cache'[k][l] = cache[k][l] /\ cache[k][l] \in Made
      BY <1>6, <1>7, <2>2 DEF CacheTypeOK
    <3>2. clients'[cache'[k][l]] = clients[cache[k][l]]
      BY <1>3, <1>4, <3>1
    <3> QED
      BY <1>7, <3>1, <3>2 DEF CachedAreOpen
  <2> QED
    BY <2>1, <2>2
<1>8. ASSUME NEW c \in Made', clients'[c].cache # Unset
      PROVE  cache'[clients'[c].cache][clients'[c].loop] = c
  BY <1>2, <1>3, <1>4, <1>6, <1>8 DEF CacheTypeOK, ClientRecord, CachedAreOpen, Hit
<1>9. LET c == clients'[handed'.client] IN
      c.open /\ c.loop = handed'.loop /\ (handed'.forced => c.cache = Unset)
  BY <1>2, <1>3, <1>4
<1> QED
  BY <1>5, <1>7, <1>8, <1>9 DEF CachedAreOpen

\* close(): the client is no longer in any cache.
LEMMA CloseClientInv ==
    ASSUME CacheInv, NEW c \in Made, CloseClient(c)
    PROVE  CacheInv'
<1> USE CacheAssumption DEF CacheInv
<1>1. /\ clients[c] \in ClientRecord
      /\ Made' = Made
      /\ clients' = [clients EXCEPT ![c].cache = Unset, ![c].open = FALSE]
  BY DEF CacheTypeOK, CloseClient, Made
<1>2. /\ \A d \in Made : d # c => clients'[d] = clients[d]
      /\ clients'[c] = [clients[c] EXCEPT !.cache = Unset, !.open = FALSE]
  BY <1>1 DEF CacheTypeOK
<1>3. clients' \in [Made -> ClientRecord]
  BY <1>1 DEF CacheTypeOK, ClientRecord
<1>4. ASSUME NEW k \in Class, NEW l \in AllLoops
      PROVE  cache'[k][l] = IF cache[k][l] = c THEN NoClient ELSE cache[k][l]
  <2> DEFINE cls == clients[c].cache
  <2>1. cls \in Class \cup {Unset} /\ clients[c].loop \in AllLoops
    BY <1>1 DEF ClientRecord
  <2>2. c # NoClient
    BY DEF CacheTypeOK, NoClient
  <2>3. CASE cls = Unset
    <3>1. cache' = cache
      BY <2>3 DEF CloseClient, Evict
    <3>2. cache[k][l] # c
      BY <2>2, <2>3 DEF CachedAreOpen, Class, Unset
    <3> QED
      BY <3>1, <3>2
  <2>4. CASE cls # Unset
    <3>1. cls \in Class /\ cache[cls][clients[c].loop] = c
      BY <2>1, <2>4 DEF CachedAreOpen
    <3>2. cache' = [cache EXCEPT ![cls][clients[c].loop] = NoClient]
      BY <2>1, <2>4, <3>1 DEF CloseClient, Evict
    <3>3. cache[k][l] = c => k = cls /\ l = clients[c].loop
      BY <2>2 DEF CachedAreOpen
    <3> QED
      BY <2>1, <3>1, <3>2, <3>3 DEF CacheTypeOK
  <2> QED
    BY <2>3, <2>4
<1>5. cache' \in [Class -> [AllLoops -> Made \cup {NoClient}]]
  <2>1. clients[c].cache \in Class \cup {Unset} /\ clients[c].loop \in AllLoops
    BY <1>1 DEF ClientRecord
  <2>2. CASE cache' = cache
    BY <2>2 DEF CacheTypeOK
  <2>3. CASE cache' = [cache EXCEPT ![clients[c].cache][clients[c].loop] = NoClient]
    BY <2>3, <2>1 DEF CacheTypeOK
  <2> QED
    BY <2>2, <2>3 DEF CloseClient, Evict
<1>6. /\ handed' = [handed EXCEPT !.client = IF @ = c THEN NoClient ELSE @]
      /\ UNCHANGED <<impl, kwargs>>
  BY DEF CloseClient
<1>7. CacheTypeOK'
  BY <1>1, <1>3, <1>5, <1>6 DEF CacheTypeOK
<1>8. ASSUME NEW k \in Class, NEW l \in AllLoops, cache'[k][l] # NoClient
      PROVE  LET d == clients'[cache'[k][l]] IN
             d.open /\ d.loop = l /\ d.cache = k /\ (k = "base" \/ d.class = k)
  <2>1. cache'[k][l] = cache[k][l] /\ cache[k][l] # c /\ cache[k][l] \in Made
    BY <1>4, <1>8 DEF CacheTypeOK
  <2>2. clients'[cache'[k][l]] = clients[cache[k][l]]
    BY <1>2, <2>1
  <2> QED
    BY <1>8, <2>1, <2>2 DEF CachedAreOpen
<1>9. ASSUME NEW d \in Made', clients'[d].cache # Unset
      PROVE  cache'[clients'[d].cache][clients'[d].loop] = d
  <2>1. d \in Made /\ d # c /\ clients'[d] = clients[d]
    BY <1>1, <1>2, <1>9 DEF ClientRecord
  <2>2. clients[d].cache \in Class /\ clients[d].loop \in AllLoops
    BY <1>9, <2>1 DEF CacheTypeOK, ClientRecord
  <2> QED
    BY <1>4, <1>9, <2>1, <2>2 DEF CachedAreOpen
<1>10. ASSUME handed'.client # NoClient
       PROVE  LET d == clients'[handed'.client] IN
              d.open /\ d.loop = handed'.loop /\ (handed'.forced => d.cache = Unset)
  <2>1. /\ handed'.client = handed.client /\ handed.client # c /\ handed.client \in Made
        /\ handed'.loop = handed.loop /\ handed'.forced = handed.forced
    BY <1>6, <1>10 DEF CacheTypeOK
  <2> QED
    BY <1>2, <1>10, <2>1 DEF CachedAreOpen
<1> QED
  BY <1>7, <1>8, <1>9, <1>10 DEF CachedAreOpen

LEMMA CacheInitInv == CacheInit => CacheInv
<1> SUFFICES ASSUME CacheInit PROVE CacheInv
  OBVIOUS
<1>1. Made = 1 .. 0 /\ Made = {}
  BY DEF CacheInit, Made
<1>2. clients \in [Made -> ClientRecord]
  BY <1>1 DEF CacheInit, Made
<1> QED
  BY <1>1, <1>2, CacheAssumption DEF CacheInit, CacheInv, CacheTypeOK, CachedAreOpen, NoClient

LEMMA CacheNextInv == CacheInv /\ [CacheNext]_cacheVars => CacheInv'
<1> SUFFICES ASSUME CacheInv, [CacheNext]_cacheVars PROVE CacheInv'
  OBVIOUS
<1>1. ASSUME NEW cls \in Class, NEW l \in Loop, NEW forced \in BOOLEAN,
             NEW opt \in Option \cup {Unset}, ConstructAsync(cls, l, forced, opt)
      PROVE  CacheInv'
  BY <1>1, ConstructHit, ConstructNew DEF ConstructAsync, AllLoops
<1>2. ASSUME NEW l \in Private, NEW cls \in Class, NEW opt \in Option \cup {Unset},
             ConstructSync(l, cls, opt)
      PROVE  CacheInv'
  BY <1>2, ConstructHit, ConstructNew DEF ConstructSync, AllLoops
<1>3. ASSUME NEW c \in Made, CloseClient(c) PROVE CacheInv'
  BY <1>3, CloseClientInv
<1>4. ASSUME NEW l \in Private, CloseSync(l) PROVE CacheInv'
  BY <1>4 DEF CloseSync, CacheInv, CacheTypeOK, CachedAreOpen, Made
<1>5. ASSUME NEW i \in Impl \cup {Unset}, NEW opt \in Option \cup {Unset}, Configure(i, opt)
      PROVE  CacheInv'
  BY <1>5 DEF Configure, SetImpl, CacheInv, CacheTypeOK, CachedAreOpen, Made
<1>6. CASE UNCHANGED cacheVars
  BY <1>6 DEF cacheVars, CacheInv, CacheTypeOK, CachedAreOpen, Made
<1> QED
  BY <1>1, <1>2, <1>3, <1>4, <1>5, <1>6 DEF CacheNext

\* Constructing a client finds an open one of its loop in the cache or makes
\* one, and close() takes it out, whatever the order of constructions, forced
\* instances, configure() and close() calls.
THEOREM CacheCorrect == CacheSpec => []CachedAreOpen
<1>1. CacheInv => CachedAreOpen
  BY DEF CacheInv
<1> QED
  BY <1>1, CacheInitInv, CacheNextInv, PTL DEF CacheSpec

-----------------------------------------------------------------------------
(* The pipes of a Subprocess. *)

\* The kernel's lowest descriptor is one of those it may choose from.
LEMMA LowestIsFree ==
    ASSUME NEW S \in SUBSET Descriptor, S # {}
    PROVE  Lowest(S) \in S
<1>1. S \subseteq Nat
  BY PipesAssumption DEF Descriptor
<1>2. \E n \in S : \A m \in S : n <= m
  BY <1>1, LeastElement
<1> QED
  BY <1>2, Zenon DEF Lowest

PipesTypeOK ==
    /\ phase \in {"new", "making", "running", "exited", "failed"}
    /\ wanted \subseteq Std
    /\ fds \in [Descriptor -> {"free", "pipe", "other"}]
    /\ streamFd \in [Std -> Descriptor \cup {Closed}]
    /\ childFd \in [Std -> Descriptor \cup {Closed}]
    /\ popen \in BOOLEAN /\ victim \in BOOLEAN
    /\ popen => phase \in {"running", "exited", "failed"}

\* No descriptor is of two streams, or of a stream and a child's end.
EndsApart ==
    /\ \A s, t \in Std : streamFd[s] = streamFd[t] /\ streamFd[s] # Closed => s = t
    /\ phase \in {"new", "making"} =>
          \A s, t \in Std : streamFd[s] = childFd[t] => streamFd[s] = Closed

\* What has been made so far, while the constructor has not called Popen().
Making ==
    /\ phase \in {"new", "making"} =>
          \A n \in Descriptor : fds[n] = "pipe" <=> n \in PipeEnds
    /\ phase = "new" => \A s \in Std : streamFd[s] = Closed /\ childFd[s] = Closed
    /\ phase = "making" => \A s \in wanted : streamFd[s] = Closed /\ childFd[s] = Closed

\* The streams own their descriptors until PopenFails closes them by number.
StreamsOwn ==
    ~(phase = "failed" /\ popen) =>
        \A s \in Std : streamFd[s] # Closed => fds[streamFd[s]] = "pipe"

PipesInv == PipesTypeOK /\ EndsApart /\ Making /\ StreamsOwn /\ PipesAreExact

LEMMA PipesInitInv == PipesInit => PipesInv
<1> SUFFICES ASSUME PipesInit PROVE PipesInv
  OBVIOUS
<1>1. Closed \notin Descriptor
  BY DEF Closed, Descriptor
<1>2. PipesTypeOK
  BY DEF PipesInit, PipesTypeOK
<1>3. Making
  BY <1>1 DEF PipesInit, Making, PipeEnds
<1> QED
  BY <1>2, <1>3 DEF PipesInit, PipesInv, EndsApart, StreamsOwn, PipesAreExact

LEMMA NewSubprocessInv ==
    ASSUME PipesInv, NEW S \in SUBSET Std, NewSubprocess(S)
    PROVE  PipesInv'
  BY DEF PipesInv, NewSubprocess, PipesTypeOK, EndsApart, Making, StreamsOwn, PipesAreExact,
         PipeEnds

\* os.pipe() returns two free descriptors, and a free one is no end of a pipe.
LEMMA MakePipeInv ==
    ASSUME PipesInv, NEW s \in Std, MakePipe(s)
    PROVE  PipesInv'
<1> USE PipesAssumption DEF PipesInv
<1> DEFINE one == Lowest(FreeFds)
           two == Lowest(FreeFds \ {one})
<1>1. IsFiniteSet(FreeFds)
  <2>1. IsFiniteSet(Descriptor)
    BY FS_Interval, 1 \in Int, MaxPipeFd \in Int DEF Descriptor
  <2> QED
    BY <2>1, FS_Subset DEF FreeFds
<1>2. FreeFds # {} /\ FreeFds # {one}
  <2>1. Cardinality(FreeFds) >= 2
    BY DEF MakePipe
  <2> QED
    BY <2>1, <1>1, FS_EmptySet, FS_Singleton
<1>3. one \in FreeFds
  BY <1>2, LowestIsFree DEF FreeFds
<1>4. two \in FreeFds /\ two # one
  BY <1>2, <1>3, LowestIsFree DEF FreeFds
<1>5. one \in Descriptor /\ two \in Descriptor /\ fds[one] = "free" /\ fds[two] = "free"
  BY <1>3, <1>4 DEF FreeFds
<1>6. one # Closed /\ two # Closed
  BY <1>5 DEF Descriptor, Closed
<1>7. /\ fds' = [fds EXCEPT ![one] = "pipe", ![two] = "pipe"]
      /\ phase = "making" /\ s \in wanted /\ wanted' = wanted \ {s}
      /\ UNCHANGED <<phase, popen, victim>>
  BY DEF MakePipe
<1>8. PICK mine \in {one, two}, its \in {one, two} :
         /\ mine # its
         /\ streamFd' = [streamFd EXCEPT ![s] = mine]
         /\ childFd' = [childFd EXCEPT ![s] = its]
  BY <1>4 DEF MakePipe
<1> HIDE DEF one, two
<1>9. \A t \in Std : streamFd[t] \notin {one, two} /\ childFd[t] \notin {one, two}
  BY <1>5, <1>6, <1>7 DEF PipesTypeOK, Making, PipeEnds
<1>10. PipesTypeOK'
  BY <1>5, <1>7, <1>8 DEF PipesTypeOK
<1>11. EndsApart'
  BY <1>7, <1>8, <1>9 DEF PipesTypeOK, EndsApart
<1>12. StreamsOwn'
  BY <1>5, <1>7, <1>8, <1>9 DEF PipesTypeOK, StreamsOwn
<1>13. Making'
  <2>1. ASSUME NEW n \in Descriptor PROVE fds'[n] = "pipe" <=> n \in PipeEnds'
    <3>1. n \in PipeEnds' <=> n \in PipeEnds \/ n \in {one, two}
      BY <1>5, <1>6, <1>7, <1>8 DEF PipesTypeOK, Making, PipeEnds, Descriptor, Closed
    <3> QED
      BY <1>5, <1>7, <3>1 DEF PipesTypeOK, Making
  <2>2. \A t \in wanted' : streamFd'[t] = Closed /\ childFd'[t] = Closed
    BY <1>7, <1>8 DEF PipesTypeOK, Making
  <2> QED
    BY <1>7, <2>1, <2>2 DEF Making
<1>14. PipesAreExact'
  BY <1>7 DEF PipesTypeOK, PipesAreExact
<1> QED
  BY <1>10, <1>11, <1>12, <1>13, <1>14

\* EMFILE: the constructor raises, and the streams own what was made.
LEMMA PipeFailsInv ==
    ASSUME PipesInv, PipeFails
    PROVE  PipesInv'
  BY DEF PipesInv, PipeFails, PipesTypeOK, EndsApart, Making, StreamsOwn, PipesAreExact

\* Popen() returns: the child's ends are closed, and only they.
LEMMA PopenInv ==
    ASSUME PipesInv, Popen
    PROVE  PipesInv'
<1> USE DEF PipesInv
<1>1. /\ phase = "making" /\ phase' = "running" /\ popen'
      /\ fds' = [n \in Descriptor |-> IF n \in ToClose THEN "free" ELSE fds[n]]
      /\ UNCHANGED <<wanted, streamFd, childFd, victim>>
  BY DEF Popen, CloseFds
<1>2. ASSUME NEW n \in Descriptor
      PROVE  fds'[n] = "pipe" <=> \E s \in Std : streamFd[s] = n
  <2>1. n # Closed
    BY DEF Descriptor, Closed
  <2>2. fds[n] = "pipe" <=> n \in ToClose \/ \E s \in Std : streamFd[s] = n
    BY <1>1 DEF Making, PipeEnds, ToClose
  <2>3. n \in ToClose => ~ \E s \in Std : streamFd[s] = n
    BY <1>1, <2>1 DEF EndsApart, ToClose
  <2> QED
    BY <1>1, <2>2, <2>3
<1>3. PipesTypeOK'
  BY <1>1 DEF PipesTypeOK
<1>4. EndsApart' /\ Making'
  BY <1>1 DEF EndsApart, Making
<1>5. StreamsOwn'
  BY <1>1, <1>2 DEF PipesTypeOK, StreamsOwn
<1>6. {n \in Descriptor : fds'[n] = "pipe"} = {streamFd[s] : s \in Std} \ {Closed}
  <2>1. Closed \notin Descriptor
    BY DEF Descriptor, Closed
  <2> QED
    BY <1>2, <2>1 DEF PipesTypeOK
<1>7. PipesAreExact'
  BY <1>1, <1>6 DEF PipesAreExact
<1> QED
  BY <1>3, <1>4, <1>5, <1>7

\* Popen() raises: every end is closed, and the streams do not know it.
LEMMA PopenFailsInv ==
    ASSUME PipesInv, PopenFails
    PROVE  PipesInv'
<1> USE DEF PipesInv
<1>1. /\ phase = "making" /\ phase' = "failed" /\ popen'
      /\ fds' = [n \in Descriptor |-> IF n \in PipeEnds THEN "free" ELSE fds[n]]
      /\ UNCHANGED <<wanted, streamFd, childFd, victim>>
  BY DEF PopenFails, CloseFds
<1>2. \A n \in Descriptor : fds'[n] # "pipe"
  BY <1>1 DEF Making
<1>3. PipesTypeOK'
  BY <1>1 DEF PipesTypeOK
<1> QED
  BY <1>1, <1>2, <1>3 DEF EndsApart, Making, StreamsOwn, PipesAreExact

LEMMA ChildExitsInv ==
    ASSUME PipesInv, ChildExits
    PROVE  PipesInv'
  BY DEF PipesInv, ChildExits, PipesTypeOK, EndsApart, Making, StreamsOwn, PipesAreExact

\* A collected stream closes its own descriptor, and no other stream's.
LEMMA CollectStreamInv ==
    ASSUME PipesInv, NEW s \in Std, CollectStream(s)
    PROVE  PipesInv'
<1> USE DEF PipesInv
<1> DEFINE fd == streamFd[s]
<1>1. /\ phase \in {"running", "exited", "failed"} /\ fd \in Descriptor
      /\ victim' = (victim \/ fds[fd] = "other")
      /\ fds' = [n \in Descriptor |-> IF n = fd THEN "free" ELSE fds[n]]
      /\ streamFd' = [streamFd EXCEPT ![s] = Closed]
      /\ UNCHANGED <<phase, wanted, childFd, popen>>
  BY DEF CollectStream, CloseFds, PipesTypeOK
<1>2. ASSUME NEW t \in Std
      PROVE  streamFd'[t] = IF t = s THEN Closed ELSE streamFd[t]
  BY <1>1 DEF PipesTypeOK
<1>3. Closed # fd
  BY <1>1 DEF Closed, Descriptor
<1>4. PipesTypeOK'
  BY <1>1 DEF PipesTypeOK
<1>5. EndsApart' /\ Making'
  BY <1>1, <1>2 DEF EndsApart, Making
<1>6. StreamsOwn'
  BY <1>1, <1>2, <1>3 DEF PipesTypeOK, EndsApart, StreamsOwn
<1>7. phase \in {"running", "exited"} =>
         {n \in Descriptor : fds'[n] = "pipe"} = {streamFd'[t] : t \in Std} \ {Closed}
  <2>1. SUFFICES ASSUME phase \in {"running", "exited"}, NEW n
                 PROVE  n \in Descriptor /\ fds'[n] = "pipe"
                        <=> n # Closed /\ \E t \in Std : streamFd'[t] = n
    OBVIOUS
  <2>2. n \in Descriptor /\ fds[n] = "pipe" <=> n # Closed /\ \E t \in Std : streamFd[t] = n
    BY <2>1 DEF PipesAreExact
  <2>3. n \in Descriptor => (fds'[n] = "pipe" <=> fds[n] = "pipe" /\ n # fd)
    BY <1>1
  <2>4. n # Closed => ((\E t \in Std : streamFd'[t] = n) <=> n # fd /\ \E t \in Std : streamFd[t] = n)
    BY <1>2, <1>3 DEF EndsApart
  <2> QED
    BY <2>2, <2>3, <2>4
<1>8. phase = "failed" /\ popen => \A n \in Descriptor : fds'[n] # "pipe"
  BY <1>1 DEF PipesAreExact
<1>9. victim' => phase = "failed" /\ popen
  BY <1>1, <1>3 DEF PipesAreExact, StreamsOwn
<1>10. PipesAreExact'
  BY <1>1, <1>7, <1>8, <1>9 DEF PipesAreExact
<1> QED
  BY <1>4, <1>5, <1>6, <1>10

\* Files of other code come and go at descriptors that are no pipe's.
LEMMA OtherFilesInv ==
    ASSUME PipesInv, NEW n \in Descriptor, OpenOther \/ CloseOther(n)
    PROVE  PipesInv'
<1> USE DEF PipesInv
<1>1. \E m \in Descriptor, f \in {"free", "other"} :
         fds[m] # "pipe" /\ fds' = [fds EXCEPT ![m] = f]
  <2>1. CASE OpenOther
    <3>1. Lowest(FreeFds) \in FreeFds
      BY <2>1, LowestIsFree DEF OpenOther, FreeFds
    <3> QED
      BY <2>1, <3>1 DEF OpenOther, FreeFds
  <2>2. CASE CloseOther(n)
    <3>1. fds[n] # "pipe" /\ fds' = [fds EXCEPT ![n] = "free"]
      BY <2>2 DEF CloseOther, CloseFds, PipesTypeOK
    <3> QED
      BY <3>1
  <2> QED
    BY <2>1, <2>2
<1>2. /\ fds' \in [Descriptor -> {"free", "pipe", "other"}]
      /\ \A m \in Descriptor : fds'[m] = "pipe" <=> fds[m] = "pipe"
  BY <1>1 DEF PipesTypeOK
<1>3. UNCHANGED <<phase, wanted, streamFd, childFd, popen, victim>>
  BY DEF OpenOther, CloseOther
<1>4. PipesTypeOK' /\ EndsApart'
  BY <1>2, <1>3 DEF PipesTypeOK, EndsApart
<1>5. Making' /\ StreamsOwn'
  BY <1>2, <1>3 DEF PipesTypeOK, Making, StreamsOwn, PipeEnds
<1>6. PipesAreExact'
  BY <1>2, <1>3 DEF PipesAreExact
<1> QED
  BY <1>4, <1>5, <1>6

LEMMA PipesNextInv == PipesInv /\ [PipesNext]_pipeVars => PipesInv'
<1> SUFFICES ASSUME PipesInv, [PipesNext]_pipeVars PROVE PipesInv'
  OBVIOUS
<1>1. ASSUME NEW S \in SUBSET Std, NewSubprocess(S) PROVE PipesInv'
  BY <1>1, NewSubprocessInv
<1>2. CASE PipeFails \/ Popen \/ PopenFails \/ ChildExits
  BY <1>2, PipeFailsInv, PopenInv, PopenFailsInv, ChildExitsInv
<1>3. CASE OpenOther
  <2>1. \E n : n \in Descriptor
    BY <1>3 DEF OpenOther, FreeFds
  <2> QED
    BY <1>3, <2>1, OtherFilesInv
<1>4. ASSUME NEW s \in Std, MakePipe(s) \/ CollectStream(s) PROVE PipesInv'
  BY <1>4, MakePipeInv, CollectStreamInv
<1>5. ASSUME NEW n \in Descriptor, CloseOther(n) PROVE PipesInv'
  BY <1>5, OtherFilesInv
<1>6. CASE UNCHANGED pipeVars
  BY <1>6 DEF pipeVars, PipesInv, PipesTypeOK, EndsApart, Making, StreamsOwn, PipesAreExact,
         PipeEnds
<1> QED
  BY <1>1, <1>2, <1>3, <1>4, <1>5, <1>6 DEF PipesNext

\* The parent of a running child has its own ends of the pipes open and no
\* other; a Popen() that fails leaves no pipe open, and only such a failure
\* can make a stream close a file of other code.
THEOREM PipesCorrect == PipesSpec => []PipesAreExact
<1>1. PipesInv => PipesAreExact
  BY DEF PipesInv
<1> QED
  BY <1>1, PipesInitInv, PipesNextInv, PTL DEF PipesSpec

-----------------------------------------------------------------------------
(* The registry of locales. *)

\* After a load that has returned, what is supported is loaded; a load that
\* fails halfway only adds to what is loaded.
LocaleInv ==
    /\ returned \in BOOLEAN /\ failed \in BOOLEAN
    /\ returned => supported \subseteq Loaded
    /\ returned /\ ~failed => supported = Loaded

\* The first of some positions.
LEMMA FirstIsLeast ==
    ASSUME NEW S \in SUBSET Nat, S # {}
    PROVE  First(S) \in S /\ \A m \in S : First(S) <= m
<1>1. \E n \in S : \A m \in S : n <= m
  BY LeastElement
<1> QED
  BY <1>1, Zenon DEF First

\* A load reads all of its files, or stops before one of them.
LEMMA ReadUpToBound ==
    ASSUME NEW n \in Nat, NEW files \in Directory(n), NEW given
    PROVE  ReadUpTo(files, given) \in 0 .. Len(files)
<1>1. PICK k \in 0 .. n : files \in [1 .. k -> [code : Code, encoding : Encoding]]
  BY DEF Directory
<1>2. Len(files) = k /\ DOMAIN files = 1 .. k /\ k \in Nat
  BY <1>1
<1> DEFINE encoding == IF given # "" \/ files = <<>> THEN given ELSE files[1].encoding
           bad == {i \in DOMAIN files : ~Readable(files[i].encoding, encoding)}
<1>3. ReadUpTo(files, given) = IF bad = {} THEN Len(files) ELSE First(bad) - 1
  BY DEF ReadUpTo
<1>4. bad \subseteq 1 .. k
  BY <1>2
<1> HIDE DEF bad
<1>5. CASE bad # {}
  <2>1. First(bad) \in bad
    BY <1>4, <1>5, FirstIsLeast
  <2>2. First(bad) \in 1 .. k /\ ReadUpTo(files, given) = First(bad) - 1
    BY <1>3, <1>4, <1>5, <2>1
  <2> HIDE DEF encoding
  <2> QED
    BY <1>2, <2>2
<1> QED
  BY <1>2, <1>3, <1>5

\* load_translations(), complete or not.
LEMMA LoadTranslationsInv ==
    ASSUME LocaleInv, NEW n \in Nat, NEW files \in Directory(n), NEW given,
           LoadTranslations(files, given)
    PROVE  LocaleInv'
<1> DEFINE k == ReadUpTo(files, given)
           read == {files[i].code : i \in 1 .. k}
<1>1. k \in 0 .. Len(files) /\ (k = Len(files) \/ k < Len(files)) /\ ~(k = Len(files) /\ k < Len(files))
  <2>1. Len(files) \in Nat
    <3>1. PICK m \in 0 .. n : files \in [1 .. m -> [code : Code, encoding : Encoding]]
      BY DEF Directory
    <3> QED
      BY <3>1
  <2> QED
    BY <2>1, ReadUpToBound
<1>2. /\ Loaded' = Loaded \cup read
      /\ supported' = IF k = Len(files) THEN Loaded \cup read ELSE supported
      /\ failed' = (k < Len(files)) /\ returned' = (returned \/ k = Len(files))
  BY DEF LoadTranslations, Register, SupportedAfter, Loaded
<1> HIDE DEF k, read
<1> QED
  BY <1>1, <1>2 DEF LocaleInv

LEMMA LocaleInitInv == LocaleInit => LocaleInv
  BY DEF LocaleInit, LocaleInv

LEMMA LocaleNextInv ==
    ASSUME NEW n \in Nat, NEW maxLoads \in Nat
    PROVE  LocaleInv /\ [LocaleNext(n, maxLoads)]_localeVars => LocaleInv'
<1> SUFFICES ASSUME LocaleInv, [LocaleNext(n, maxLoads)]_localeVars PROVE LocaleInv'
  OBVIOUS
<1>1. ASSUME NEW files \in Directory(n), NEW given, LoadTranslations(files, given)
      PROVE  LocaleInv'
  BY <1>1, LoadTranslationsInv
<1>2. CASE LoadGettext
  BY <1>2 DEF LoadGettext, SupportedAfter, LocaleInv, Loaded
<1>3. ASSUME NEW c \in Code, SetDefaultLocale(c) PROVE LocaleInv'
  BY <1>3 DEF SetDefaultLocale, LocaleInv, Loaded
<1>4. CASE UNCHANGED localeVars
  BY <1>4 DEF localeVars, LocaleInv, Loaded
<1> QED
  BY <1>1, <1>2, <1>3, <1>4 DEF LocaleNext

\* What get() makes of a list of two codes.
LEMMA ClosestOfTwo ==
    ASSUME NEW c \in Code, NEW d \in Code
    PROVE  /\ Get(c) = c => GetClosest(<<c, d>>) = c
           /\ default \in Loaded => GetClosest(<<c, d>>) \in Loaded
<1> DEFINE codes == <<c, d>>
           found == {i \in DOMAIN codes : Match(codes[i]) # NoLocale}
<1>1. DOMAIN codes = {1, 2} /\ codes[1] = c /\ codes[2] = d
  OBVIOUS
<1>2. GetClosest(codes) = IF found # {} THEN Match(codes[First(found)])
                          ELSE IF default \in Loaded THEN default ELSE NoLocale
  BY DEF GetClosest
<1>3. found # {} => First(found) \in found /\ \A m \in found : First(found) <= m
  <2>1. found \subseteq Nat
    BY <1>1
  <2> QED
    BY <2>1, FirstIsLeast
<1>4. ASSUME Get(c) = c PROVE GetClosest(codes) = c
  <2>1. c \in Loaded /\ c # NoLocale
    BY <1>4, LocaleAssumption DEF Get, NoLocale
  <2>2. Match(c) = c /\ 1 \in found
    BY <1>1, <2>1 DEF Match
  <2>3. First(found) = 1
    BY <1>1, <1>3, <2>2
  <2> QED
    BY <1>1, <1>2, <2>2, <2>3
<1>5. ASSUME default \in Loaded PROVE GetClosest(codes) \in Loaded
  <2>1. \A i \in found : Match(codes[i]) \in Loaded
    BY DEF Match
  <2> HIDE DEF found
  <2> QED
    BY <1>2, <1>3, <1>5, <2>1
<1> QED
  BY <1>4, <1>5

\* However many loads fail halfway, once one has returned every supported
\* locale can be had, and preferences are answered by what is loaded.
THEOREM LocaleCorrect ==
    ASSUME NEW CONSTANT n \in Nat, NEW CONSTANT maxLoads \in Nat
    PROVE  LocaleSpec(n, maxLoads) => []LookupsAgree
<1>1. LocaleInv => LookupsAgree
  <2>1. ASSUME LocaleInv, returned, NEW c \in Code PROVE Get(c) # "KeyError"
    BY <2>1, LocaleAssumption DEF LocaleInv, Get
  <2> QED
    BY <2>1, ClosestOfTwo DEF LocaleInv, LookupsAgree
<1> QED
  BY <1>1, LocaleInitInv, LocaleNextInv, PTL DEF LocaleSpec

-----------------------------------------------------------------------------
(* The two dictionaries of HTTPHeaders. *)

Value == Seq(Part) \ {<<>>}

HeadersObject ==
    [dict : [Header -> Seq(Part)], asList : [Header -> Seq(Value)], order : Seq(Header)]

\* A set of indices that is not empty has a greatest one.
LEMMA MaxIsIn ==
    ASSUME NEW n \in Nat, NEW S \in SUBSET (1 .. n), S # {}
    PROVE  Max(S) \in 1 .. n
<1> DEFINE R == {k \in Nat : n - k \in S}
<1>1. R \in SUBSET Nat
  OBVIOUS
<1>2. PICK x \in S : TRUE
  OBVIOUS
<1>3. n - x \in R
  BY <1>2
<1>4. PICK k \in R : \A m \in R : k <= m
  BY <1>1, <1>3, LeastElement
<1>5. \A y \in S : n - y \in R
  OBVIOUS
<1>6. n - k \in S /\ \A y \in S : n - k >= y
  BY <1>4, <1>5
<1>7. Max(S) \in S
  BY <1>6, Zenon DEF Max
<1> QED
  BY <1>7

\* add() returns an object.
LEMMA AddTyped ==
    ASSUME NEW o \in HeadersObject, NEW name \in Spelling, NEW v \in Value
    PROVE  Add(o, name, v) \in HeadersObject
<1> DEFINE k == Normal[name]
<1>1. k \in Header /\ v \in Seq(Part)
  BY HeadersAssumption DEF Value
<1>2. /\ o.dict[k] \in Seq(Part) /\ o.asList[k] \in Seq(Value) /\ o.order \in Seq(Header)
      /\ o.dict \in [Header -> Seq(Part)] /\ o.asList \in [Header -> Seq(Value)]
  BY <1>1 DEF HeadersObject
<1>3. o.dict[k] \o v \in Seq(Part) /\ Append(o.asList[k], v) \in Seq(Value)
      /\ Append(o.order, k) \in Seq(Header)
  BY <1>1, <1>2
<1>4. [o.dict EXCEPT ![k] = @ \o v] \in [Header -> Seq(Part)]
  BY <1>1, <1>2, <1>3
<1>5. [o.asList EXCEPT ![k] = Append(@, v)] \in [Header -> Seq(Value)]
  BY <1>1, <1>2, <1>3
<1> QED
  BY <1>2, <1>3, <1>4, <1>5 DEF Add, HeadersObject

\* The loop of the constructor.
LEMMA FromPairsLoop ==
    ASSUME NEW pairs \in Seq(Header \X Value)
    PROVE  \E g \in [0 .. Len(pairs) -> HeadersObject] :
              /\ g[0] = Empty
              /\ \A i \in 1 .. Len(pairs) : g[i] = Add(g[i - 1], pairs[i][1], pairs[i][2])
              /\ FromPairs(pairs) = g[Len(pairs)]
<1> DEFINE n == Len(pairs)
           G == [i \in Nat |-> [o \in HeadersObject |->
                   IF i \in 1 .. n THEN AddPair(o, pairs[i]) ELSE o]]
           iter == CHOOSE f : f = [S \in SUBSET DOMAIN pairs |->
                                     IF S = {} THEN Empty
                                     ELSE AddPair(f[S \ {Max(S)}], pairs[Max(S)])]
<1>1. n \in Nat /\ DOMAIN pairs = 1 .. n /\ \A i \in 1 .. n : i \in Nat
  OBVIOUS
<1>2. ASSUME NEW o \in HeadersObject, NEW i \in 1 .. n
      PROVE  AddPair(o, pairs[i]) \in HeadersObject
  <2>1. pairs[i][1] \in Spelling /\ pairs[i][2] \in Value
    BY HeadersAssumption
  <2> QED
    BY <2>1, AddTyped DEF AddPair
<1>3. Empty \in HeadersObject
  BY DEF Empty, HeadersObject
<1>4. G \in [Nat -> [HeadersObject -> HeadersObject]]
  BY <1>2
<1>5. \A i \in 1 .. n, o \in HeadersObject : G[i][o] = AddPair(o, pairs[i])
  BY <1>1, Zenon
<1>6. FromPairs(pairs) = iter[DOMAIN pairs]
  BY Zenon DEF FromPairs, FoldLeft, MapThenFoldSet
<1> HIDE DEF n, G
<1>7. PICK f \in [SUBSET (1 .. n) -> HeadersObject] : IsFold(f, HeadersObject, Empty, G, n)
  BY <1>1, <1>3, <1>4, FoldExists
<1>8. \A S \in SUBSET (1 .. n) : S # {} => Max(S) \in 1 .. n /\ S \ {Max(S)} \in SUBSET (1 .. n)
  BY <1>1, MaxIsIn
<1>9. \A S \in SUBSET (1 .. n) :
         f[S] = IF S = {} THEN Empty ELSE AddPair(f[S \ {Max(S)}], pairs[Max(S)])
  BY <1>5, <1>7, <1>8, Zenon DEF IsFold
<1>10. f = [S \in SUBSET (1 .. n) |->
              IF S = {} THEN Empty ELSE AddPair(f[S \ {Max(S)}], pairs[Max(S)])]
  <2>1. f = [S \in SUBSET (1 .. n) |-> f[S]]
    OBVIOUS
  <2> QED
    BY <1>9, <2>1, Zenon
<1>11. iter = [S \in SUBSET (1 .. n) |->
                 IF S = {} THEN Empty ELSE AddPair(iter[S \ {Max(S)}], pairs[Max(S)])]
  BY <1>1, <1>10, Zenon
<1> HIDE DEF iter
<1>12. \A S \in SUBSET (1 .. n) :
         iter[S] = IF S = {} THEN Empty ELSE AddPair(iter[S \ {Max(S)}], pairs[Max(S)])
  BY <1>11, Zenon
<1>13. IsFold(iter, HeadersObject, Empty, G, n)
  <2>1. {} \in SUBSET (1 .. n)
    OBVIOUS
  <2> QED
    BY <1>5, <1>8, <1>12, <2>1, Zenon DEF IsFold
<1>14. PICK g \in [0 .. n -> HeadersObject] : IsLoop(g, Empty, G, n) /\ iter[1 .. n] = g[n]
  <2>1. n \in Nat
    BY <1>1
  <2>2. \A u : IsFold(u, HeadersObject, Empty, G, n) =>
              \E g \in [0 .. n -> HeadersObject] : IsLoop(g, Empty, G, n) /\ u[1 .. n] = g[n]
    BY <1>3, <1>4, <2>1, FoldIsLoop
  <2> QED
    BY <1>13, <2>2, Zenon
<1>15. \A i \in 1 .. n : i - 1 \in 0 .. n
  BY <1>1
<1>16. \A i \in 1 .. n : g[i] = Add(g[i - 1], pairs[i][1], pairs[i][2])
  BY <1>5, <1>14, <1>15, Zenon DEF IsLoop, AddPair
<1> QED
  BY <1>1, <1>6, <1>14, <1>16, Zenon DEF IsLoop, n

\* A stripped value is a value.
LEMMA StripTyped ==
    ASSUME NEW v \in Value
    PROVE  Strip(v) \in Value
<1>1. v \in Seq(Part) /\ Len(v) \in Nat /\ Len(v) # 0 /\ DOMAIN v = 1 .. Len(v)
      /\ \A i \in 1 .. Len(v) : v[i] \in Part
  BY DEF Value
<1> DEFINE first(i) == IF i = 1 THEN LStripped[v[i]] ELSE v[i]
           part(i) == IF i = Len(v) THEN RStripped[first(i)] ELSE first(i)
<1>2. \A i \in 1 .. Len(v) : part(i) \in Part
  <2>1. \A i \in 1 .. Len(v) : first(i) \in Part
    BY <1>1, HeadersAssumption
  <2> HIDE DEF first
  <2> QED
    BY <2>1, HeadersAssumption
<1>3. Strip(v) = [i \in 1 .. Len(v) |-> part(i)]
  BY <1>1, Zenon DEF Strip
<1> HIDE DEF part
<1>4. Strip(v) \in [1 .. Len(v) -> Part]
  BY <1>2, <1>3
<1>5. Strip(v) \in Seq(Part) /\ Len(Strip(v)) = Len(v)
  BY <1>1, <1>4
<1> QED
  BY <1>1, <1>5 DEF Value

\* The loop of parse(), for lines that are not blank.
LEMMA ParseLoop ==
    ASSUME NEW lines \in Seq(Header \X Value)
    PROVE  \E g \in [0 .. Len(lines) -> HeadersObject] :
              /\ g[0] = Empty
              /\ \A i \in 1 .. Len(lines) : g[i] = Add(g[i - 1], lines[i][1], Strip(lines[i][2]))
              /\ Parse(lines) = g[Len(lines)]
<1> DEFINE n == Len(lines)
           G == [i \in Nat |-> [o \in HeadersObject |->
                   IF i \in 1 .. n THEN ParseNext(o, lines[i]) ELSE o]]
           iter == CHOOSE f : f = [S \in SUBSET DOMAIN lines |->
                                     IF S = {} THEN Empty
                                     ELSE ParseNext(f[S \ {Max(S)}], lines[Max(S)])]
<1>1. n \in Nat /\ DOMAIN lines = 1 .. n /\ \A i \in 1 .. n : i \in Nat
  OBVIOUS
<1>2. \A i \in 1 .. n : lines[i] # <<>>
  <2>1. \A a, b : <<a, b>> # <<>>
    OBVIOUS
  <2>2. \A i \in 1 .. n : lines[i] = <<lines[i][1], lines[i][2]>>
    OBVIOUS
  <2> QED
    BY <2>1, <2>2, Zenon
<1>3. ASSUME NEW o \in HeadersObject, NEW i \in 1 .. n
      PROVE  ParseNext(o, lines[i]) \in HeadersObject
  <2>1. lines[i][1] \in Spelling /\ lines[i][2] \in Value
    BY HeadersAssumption
  <2>2. Strip(lines[i][2]) \in Value
    BY <2>1, StripTyped
  <2> QED
    BY <2>1, <2>2, <1>2, AddTyped DEF ParseNext, ParseLine
<1>4. Empty \in HeadersObject
  BY DEF Empty, HeadersObject
<1>5. G \in [Nat -> [HeadersObject -> HeadersObject]]
  BY <1>3
<1>6. \A i \in 1 .. n, o \in HeadersObject : G[i][o] = ParseNext(o, lines[i])
  BY <1>1, Zenon
<1>7. Parse(lines) = iter[DOMAIN lines]
  BY Zenon DEF Parse, FoldLeft, MapThenFoldSet
<1> HIDE DEF n, G
<1>8. PICK f \in [SUBSET (1 .. n) -> HeadersObject] : IsFold(f, HeadersObject, Empty, G, n)
  BY <1>1, <1>4, <1>5, FoldExists
<1>9. \A S \in SUBSET (1 .. n) : S # {} => Max(S) \in 1 .. n /\ S \ {Max(S)} \in SUBSET (1 .. n)
  BY <1>1, MaxIsIn
<1>10. \A S \in SUBSET (1 .. n) :
         f[S] = IF S = {} THEN Empty ELSE ParseNext(f[S \ {Max(S)}], lines[Max(S)])
  BY <1>6, <1>8, <1>9, Zenon DEF IsFold
<1>11. f = [S \in SUBSET (1 .. n) |->
              IF S = {} THEN Empty ELSE ParseNext(f[S \ {Max(S)}], lines[Max(S)])]
  <2>1. f = [S \in SUBSET (1 .. n) |-> f[S]]
    OBVIOUS
  <2> QED
    BY <1>10, <2>1, Zenon
<1>12. iter = [S \in SUBSET (1 .. n) |->
                 IF S = {} THEN Empty ELSE ParseNext(iter[S \ {Max(S)}], lines[Max(S)])]
  BY <1>1, <1>11, Zenon
<1> HIDE DEF iter
<1>13. \A S \in SUBSET (1 .. n) :
         iter[S] = IF S = {} THEN Empty ELSE ParseNext(iter[S \ {Max(S)}], lines[Max(S)])
  BY <1>12, Zenon
<1>14. IsFold(iter, HeadersObject, Empty, G, n)
  <2>1. {} \in SUBSET (1 .. n)
    OBVIOUS
  <2> QED
    BY <1>6, <1>9, <1>13, <2>1, Zenon DEF IsFold
<1>15. PICK g \in [0 .. n -> HeadersObject] : IsLoop(g, Empty, G, n) /\ iter[1 .. n] = g[n]
  <2>1. n \in Nat
    BY <1>1
  <2>2. \A u : IsFold(u, HeadersObject, Empty, G, n) =>
              \E g \in [0 .. n -> HeadersObject] : IsLoop(g, Empty, G, n) /\ u[1 .. n] = g[n]
    BY <1>4, <1>5, <2>1, FoldIsLoop
  <2> QED
    BY <1>14, <2>2, Zenon
<1>16. \A i \in 1 .. n : i - 1 \in 0 .. n
  BY <1>1
<1>17. \A i \in 1 .. n : g[i] = Add(g[i - 1], lines[i][1], Strip(lines[i][2]))
  BY <1>6, <1>15, <1>16, <1>2, Zenon DEF IsLoop, ParseNext, ParseLine
<1> QED
  BY <1>1, <1>7, <1>15, <1>17, Zenon DEF IsLoop, n

\* The two dictionaries agree.
Agrees(o) ==
    /\ o \in HeadersObject
    /\ \A n \in Header : o.dict[n] = FlattenSeq(o.asList[n])
    /\ \A n \in Header : Has(o, n) <=> o.asList[n] # <<>>
    /\ ToSet(o.order) = {n \in Header : Has(o, n)}
    /\ IsInjective(o.order)

\* A new object has no name in either dictionary.
LEMMA EmptyAgrees == Agrees(Empty)
<1>1. Empty \in HeadersObject
  BY DEF Empty, HeadersObject
<1>2. \A n \in Header : Empty.dict[n] = <<>> /\ Empty.asList[n] = <<>>
  BY DEF Empty
<1>3. Empty.order = <<>> /\ DOMAIN Empty.order = {}
  BY DEF Empty
<1>4. FlattenSeq(<<>>) = <<>>
  BY DEF FlattenSeq
<1> QED
  BY <1>1, <1>2, <1>3, <1>4 DEF Agrees, Has, ToSet, IsInjective

\* A new name goes to the end of the order, and one that is there stays.
LEMMA OrderWith ==
    ASSUME NEW o \in HeadersObject, NEW k \in Header, NEW order,
           ToSet(o.order) = {n \in Header : Has(o, n)}, IsInjective(o.order),
           order = IF Has(o, k) THEN o.order ELSE Append(o.order, k)
    PROVE  /\ order \in Seq(Header) /\ IsInjective(order)
           /\ ToSet(order) = {n \in Header : n = k \/ Has(o, n)}
<1>1. o.order \in Seq(Header) /\ Len(o.order) \in Nat /\ DOMAIN o.order = 1 .. Len(o.order)
  BY DEF HeadersObject
<1>2. CASE Has(o, k)
  BY <1>1, <1>2
<1>3. CASE ~Has(o, k)
  <2>1. order = Append(o.order, k)
    BY <1>3
  <2>2. /\ order \in Seq(Header) /\ DOMAIN order = 1 .. (Len(o.order) + 1)
        /\ order[Len(o.order) + 1] = k /\ \A i \in 1 .. Len(o.order) : order[i] = o.order[i]
    BY <1>1, <2>1, AppendProperties
  <2>3. \A i \in 1 .. Len(o.order) : o.order[i] # k
    BY <1>1, <1>3 DEF ToSet
  <2>4. IsInjective(order)
    BY <1>1, <2>2, <2>3 DEF IsInjective
  <2>5. \A i \in DOMAIN order : i = Len(o.order) + 1 \/ i \in 1 .. Len(o.order)
    BY <1>1, <2>2
  <2>6. ToSet(order) = ToSet(o.order) \cup {k}
    <3>1. Len(o.order) + 1 \in DOMAIN order /\ 1 .. Len(o.order) \subseteq DOMAIN order
      BY <1>1, <2>2
    <3> QED
      BY <1>1, <2>2, <2>5, <3>1, Zenon DEF ToSet
  <2> QED
    BY <2>2, <2>4, <2>6
<1> QED
  BY <1>2, <1>3

\* add() keeps the dictionaries together: the value it joins to the one is the
\* last of the list in the other.
LEMMA AddAgrees ==
    ASSUME NEW o, Agrees(o), NEW name \in Spelling, NEW v \in Value
    PROVE  Agrees(Add(o, name, v))
<1> DEFINE k == Normal[name]
           r == Add(o, name, v)
<1>1. k \in Header /\ v \in Seq(Part) /\ v # <<>>
  BY HeadersAssumption DEF Value
<1>2. o \in HeadersObject /\ r \in HeadersObject
  BY AddTyped DEF Agrees
<1>3. /\ \A n \in Header : r.dict[n] = IF n = k THEN o.dict[k] \o v ELSE o.dict[n]
      /\ \A n \in Header : r.asList[n] = IF n = k THEN Append(o.asList[k], v) ELSE o.asList[n]
      /\ r.order = IF Has(o, k) THEN o.order ELSE Append(o.order, k)
  BY <1>1, <1>2 DEF Add, HeadersObject
<1>4. /\ o.asList[k] \in Seq(Value) /\ o.asList[k] \in Seq(Seq(Part)) /\ o.dict[k] \in Seq(Part)
      /\ o.dict[k] = FlattenSeq(o.asList[k])
  BY <1>1, <1>2 DEF Agrees, HeadersObject, Value
<1>5. FlattenSeq(Append(o.asList[k], v)) = FlattenSeq(o.asList[k]) \o v
  BY <1>1, <1>4, FlattenAppend
<1>6. o.dict[k] \o v # <<>> /\ Append(o.asList[k], v) # <<>>
  <2>1. o.dict[k] \o v # <<>>
    BY <1>1, <1>4, ConcatEqualIffEmpty
  <2>2. Append(o.asList[k], v) # <<>>
    BY <1>4, AppendProperties
  <2> QED
    BY <2>1, <2>2
<1> HIDE DEF r, k
<1>7. \A n \in Header : r.dict[n] = FlattenSeq(r.asList[n])
  BY <1>3, <1>4, <1>5, Zenon DEF Agrees
<1>8. \A n \in Header : Has(r, n) <=> n = k \/ Has(o, n)
  BY <1>1, <1>3, <1>6, Zenon DEF Has
<1>9. \A n \in Header : Has(r, n) <=> r.asList[n] # <<>>
  BY <1>3, <1>6, <1>8, Zenon DEF Agrees
<1>10. IsInjective(r.order) /\ ToSet(r.order) = {n \in Header : n = k \/ Has(o, n)}
  BY <1>1, <1>2, <1>3, OrderWith DEF Agrees
<1>11. ToSet(r.order) = {n \in Header : Has(r, n)}
  BY <1>8, <1>10
<1> QED
  BY <1>2, <1>7, <1>9, <1>10, <1>11 DEF Agrees, r

\* __setitem__ keeps the dictionaries together.
LEMMA SetItemAgrees ==
    ASSUME NEW o, Agrees(o), NEW name \in Spelling, NEW v \in Value
    PROVE  Agrees(SetItem(o, name, v))
<1> DEFINE k == Normal[name]
           r == SetItem(o, name, v)
<1>1. k \in Header /\ v \in Seq(Part) /\ v # <<>>
  BY HeadersAssumption DEF Value
<1>2. o \in HeadersObject
  BY DEF Agrees
<1>3. IsInjective(r.order) /\ ToSet(r.order) = {n \in Header : n = k \/ Has(o, n)}
      /\ r.order \in Seq(Header)
  <2>1. r.order = IF Has(o, k) THEN o.order ELSE Append(o.order, k)
    BY DEF SetItem
  <2> QED
    BY <1>1, <1>2, <2>1, OrderWith DEF Agrees
<1>4. /\ r.dict = [o.dict EXCEPT ![k] = v] /\ r.asList = [o.asList EXCEPT ![k] = <<v>>]
      /\ r = [dict |-> r.dict, asList |-> r.asList, order |-> r.order]
  BY DEF SetItem
<1>5. <<v>> \in Seq(Value) /\ <<v>> # <<>> /\ <<v>> = Append(<<>>, v)
  OBVIOUS
<1>6. /\ o.dict \in [Header -> Seq(Part)] /\ o.asList \in [Header -> Seq(Value)]
  BY <1>2 DEF HeadersObject
<1> HIDE DEF r, k
<1>7. /\ r.dict \in [Header -> Seq(Part)] /\ r.asList \in [Header -> Seq(Value)]
      /\ \A n \in Header : r.dict[n] = IF n = k THEN v ELSE o.dict[n]
      /\ \A n \in Header : r.asList[n] = IF n = k THEN <<v>> ELSE o.asList[n]
  BY <1>1, <1>4, <1>5, <1>6
<1>8. r \in HeadersObject
  BY <1>3, <1>4, <1>7 DEF HeadersObject
<1>9. FlattenSeq(<<v>>) = v
  <2>1. <<>> \in Seq(Seq(Part))
    OBVIOUS
  <2>2. FlattenSeq(Append(<<>>, v)) = <<>> \o v
    BY <1>1, <2>1, FlattenAppend
  <2> QED
    BY <1>1, <1>5, <2>2, ConcatEmptySeq
<1>10. \A n \in Header : r.dict[n] = FlattenSeq(r.asList[n])
  BY <1>7, <1>9, Zenon DEF Agrees
<1>11. \A n \in Header : Has(r, n) <=> n = k \/ Has(o, n)
  BY <1>1, <1>7, Zenon DEF Has
<1>12. \A n \in Header : Has(r, n) <=> r.asList[n] # <<>>
  BY <1>5, <1>7, <1>11, Zenon DEF Agrees
<1>13. ToSet(r.order) = {n \in Header : Has(r, n)}
  BY <1>3, <1>11
<1> QED
  BY <1>3, <1>8, <1>10, <1>12, <1>13 DEF Agrees, r

\* Taking a name out of the order.
LEMMA RemoveFirstOrder ==
    ASSUME NEW T, NEW s \in Seq(T), IsInjective(s), NEW e \in ToSet(s)
    PROVE  /\ RemoveFirst(s, e) \in Seq(T) /\ IsInjective(RemoveFirst(s, e))
           /\ ToSet(RemoveFirst(s, e)) = ToSet(s) \ {e}
<1> DEFINE n == Len(s)
<1>1. n \in Nat /\ DOMAIN s = 1 .. n /\ \A i \in 1 .. n : s[i] \in T
  OBVIOUS
<1>2. PICK m \in 1 .. n : s[m] = e
  BY <1>1 DEF ToSet
<1>3. {i \in 1 .. n : s[i] = e} = {m}
  BY <1>1, <1>2 DEF IsInjective
<1>4. Min({m}) = m
  <2>1. m =< m
    BY <1>1
  <2> QED
    BY <2>1, Zenon DEF Min
<1>5. SelectInSeq(s, LAMBDA v : v = e) = m
  BY <1>3, <1>4 DEF SelectInSeq
<1>6. RemoveFirst(s, e) = SubSeq(s, 1, m - 1) \o SubSeq(s, m + 1, n)
  BY <1>2, <1>5 DEF RemoveFirst, RemoveAt
<1> DEFINE a == SubSeq(s, 1, m - 1)
           b == SubSeq(s, m + 1, n)
           r == a \o b
<1>7. a \in Seq(T) /\ Len(a) = m - 1 /\ \A i \in 1 .. (m - 1) : a[i] = s[i]
  BY <1>1, <1>2
<1>8. b \in Seq(T) /\ Len(b) = n - m /\ \A i \in 1 .. (n - m) : b[i] = s[m + i]
  <2>1. \A i \in m + 1 .. n : s[i] \in T
    BY <1>1, <1>2
  <2>2. m + 1 \in Int /\ n \in Int
    BY <1>1, <1>2
  <2>3. b \in Seq(T) /\ Len(b) = (IF m + 1 <= n THEN n - (m + 1) + 1 ELSE 0)
        /\ \A i \in 1 .. n - (m + 1) + 1 : b[i] = s[(m + 1) + i - 1]
    BY <2>1, <2>2, SubSeqProperties
  <2> HIDE DEF b
  <2>4. Len(b) = n - m
    <3>1. CASE m + 1 <= n
      <4>1. n - (m + 1) + 1 = n - m
        BY <1>1
      <4> QED
        BY <2>3, <3>1, <4>1
    <3>2. CASE ~(m + 1 <= n)
      <4>1. n - m = 0
        <5>1. n \in Nat /\ m \in Nat /\ m <= n
          BY <1>1
        <5> HIDE DEF n
        <5> QED
          BY <3>2, <5>1
      <4> QED
        BY <2>3, <3>2, <4>1
    <3> QED
      BY <3>1, <3>2
  <2>5. \A i \in 1 .. (n - m) : i \in 1 .. n - (m + 1) + 1 /\ (m + 1) + i - 1 = m + i
    BY <1>1, <1>2
  <2>6. \A i \in 1 .. (n - m) : b[i] = s[m + i]
    BY <2>3, <2>5
  <2> QED
    BY <2>3, <2>4, <2>6
<1> HIDE DEF a, b
<1>9. /\ r \in Seq(T) /\ DOMAIN r = 1 .. (n - 1)
      /\ \A i \in 1 .. (n - 1) : r[i] = IF i < m THEN s[i] ELSE s[i + 1]
  <2>1. r \in Seq(T) /\ Len(r) = Len(a) + Len(b)
        /\ \A i \in 1 .. Len(a) + Len(b) : r[i] = IF i <= Len(a) THEN a[i] ELSE b[i - Len(a)]
    BY <1>7, <1>8, ConcatProperties
  <2>2. Len(r) = n - 1 /\ DOMAIN r = 1 .. Len(r)
    BY <1>1, <1>2, <1>7, <1>8, <2>1
  <2>3. ASSUME NEW i \in 1 .. (n - 1)
        PROVE  r[i] = IF i < m THEN s[i] ELSE s[i + 1]
    <3>1. CASE i < m
      BY <1>1, <1>2, <1>7, <1>8, <2>1, <3>1
    <3>2. CASE ~(i < m)
      <4>1. i - (m - 1) \in 1 .. (n - m) /\ m + (i - (m - 1)) = i + 1
        BY <1>1, <1>2, <3>2
      <4>2. i \in 1 .. Len(a) + Len(b) /\ ~(i <= Len(a)) /\ i - Len(a) = i - (m - 1)
        BY <1>1, <1>2, <1>7, <1>8, <3>2
      <4>3. r[i] = b[i - (m - 1)]
        BY <2>1, <4>2
      <4>4. b[i - (m - 1)] = s[i + 1]
        BY <1>8, <4>1
      <4> QED
        BY <3>2, <4>3, <4>4
    <3> QED
      BY <3>1, <3>2
  <2> QED
    BY <2>1, <2>2, <2>3
<1> HIDE DEF r
<1>10. \A i, j \in 1 .. n : s[i] = s[j] => i = j
  BY <1>1 DEF IsInjective
<1>11. IsInjective(r)
  <2>1. ASSUME NEW i \in 1 .. (n - 1), NEW j \in 1 .. (n - 1), r[i] = r[j]
        PROVE  i = j
    BY <1>1, <1>2, <1>9, <1>10, <2>1
  <2> QED
    BY <1>9, <2>1, Zenon DEF IsInjective
<1>12. ASSUME NEW x \in ToSet(s), x # e
       PROVE  x \in ToSet(r)
  <2>1. PICK i \in 1 .. n : s[i] = x /\ i # m
    BY <1>1, <1>2, <1>12 DEF ToSet
  <2>2. CASE i < m
    <3>1. i \in 1 .. (n - 1) /\ r[i] = x
      BY <1>1, <1>2, <1>9, <2>1, <2>2
    <3> QED
      BY <1>9, <3>1 DEF ToSet
  <2>3. CASE i > m
    <3>1. i - 1 \in 1 .. (n - 1) /\ r[i - 1] = x
      BY <1>1, <1>2, <1>9, <2>1, <2>3
    <3> QED
      BY <1>9, <3>1 DEF ToSet
  <2> QED
    BY <1>1, <1>2, <2>1, <2>2, <2>3
<1>13. ASSUME NEW x \in ToSet(r)
       PROVE  x \in ToSet(s) /\ x # e
  <2>1. PICK i \in 1 .. (n - 1) : r[i] = x
    BY <1>9 DEF ToSet
  <2>2. CASE i < m
    BY <1>1, <1>2, <1>9, <2>1, <2>2 DEF ToSet, IsInjective
  <2>3. CASE ~(i < m)
    BY <1>1, <1>2, <1>9, <2>1, <2>3 DEF ToSet, IsInjective
  <2> QED
    BY <2>2, <2>3
<1>14. ToSet(r) = ToSet(s) \ {e}
  BY <1>12, <1>13
<1> QED
  BY <1>6, <1>9, <1>11, <1>14 DEF r, a, b

\* __delitem__ takes the name out of both.
LEMMA DelItemAgrees ==
    ASSUME NEW o, Agrees(o), NEW name \in Spelling, Has(o, Normal[name])
    PROVE  Agrees(DelItem(o, name))
<1> DEFINE k == Normal[name]
           r == DelItem(o, name)
<1>1. k \in Header
  BY HeadersAssumption
<1>2. o \in HeadersObject /\ o.order \in Seq(Header)
  BY DEF Agrees, HeadersObject
<1>3. r.order \in Seq(Header) /\ IsInjective(r.order) /\ ToSet(r.order) = ToSet(o.order) \ {k}
  <2>1. k \in ToSet(o.order)
    BY <1>1 DEF Agrees
  <2>2. r.order = RemoveFirst(o.order, k)
    BY DEF DelItem
  <2> QED
    BY <1>2, <2>1, <2>2, RemoveFirstOrder DEF Agrees
<1>4. /\ r.dict = [o.dict EXCEPT ![k] = <<>>] /\ r.asList = [o.asList EXCEPT ![k] = <<>>]
      /\ r = [dict |-> r.dict, asList |-> r.asList, order |-> r.order]
  BY DEF DelItem
<1>5. /\ o.dict \in [Header -> Seq(Part)] /\ o.asList \in [Header -> Seq(Value)]
  BY <1>2 DEF HeadersObject
<1> HIDE DEF r, k
<1>6. /\ r.dict \in [Header -> Seq(Part)] /\ r.asList \in [Header -> Seq(Value)]
      /\ \A n \in Header : r.dict[n] = IF n = k THEN <<>> ELSE o.dict[n]
      /\ \A n \in Header : r.asList[n] = IF n = k THEN <<>> ELSE o.asList[n]
  BY <1>1, <1>4, <1>5
<1>7. r \in HeadersObject
  BY <1>3, <1>4, <1>6 DEF HeadersObject
<1>8. FlattenSeq(<<>>) = <<>>
  BY DEF FlattenSeq
<1>9. \A n \in Header : r.dict[n] = FlattenSeq(r.asList[n])
  BY <1>6, <1>8, Zenon DEF Agrees
<1>10. \A n \in Header : Has(r, n) <=> n # k /\ Has(o, n)
  BY <1>1, <1>6, Zenon DEF Has
<1>11. \A n \in Header : Has(r, n) <=> r.asList[n] # <<>>
  BY <1>6, <1>10, Zenon DEF Agrees
<1>12. ToSet(r.order) = {n \in Header : Has(r, n)}
  BY <1>3, <1>10 DEF Agrees
<1> QED
  BY <1>3, <1>7, <1>9, <1>11, <1>12 DEF Agrees, r

-----------------------------------------------------------------------------
\* What add() does to an object, for a name in normal form.
LEMMA AddFields ==
    ASSUME NEW o \in HeadersObject, NEW name \in Header, NEW v \in Value
    PROVE  LET r == Add(o, name, v) IN
           /\ \A n \in Header : r.asList[n] = IF n = name THEN Append(o.asList[name], v) ELSE o.asList[n]
           /\ r.order = IF Has(o, name) THEN o.order ELSE Append(o.order, name)
<1>1. Normal[name] = name
  BY HeadersAssumption
<1> QED
  BY <1>1 DEF Add, HeadersObject

\* f is the loop that adds the values vs of one name, one by one, to x.
IsAdding(f, x, name, vs) ==
    f[0] = x /\ \A j \in 1 .. Len(vs) : f[j] = Add(f[j - 1], name, vs[j])

\* r is x with the values vs of a new name.
IsWith(r, x, name, vs) ==
    /\ Agrees(r)
    /\ r.order = Append(x.order, name)
    /\ \A n \in Header : r.asList[n] = IF n = name THEN vs ELSE x.asList[n]

\* Adding the values of one name, one by one, to an object without it.
LEMMA AddAllOfName ==
    ASSUME NEW x, Agrees(x), NEW name \in Header, ~Has(x, name),
           NEW vs \in Seq(Value), vs # <<>>, NEW f \in [0 .. Len(vs) -> HeadersObject],
           IsAdding(f, x, name, vs)
    PROVE  IsWith(f[Len(vs)], x, name, vs)
<1> DEFINE n == Len(vs)
           Upto(j) == /\ Agrees(f[j])
                      /\ f[j].order = IF j = 0 THEN x.order ELSE Append(x.order, name)
                      /\ \A m \in Header : m # name => f[j].asList[m] = x.asList[m]
                      /\ Len(f[j].asList[name]) = j
                      /\ \A k \in 1 .. j : f[j].asList[name][k] = vs[k]
           Js == {j \in Nat : j <= n => Upto(j)}
<1>1. n \in Nat /\ n # 0 /\ \A j \in 1 .. n : vs[j] \in Value
  OBVIOUS
<1>2. name \in Spelling
  BY HeadersAssumption
<1>3. x.asList[name] = <<>>
  BY DEF Agrees
<1> HIDE DEF n
<1>4. 0 \in Js
  <2>1. Len(<<>>) = 0 /\ 1 .. 0 = {}
    OBVIOUS
  <2> QED
    BY <1>3, <2>1 DEF IsAdding
<1>5. ASSUME NEW j \in Nat, j \in Js
      PROVE  j + 1 \in Js
  <2> SUFFICES ASSUME j + 1 <= n
               PROVE  Upto(j + 1)
    OBVIOUS
  <2>1. Upto(j)
    BY <1>1, <1>5
  <2>2. j + 1 \in 1 .. n /\ (j + 1) - 1 = j
    BY <1>1
  <2>3. f[j + 1] = Add(f[j], name, vs[j + 1]) /\ vs[j + 1] \in Value
    BY <1>1, <2>2 DEF n, IsAdding
  <2>4. f[j] \in HeadersObject /\ f[j].asList[name] \in Seq(Value)
    BY <2>1 DEF Agrees, HeadersObject
  <2>5. Agrees(f[j + 1])
    BY <1>2, <2>1, <2>3, AddAgrees
  <2>6. /\ \A m \in Header : f[j + 1].asList[m] =
              IF m = name THEN Append(f[j].asList[name], vs[j + 1]) ELSE f[j].asList[m]
        /\ f[j + 1].order = IF Has(f[j], name) THEN f[j].order ELSE Append(f[j].order, name)
    BY <2>3, <2>4, AddFields
  <2> DEFINE l == f[j].asList[name]
  <2>7. /\ Len(Append(l, vs[j + 1])) = j + 1
        /\ \A k \in 1 .. (j + 1) : Append(l, vs[j + 1])[k] = vs[k]
    <3>1. l \in Seq(Value) /\ Len(l) = j /\ \A k \in 1 .. j : l[k] = vs[k]
      BY <2>1, <2>4
    <3> HIDE DEF l
    <3>2. \A w \in Value : /\ Len(Append(l, w)) = Len(l) + 1
                           /\ \A k \in 1 .. Len(l) : Append(l, w)[k] = l[k]
                           /\ Append(l, w)[Len(l) + 1] = w
      BY <3>1, AppendProperties
    <3>3. /\ Len(Append(l, vs[j + 1])) = j + 1
          /\ \A k \in 1 .. j : Append(l, vs[j + 1])[k] = l[k]
          /\ Append(l, vs[j + 1])[j + 1] = vs[j + 1]
      BY <2>3, <3>1, <3>2, Zenon
    <3> QED
      BY <3>1, <3>3
  <2>8. f[j + 1].order = Append(x.order, name)
    <3>1. CASE j = 0
      BY <2>1, <2>6, <3>1 DEF IsAdding
    <3>2. CASE j # 0
      <4>1. f[j].asList[name] # <<>>
        BY <2>1, <3>2
      <4>2. Has(f[j], name)
        BY <2>1, <4>1 DEF Agrees
      <4> QED
        BY <2>1, <2>6, <3>2, <4>2
    <3> QED
      BY <3>1, <3>2
  <2>9. j + 1 # 0
    OBVIOUS
  <2>10. f[j + 1].asList[name] = Append(l, vs[j + 1])
    BY <2>6
  <2>11. \A m \in Header : m # name => f[j + 1].asList[m] = x.asList[m]
    BY <2>1, <2>6
  <2> HIDE DEF l
  <2> QED
    BY <2>5, <2>7, <2>8, <2>9, <2>10, <2>11, Zenon
<1>6. n \in Js
  <2> HIDE DEF Js
  <2> QED
    BY <1>1, <1>4, <1>5, SetInduction
<1>7. Upto(n)
  BY <1>1, <1>6
<1>8. f[n].asList[name] = vs
  <2>1. f[n].asList[name] \in Seq(Value)
    BY <1>7 DEF Agrees, HeadersObject
  <2> QED
    BY <1>7, <2>1, SeqEqual DEF n
<1> QED
  BY <1>1, <1>7, <1>8 DEF n, IsWith

\* Where get_all() has the values of each name.
LEMMA GetAllPositions ==
    ASSUME NEW o, Agrees(o)
    PROVE  /\ GetAll(o) \in Seq(Header \X Value)
           /\ \E E \in [0 .. Len(o.order) -> Nat] :
                 /\ E[0] = 0 /\ E[Len(o.order)] = Len(GetAll(o))
                 /\ \A i \in 1 .. Len(o.order) :
                       /\ E[i] = E[i - 1] + Len(o.asList[o.order[i]])
                       /\ E[i] <= Len(GetAll(o))
                       /\ \A j \in 1 .. Len(o.asList[o.order[i]]) :
                             GetAll(o)[E[i - 1] + j] = <<o.order[i], o.asList[o.order[i]][j]>>
<1> DEFINE n == Len(o.order)
           l(i) == o.asList[o.order[i]]
           block(i) == [j \in DOMAIN l(i) |-> <<o.order[i], l(i)[j]>>]
           ss == [i \in DOMAIN o.order |-> block(i)]
<1>1. n \in Nat /\ DOMAIN o.order = 1 .. n /\ \A i \in 1 .. n : o.order[i] \in Header
  BY DEF Agrees, HeadersObject
<1>2. \A i \in 1 .. n : l(i) \in Seq(Value)
  BY <1>1 DEF Agrees, HeadersObject
<1>3. ASSUME NEW i \in 1 .. n
      PROVE  /\ block(i) \in Seq(Header \X Value)
             /\ Len(block(i)) = Len(l(i))
             /\ \A j \in 1 .. Len(l(i)) : block(i)[j] = <<o.order[i], l(i)[j]>>
  <2> DEFINE s == l(i)
  <2>1. s \in Seq(Value) /\ o.order[i] \in Header
    BY <1>1, <1>2
  <2> HIDE DEF s
  <2>2. Len(s) \in Nat /\ DOMAIN s = 1 .. Len(s) /\ \A j \in 1 .. Len(s) : s[j] \in Value
    BY <2>1
  <2> DEFINE b == [j \in 1 .. Len(s) |-> <<o.order[i], s[j]>>]
  <2>3. b \in [1 .. Len(s) -> Header \X Value] /\ \A j \in 1 .. Len(s) : b[j] = <<o.order[i], s[j]>>
    BY <2>1, <2>2
  <2> HIDE DEF b
  <2>4. b \in Seq(Header \X Value) /\ Len(b) = Len(s)
    BY <2>2, <2>3
  <2>5. block(i) = b
    BY <2>2, Zenon DEF b, s
  <2> QED
    BY <2>3, <2>4, <2>5, Zenon DEF s
<1>4. GetAll(o) = FlattenSeq(ss)
  BY Zenon DEF GetAll
<1>5. \A i \in 1 .. n : ss[i] = block(i)
  BY <1>1, Zenon
<1>6. ss \in Seq(Seq(Header \X Value)) /\ Len(ss) = n
  <2>1. ss = [i \in 1 .. n |-> ss[i]]
    BY <1>1, Zenon
  <2>2. \A i \in 1 .. n : ss[i] \in Seq(Header \X Value)
    BY <1>3, <1>5, Zenon
  <2> HIDE DEF ss, n
  <2>3. ss \in [1 .. n -> Seq(Header \X Value)]
    BY <2>1, <2>2, Zenon
  <2> QED
    BY <1>1, <2>3
<1> HIDE DEF ss, n, block, l
<1>7. FlattenSeq(ss) \in Seq(Header \X Value)
  <2>1. <<>> \in Seq(Header \X Value)
    OBVIOUS
  <2> QED
    BY <1>6, <2>1, FlattenAppend
<1>8. PICK E \in [0 .. Len(ss) -> Nat] :
         /\ E[0] = 0 /\ E[Len(ss)] = Len(FlattenSeq(ss))
         /\ \A i \in 1 .. Len(ss) :
               /\ E[i] = E[i - 1] + Len(ss[i]) /\ E[i] <= Len(FlattenSeq(ss))
               /\ \A j \in 1 .. Len(ss[i]) : FlattenSeq(ss)[E[i - 1] + j] = ss[i][j]
  BY <1>6, FlattenPositions, Zenon
<1>9. ASSUME NEW i \in 1 .. n
      PROVE  /\ E[i] = E[i - 1] + Len(l(i)) /\ E[i] <= Len(GetAll(o))
             /\ \A j \in 1 .. Len(l(i)) : GetAll(o)[E[i - 1] + j] = <<o.order[i], l(i)[j]>>
  <2>1. ss[i] = block(i) /\ Len(ss[i]) = Len(l(i)) /\ i \in 1 .. Len(ss)
    BY <1>3, <1>5, <1>6, Zenon
  <2>2. /\ E[i] = E[i - 1] + Len(ss[i]) /\ E[i] <= Len(FlattenSeq(ss))
        /\ \A j \in 1 .. Len(ss[i]) : FlattenSeq(ss)[E[i - 1] + j] = ss[i][j]
    BY <1>8, <2>1, Zenon
  <2> QED
    BY <1>3, <1>4, <2>1, <2>2, Zenon
<1>10. E \in [0 .. n -> Nat] /\ E[0] = 0 /\ E[n] = Len(GetAll(o))
  BY <1>4, <1>6, <1>8, Zenon
<1>11. GetAll(o) \in Seq(Header \X Value)
  BY <1>4, <1>7, Zenon
<1> QED
  BY <1>9, <1>10, <1>11, Zenon DEF n, l

\* Adding every pair of get_all() in turn, each value changed by W, makes an
\* object with the same names in the same order and the changed values.
LEMMA Rebuild ==
    ASSUME NEW o, Agrees(o), NEW W \in [Value -> Value],
           NEW g \in [0 .. Len(GetAll(o)) -> HeadersObject], g[0] = Empty,
           \A i \in 1 .. Len(GetAll(o)) :
              g[i] = Add(g[i - 1], GetAll(o)[i][1], W[GetAll(o)[i][2]])
    PROVE  LET r == g[Len(GetAll(o))] IN
           /\ Agrees(r)
           /\ r.order = o.order
           /\ \A n \in Header : r.asList[n] = [k \in 1 .. Len(o.asList[n]) |-> W[o.asList[n][k]]]
<1> DEFINE all == GetAll(o)
           n == Len(o.order)
           l(m) == o.asList[m]
           copy(m) == [k \in 1 .. Len(l(m)) |-> W[l(m)[k]]]
<1>1. PICK E \in [0 .. n -> Nat] :
         /\ E[0] = 0 /\ E[n] = Len(all)
         /\ \A i \in 1 .. n :
               /\ E[i] = E[i - 1] + Len(l(o.order[i])) /\ E[i] <= Len(all)
               /\ \A j \in 1 .. Len(l(o.order[i])) :
                     all[E[i - 1] + j] = <<o.order[i], l(o.order[i])[j]>>
  BY GetAllPositions, Zenon
<1>2. all \in Seq(Header \X Value) /\ Len(all) \in Nat
  BY GetAllPositions
<1>3. n \in Nat /\ o.order \in Seq(Header) /\ DOMAIN o.order = 1 .. n
      /\ \A i \in 1 .. n : o.order[i] \in Header
  BY DEF Agrees, HeadersObject
<1>4. ASSUME NEW m \in Header
      PROVE  /\ l(m) \in Seq(Value) /\ Len(l(m)) \in Nat
             /\ copy(m) \in Seq(Value) /\ Len(copy(m)) = Len(l(m))
             /\ \A k \in 1 .. Len(l(m)) : l(m)[k] \in Value /\ copy(m)[k] = W[l(m)[k]]
  <2> DEFINE s == l(m)
             c == [k \in 1 .. Len(s) |-> W[s[k]]]
  <2>1. s \in Seq(Value)
    BY DEF Agrees, HeadersObject
  <2> HIDE DEF s
  <2>2. Len(s) \in Nat /\ \A k \in 1 .. Len(s) : s[k] \in Value
    BY <2>1
  <2>3. c \in [1 .. Len(s) -> Value] /\ \A k \in 1 .. Len(s) : c[k] = W[s[k]]
    BY <2>2
  <2> HIDE DEF c
  <2>4. c \in Seq(Value) /\ Len(c) = Len(s)
    BY <2>2, <2>3, FunctionIsSeq
  <2>5. copy(m) = c
    BY Zenon DEF c, s
  <2> QED
    BY <2>1, <2>2, <2>3, <2>4, <2>5, Zenon DEF s
<1>5. \A i \in 1 .. n : Len(l(o.order[i])) # 0
  <2>1. \A i \in 1 .. n : Has(o, o.order[i])
    BY <1>3 DEF Agrees, ToSet
  <2>2. \A i \in 1 .. n : l(o.order[i]) # <<>>
    BY <1>3, <2>1 DEF Agrees
  <2>3. \A s \in Seq(Value) : s # <<>> => Len(s) # 0
    OBVIOUS
  <2> HIDE DEF l
  <2> QED
    BY <1>3, <1>4, <2>2, <2>3, Zenon
<1>6. \A i, j \in 1 .. n : o.order[i] = o.order[j] => i = j
  BY <1>3 DEF Agrees, IsInjective
<1>7. \A m \in Header : Len(l(m)) # 0 => \E i \in 1 .. n : o.order[i] = m
  <2>1. \A m \in Header : Len(l(m)) # 0 => Has(o, m)
    BY DEF Agrees
  <2> QED
    BY <1>3, <2>1 DEF Agrees, ToSet
<1> HIDE DEF all, n, l, copy
<1> DEFINE Upto(i) ==
      /\ Agrees(g[E[i]])
      /\ Len(g[E[i]].order) = i
      /\ \A k \in 1 .. i : g[E[i]].order[k] = o.order[k]
      /\ \A m \in Header : g[E[i]].asList[m] =
            IF \E k \in 1 .. i : o.order[k] = m THEN copy(m) ELSE <<>>
           Is == {i \in Nat : i <= n => Upto(i)}
<1>8. 0 \in Is
  <2>1. E[0] = 0 /\ g[0] = Empty
    BY <1>1
  <2>2. Empty.order = <<>> /\ Len(<<>>) = 0 /\ 1 .. 0 = {}
    BY DEF Empty
  <2>3. \A m \in Header : Empty.asList[m] = <<>>
    BY DEF Empty
  <2> QED
    BY <2>1, <2>2, <2>3, EmptyAgrees
<1>9. ASSUME NEW i \in Nat, i \in Is
      PROVE  i + 1 \in Is
  <2> SUFFICES ASSUME i + 1 <= n
               PROVE  Upto(i + 1)
    OBVIOUS
  <2>1. Upto(i)
    BY <1>3, <1>9
  <2> DEFINE name == o.order[i + 1]
             vs == copy(name)
             x == g[E[i]]
             f == [j \in 0 .. Len(vs) |-> g[E[i] + j]]
  <2>2. i + 1 \in 1 .. n /\ (i + 1) - 1 = i /\ i \in 0 .. n /\ i + 1 \in 0 .. n
    BY <1>3
  <2>3. name \in Header
    BY <1>3, <2>2
  <2>4. /\ E[i + 1] = E[i] + Len(l(name)) /\ E[i + 1] <= Len(all)
        /\ \A j \in 1 .. Len(l(name)) : all[E[i] + j] = <<name, l(name)[j]>>
        /\ E[i] \in Nat /\ E[i + 1] \in Nat
    BY <1>1, <2>2
  <2>5. /\ l(name) \in Seq(Value) /\ Len(l(name)) \in Nat
        /\ vs \in Seq(Value) /\ Len(vs) = Len(l(name)) /\ Len(vs) # 0
        /\ \A k \in 1 .. Len(vs) : l(name)[k] \in Value /\ vs[k] = W[l(name)[k]]
    BY <1>4, <1>5, <2>2, <2>3
  <2>6. \A k \in 1 .. i : o.order[k] # name
    <3>1. n \in Nat
      BY <1>3
    <3>2. \A k \in 1 .. i : k \in 1 .. n /\ k # i + 1
      BY <2>2, <3>1
    <3> QED
      BY <1>6, <2>2, <3>2, Zenon
  <2>7. Agrees(x) /\ ~Has(x, name)
    BY <2>1, <2>3, <2>6 DEF Agrees
  <2> HIDE DEF vs, name, x
  <2>8. \A j \in 0 .. Len(vs) : E[i] + j \in 0 .. Len(all) /\ f[j] = g[E[i] + j]
    BY <1>2, <2>4, <2>5
  <2>9. f \in [0 .. Len(vs) -> HeadersObject]
    BY <2>8 DEF all
  <2>10. f[0] = x
    BY <2>4, <2>5, <2>8 DEF x
  <2>11. ASSUME NEW j \in 1 .. Len(vs)
         PROVE  f[j] = Add(f[j - 1], name, vs[j])
    <3>1. /\ E[i] + j \in 1 .. Len(all) /\ j - 1 \in 0 .. Len(vs) /\ j \in 0 .. Len(vs)
          /\ (E[i] + j) - 1 = E[i] + (j - 1)
      BY <1>2, <2>4, <2>5, <2>8
    <3>2. g[E[i] + j] = Add(g[(E[i] + j) - 1], all[E[i] + j][1], W[all[E[i] + j][2]])
      BY <3>1, Zenon DEF all
    <3>3. all[E[i] + j] = <<name, l(name)[j]>>
      BY <2>4, <2>5
    <3>4. g[E[i] + j] = Add(g[E[i] + (j - 1)], name, W[l(name)[j]])
      BY <3>1, <3>2, <3>3
    <3>5. f[j - 1] = g[E[i] + (j - 1)] /\ f[j] = g[E[i] + j] /\ vs[j] = W[l(name)[j]]
      BY <2>5, <2>8, <3>1
    <3> QED
      BY <3>4, <3>5, Zenon
  <2>12. vs # <<>>
    BY <2>5
  <2> HIDE DEF f
  <2>13. /\ Agrees(f[Len(vs)])
         /\ f[Len(vs)].order = Append(x.order, name)
         /\ \A m \in Header : f[Len(vs)].asList[m] = IF m = name THEN vs ELSE x.asList[m]
    <3>1. vs \in Seq(Value)
      BY <2>5
    <3>2. IsAdding(f, x, name, vs)
      BY <2>10, <2>11, Zenon DEF IsAdding
    <3>3. IsWith(f[Len(vs)], x, name, vs)
      BY <2>3, <2>7, <2>9, <2>12, <3>1, <3>2, AddAllOfName
    <3> QED
      BY <3>3, Zenon DEF IsWith
  <2>14. f[Len(vs)] = g[E[i + 1]]
    BY <2>4, <2>5, <2>8
  <2>15. /\ Len(g[E[i + 1]].order) = i + 1
         /\ \A k \in 1 .. (i + 1) : g[E[i + 1]].order[k] = o.order[k]
    <3>1. x.order \in Seq(Header) /\ Len(x.order) = i /\ \A k \in 1 .. i : x.order[k] = o.order[k]
      BY <2>1, <2>7 DEF Agrees, HeadersObject, x
    <3> DEFINE y == x.order
    <3> HIDE DEF y
    <3>2. /\ Len(Append(y, name)) = i + 1 /\ Append(y, name)[i + 1] = name
          /\ \A k \in 1 .. i : Append(y, name)[k] = y[k]
      BY <2>3, <3>1, AppendProperties DEF y
    <3>3. g[E[i + 1]].order = Append(y, name)
      BY <2>13, <2>14 DEF y
    <3> QED
      BY <3>1, <3>2, <3>3 DEF name, y
  <2>16. ASSUME NEW m \in Header
         PROVE  g[E[i + 1]].asList[m] =
                   IF \E k \in 1 .. (i + 1) : o.order[k] = m THEN copy(m) ELSE <<>>
    <3>1. g[E[i + 1]].asList[m] = IF m = name THEN vs ELSE x.asList[m]
      BY <2>13, <2>14
    <3>2. (\E k \in 1 .. (i + 1) : o.order[k] = m) <=> m = name \/ \E k \in 1 .. i : o.order[k] = m
      BY DEF name
    <3>3. x.asList[m] = IF \E k \in 1 .. i : o.order[k] = m THEN copy(m) ELSE <<>>
      BY <2>1, Zenon DEF x
    <3> QED
      BY <3>1, <3>2, <3>3, Zenon DEF vs
  <2> QED
    BY <2>13, <2>14, <2>15, <2>16, Zenon
<1>10. n \in Is
  <2> HIDE DEF Is
  <2> QED
    BY <1>3, <1>8, <1>9, SetInduction
<1>11. Upto(n) /\ E[n] = Len(all)
  <2>1. n <= n
    BY <1>3
  <2> QED
    BY <1>1, <1>10, <2>1, Zenon
<1> DEFINE r == g[E[n]]
<1>12. r.order = o.order
  <2>1. r.order \in Seq(Header)
    BY <1>11 DEF Agrees, HeadersObject
  <2> QED
    BY <1>3, <1>11, <2>1, SeqEqual DEF n
<1>13. ASSUME NEW m \in Header
       PROVE  r.asList[m] = copy(m)
  <2>1. CASE \E k \in 1 .. n : o.order[k] = m
    BY <1>11, <2>1
  <2>2. CASE ~(\E k \in 1 .. n : o.order[k] = m)
    <3>1. Len(copy(m)) = 0 /\ copy(m) \in Seq(Value)
      BY <1>4, <1>7, <2>2
    <3>2. \A s \in Seq(Value) : Len(s) = 0 => s = <<>>
      OBVIOUS
    <3> QED
      BY <1>11, <2>2, <3>1, <3>2
  <2> QED
    BY <2>1, <2>2
<1> QED
  BY <1>11, <1>12, <1>13, Zenon DEF copy, l, all

-----------------------------------------------------------------------------
\* A copy made from the object is equal to it.
LEMMA CopyIsEqual ==
    ASSUME NEW o, Agrees(o)
    PROVE  FromPairs(GetAll(o)) = o
<1> DEFINE all == GetAll(o)
           W == [v \in Value |-> v]
<1>1. all \in Seq(Header \X Value)
  BY GetAllPositions
<1>2. PICK g \in [0 .. Len(all) -> HeadersObject] :
         /\ g[0] = Empty
         /\ \A i \in 1 .. Len(all) : g[i] = Add(g[i - 1], all[i][1], all[i][2])
         /\ FromPairs(all) = g[Len(all)]
  BY <1>1, FromPairsLoop, Zenon
<1>3. \A i \in 1 .. Len(all) : all[i][2] \in Value
  BY <1>1
<1>4. W \in [Value -> Value] /\ \A v \in Value : W[v] = v
  OBVIOUS
<1> HIDE DEF W
<1>5. \A i \in 1 .. Len(all) : g[i] = Add(g[i - 1], all[i][1], W[all[i][2]])
  BY <1>2, <1>3, <1>4, Zenon
<1> DEFINE r == g[Len(all)]
<1>6. /\ Agrees(r) /\ r.order = o.order
      /\ \A n \in Header : r.asList[n] = [k \in 1 .. Len(o.asList[n]) |-> W[o.asList[n][k]]]
  BY <1>2, <1>4, <1>5, Rebuild
<1> HIDE DEF r
<1>7. ASSUME NEW n \in Header
      PROVE  r.asList[n] = o.asList[n]
  <2> DEFINE s == o.asList[n]
  <2>1. s \in Seq(Value)
    BY DEF Agrees, HeadersObject
  <2> HIDE DEF s
  <2>2. \A k \in 1 .. Len(s) : W[s[k]] = s[k]
    BY <1>4, <2>1
  <2>3. s = [k \in 1 .. Len(s) |-> s[k]]
    BY <2>1
  <2>4. [k \in 1 .. Len(s) |-> W[s[k]]] = [k \in 1 .. Len(s) |-> s[k]]
    BY <2>2, Zenon
  <2> QED
    BY <1>6, <2>3, <2>4, Zenon DEF s
<1>8. ASSUME NEW n \in Header
      PROVE  r.dict[n] = o.dict[n]
  <2>1. r.dict[n] = FlattenSeq(r.asList[n]) /\ o.dict[n] = FlattenSeq(o.asList[n])
    BY <1>6 DEF Agrees
  <2> QED
    BY <1>7, <2>1
<1>9. r \in HeadersObject /\ o \in HeadersObject
  BY <1>6 DEF Agrees
<1>10. r.dict = o.dict /\ r.asList = o.asList
  BY <1>7, <1>8, <1>9 DEF HeadersObject
<1>11. r = o
  <2>1. \A x \in HeadersObject : x = [dict |-> x.dict, asList |-> x.asList, order |-> x.order]
    BY DEF HeadersObject
  <2> QED
    BY <1>6, <1>9, <1>10, <2>1, Zenon
<1> QED
  BY <1>2, <1>11 DEF r

\* Parsing what str() writes gives the object back, less outer blanks.
LEMMA ParsedBack ==
    ASSUME NEW o, Agrees(o)
    PROVE  LET back == Parse(ToLines(o)) IN
           /\ back.order = o.order
           /\ \A n \in Header :
                 back.asList[n] = [i \in DOMAIN o.asList[n] |-> Strip(o.asList[n][i])]
<1> DEFINE all == GetAll(o)
           W == [v \in Value |-> Strip(v)]
<1>1. all \in Seq(Header \X Value)
  BY GetAllPositions
<1>2. PICK g \in [0 .. Len(all) -> HeadersObject] :
         /\ g[0] = Empty
         /\ \A i \in 1 .. Len(all) : g[i] = Add(g[i - 1], all[i][1], Strip(all[i][2]))
         /\ Parse(all) = g[Len(all)]
  BY <1>1, ParseLoop, Zenon
<1>3. \A i \in 1 .. Len(all) : all[i][2] \in Value
  BY <1>1
<1>4. W \in [Value -> Value] /\ \A v \in Value : W[v] = Strip(v)
  BY StripTyped
<1> HIDE DEF W
<1>5. \A i \in 1 .. Len(all) : g[i] = Add(g[i - 1], all[i][1], W[all[i][2]])
  BY <1>2, <1>3, <1>4, Zenon
<1> DEFINE r == g[Len(all)]
<1>6. /\ r.order = o.order
      /\ \A n \in Header : r.asList[n] = [k \in 1 .. Len(o.asList[n]) |-> W[o.asList[n][k]]]
  BY <1>2, <1>4, <1>5, Rebuild
<1> HIDE DEF r
<1>7. ASSUME NEW n \in Header
      PROVE  r.asList[n] = [k \in DOMAIN o.asList[n] |-> Strip(o.asList[n][k])]
  <2> DEFINE s == o.asList[n]
  <2>1. s \in Seq(Value)
    BY DEF Agrees, HeadersObject
  <2> HIDE DEF s
  <2>2. \A k \in 1 .. Len(s) : W[s[k]] = Strip(s[k])
    BY <1>4, <2>1
  <2>3. DOMAIN s = 1 .. Len(s)
    BY <2>1
  <2>4. [k \in 1 .. Len(s) |-> W[s[k]]] = [k \in DOMAIN s |-> Strip(s[k])]
    BY <2>2, <2>3, Zenon
  <2> QED
    BY <1>6, <2>4, Zenon DEF s
<1> QED
  BY <1>2, <1>6, <1>7, Zenon DEF r, ToLines

HeadersInv == Agrees(h)

\* After any mixture of add(), parse_line(), assignments and deletions under any
\* spelling, _dict holds the join of what _as_list holds, a copy made from
\* get_all() is equal, and parse() gives back what str() wrote, less outer blanks.
THEOREM HeadersCorrect == HeadersSpec => []HeadersAgree
<1>1. HeadersInit => HeadersInv
  BY EmptyAgrees DEF HeadersInit, HeadersInv
<1>2. HeadersInv /\ [HeadersNext]_h => HeadersInv'
  <2> SUFFICES ASSUME Agrees(h), [HeadersNext]_h
               PROVE  Agrees(h')
    BY DEF HeadersInv
  <2>1. \A v \in Text : v \in Value
    BY HeadersAssumption DEF Value
  <2>2. ASSUME NEW name \in Spelling, NEW v \in Text, h' = Add(h, name, v)
        PROVE  Agrees(h')
    BY <2>1, <2>2, AddAgrees
  <2>3. ASSUME NEW name \in Spelling, NEW v \in Text, h' = ParseLine(h, <<name, v>>)
        PROVE  Agrees(h')
    BY <2>1, <2>3, StripTyped, AddAgrees DEF ParseLine
  <2>4. ASSUME NEW name \in Spelling, NEW v \in Text, h' = SetItem(h, name, v)
        PROVE  Agrees(h')
    BY <2>1, <2>4, SetItemAgrees
  <2>5. ASSUME NEW name \in Spelling, Has(h, Normal[name]), h' = DelItem(h, name)
        PROVE  Agrees(h')
    BY <2>5, DelItemAgrees
  <2>6. CASE UNCHANGED h
    BY <2>6
  <2> QED
    BY <2>2, <2>3, <2>4, <2>5, <2>6 DEF HeadersNext
<1>3. HeadersInv => HeadersAgree
  BY CopyIsEqual, ParsedBack DEF HeadersInv, Agrees, HeadersAgree
<1> QED
  BY <1>1, <1>2, <1>3, PTL DEF HeadersSpec

-----------------------------------------------------------------------------
(* multi(). *)

Node == Leaf \cup Call

\* One turn of Within.
KeepIn(q, x, T) == IF x \in T THEN Append(q, x) ELSE q

\* A sequence has its elements in every larger set.
LEMMA SeqOfMore ==
    ASSUME NEW S, NEW T, S \subseteq T, NEW s \in Seq(S)
    PROVE  s \in Seq(T)
<1>1. s \in [1 .. Len(s) -> T] /\ Len(s) \in Nat
  OBVIOUS
<1> QED
  BY <1>1, FunctionIsSeq

\* What Within keeps is in both sets.
LEMMA WithinTyped ==
    ASSUME NEW S, NEW T, NEW s \in Seq(S)
    PROVE  Within(s, T) \in Seq(S \cap T)
<1> DEFINE n == Len(s)
           D == Seq(S \cap T)
           G == [i \in Nat |-> [q \in D |-> IF i \in 1 .. n THEN KeepIn(q, s[i], T) ELSE q]]
           iter == CHOOSE f : f = [I \in SUBSET DOMAIN s |->
                                     IF I = {} THEN <<>>
                                     ELSE KeepIn(f[I \ {Max(I)}], s[Max(I)], T)]
<1>1. n \in Nat /\ DOMAIN s = 1 .. n /\ \A i \in 1 .. n : i \in Nat /\ s[i] \in S
  OBVIOUS
<1>2. ASSUME NEW q \in D, NEW i \in 1 .. n
      PROVE  KeepIn(q, s[i], T) \in D
  BY <1>1, AppendProperties DEF KeepIn
<1>3. <<>> \in D
  OBVIOUS
<1>4. G \in [Nat -> [D -> D]]
  <2> HIDE DEF D
  <2> QED
    BY <1>2
<1> HIDE DEF D
<1>5. \A i \in 1 .. n, q \in D : G[i][q] = KeepIn(q, s[i], T)
  BY <1>1, Zenon
<1>6. Within(s, T) = iter[DOMAIN s]
  BY Zenon DEF Within, FoldLeft, MapThenFoldSet, KeepIn
<1> HIDE DEF n, G
<1>7. PICK f \in [SUBSET (1 .. n) -> D] : IsFold(f, D, <<>>, G, n)
  BY <1>1, <1>3, <1>4, FoldExists
<1>8. \A I \in SUBSET (1 .. n) : I # {} => Max(I) \in 1 .. n /\ I \ {Max(I)} \in SUBSET (1 .. n)
  BY <1>1, MaxIsIn
<1>9. \A I \in SUBSET (1 .. n) :
         f[I] = IF I = {} THEN <<>> ELSE KeepIn(f[I \ {Max(I)}], s[Max(I)], T)
  BY <1>5, <1>7, <1>8, Zenon DEF IsFold
<1>10. f = [I \in SUBSET (1 .. n) |->
              IF I = {} THEN <<>> ELSE KeepIn(f[I \ {Max(I)}], s[Max(I)], T)]
  <2>1. f = [I \in SUBSET (1 .. n) |-> f[I]]
    OBVIOUS
  <2> QED
    BY <1>9, <2>1, Zenon
<1>11. iter = [I \in SUBSET (1 .. n) |->
                 IF I = {} THEN <<>> ELSE KeepIn(iter[I \ {Max(I)}], s[Max(I)], T)]
  BY <1>1, <1>10, Zenon
<1> HIDE DEF iter
<1>12. \A I \in SUBSET (1 .. n) :
         iter[I] = IF I = {} THEN <<>> ELSE KeepIn(iter[I \ {Max(I)}], s[Max(I)], T)
  BY <1>11, Zenon
<1>13. IsFold(iter, D, <<>>, G, n)
  <2>1. {} \in SUBSET (1 .. n)
    OBVIOUS
  <2> QED
    BY <1>5, <1>8, <1>12, <2>1, Zenon DEF IsFold
<1>14. PICK g \in [0 .. n -> D] : iter[1 .. n] = g[n]
  <2>1. \A u : IsFold(u, D, <<>>, G, n) =>
              \E g \in [0 .. n -> D] : IsLoop(g, <<>>, G, n) /\ u[1 .. n] = g[n]
    BY <1>1, <1>3, <1>4, FoldIsLoop
  <2> QED
    BY <1>13, <2>1, Zenon
<1>15. g[n] \in D
  BY <1>1, <1>14
<1> QED
  BY <1>1, <1>6, <1>14, <1>15 DEF D

\* The recursive definition of the result has a solution.
IsParallel(f, N) ==
    f = [n \in N |-> IF n \in Leaf THEN n ELSE [k \in DOMAIN Children[n] |-> f[Children[n][k]]]]

\* The calls, by their positions: the children of one are leaves or calls before it.
LEMMA CallsInOrder ==
    /\ Len(Calls) \in Nat \ {0} /\ Call = {Calls[i] : i \in 1 .. Len(Calls)} /\ Call \cap Leaf = {}
    /\ Outer = Calls[Len(Calls)] /\ Outer \in Call
    /\ \A i, j \in 1 .. Len(Calls) : Calls[i] = Calls[j] => i = j
    /\ \A i \in 1 .. Len(Calls) :
          /\ Children[Calls[i]] \in Seq(Leaf \cup {Calls[j] : j \in 1 .. i - 1})
          /\ \A k \in DOMAIN Children[Calls[i]] :
                Children[Calls[i]][k] \in Leaf \cup {Calls[j] : j \in 1 .. i - 1}
<1>1. Len(Calls) \in Nat \ {0} /\ DOMAIN Calls = 1 .. Len(Calls)
  BY MultiAssumption
<1>2. Call = {Calls[i] : i \in 1 .. Len(Calls)} /\ Call \cap Leaf = {}
  BY <1>1, MultiAssumption DEF Call, ToSet
<1>3. \A i, j \in 1 .. Len(Calls) : Calls[i] = Calls[j] => i = j
  BY <1>1, MultiAssumption DEF IsInjective
<1>4. \A i \in 1 .. Len(Calls) : Children[Calls[i]] \in Seq(Leaf \cup {Calls[j] : j \in 1 .. i - 1})
  BY <1>1, MultiAssumption
<1>5. Outer = Calls[Len(Calls)] /\ Outer \in Call
  BY <1>1, <1>2 DEF Outer, Last
<1>6. ASSUME NEW i \in 1 .. Len(Calls), NEW k \in DOMAIN Children[Calls[i]]
      PROVE  Children[Calls[i]][k] \in Leaf \cup {Calls[j] : j \in 1 .. i - 1}
  <2>1. \A A : \A s \in Seq(A) : \A x \in DOMAIN s : s[x] \in A
    OBVIOUS
  <2> QED
    BY <1>4, <2>1, Zenon
<1> QED
  BY <1>1, <1>2, <1>3, <1>4, <1>5, <1>6

\* The children of a call are leaves and calls.
LEMMA ChildrenAreNodes ==
    ASSUME NEW m \in Call
    PROVE  /\ Children[m] \in Seq(Node) /\ ChildSet(m) \subseteq Node
           /\ \A k \in DOMAIN Children[m] : Children[m][k] \in ChildSet(m)
           /\ DOMAIN Children[m] = 1 .. Len(Children[m]) /\ Len(Children[m]) \in Nat
<1>1. PICK i \in 1 .. Len(Calls) : m = Calls[i]
  BY CallsInOrder
<1>2. {Calls[j] : j \in 1 .. i - 1} \subseteq Call
  BY CallsInOrder
<1>3. Children[m] \in Seq(Leaf \cup {Calls[j] : j \in 1 .. i - 1})
  BY <1>1, CallsInOrder
<1>4. Children[m] \in Seq(Node)
  <2> DEFINE A == Leaf \cup {Calls[j] : j \in 1 .. i - 1}
  <2>1. A \subseteq Node /\ Children[m] \in Seq(A)
    BY <1>2, <1>3 DEF Node
  <2> HIDE DEF A
  <2> QED
    BY <2>1, SeqOfMore
<1> QED
  BY <1>4 DEF ChildSet, ToSet

\* The parallel structure of a call is made of those of its children: by induction
\* over the calls, the function that is so exists.
LEMMA ParallelIs ==
    /\ \A n \in Leaf : Parallel[n] = n
    /\ \A m \in Call : Parallel[m] = [k \in DOMAIN Children[m] |-> Parallel[Children[m][k]]]
<1> DEFINE N(i) == Leaf \cup {Calls[j] : j \in 1 .. i}
           Ks == {i \in Nat : i <= Len(Calls) => \E f : IsParallel(f, N(i))}
<1>1. 0 \in Ks
  <2> DEFINE f == [n \in N(0) |-> n]
  <2>1. N(0) = Leaf
    OBVIOUS
  <2>2. IsParallel(f, N(0))
    BY <2>1, Zenon DEF IsParallel
  <2> HIDE DEF f
  <2> QED
    BY <2>2, Zenon
<1>2. ASSUME NEW i \in Nat, i \in Ks
      PROVE  i + 1 \in Ks
  <2> SUFFICES ASSUME i + 1 <= Len(Calls)
               PROVE  \E f : IsParallel(f, N(i + 1))
    <3>1. i + 1 \in Nat
      OBVIOUS
    <3> QED
      BY <3>1, Zenon
  <2>1. i + 1 \in 1 .. Len(Calls) /\ i <= Len(Calls) /\ (i + 1) - 1 = i
    BY CallsInOrder
  <2>2. PICK f : IsParallel(f, N(i))
    BY <1>2, <2>1
  <2> DEFINE c == Calls[i + 1]
             g == [n \in N(i + 1) |-> IF n = c THEN [k \in DOMAIN Children[c] |-> f[Children[c][k]]]
                                      ELSE f[n]]
  <2>3. \A n \in N(i + 1) : n # c => n \in N(i)
    BY <2>1
  <2>4. c \notin N(i) /\ c \notin Leaf /\ c \in N(i + 1)
    <3>1. c \notin Leaf
      BY <2>1, CallsInOrder
    <3>2. \A j \in 1 .. i : j \in 1 .. Len(Calls) /\ j # i + 1
      BY <2>1
    <3>3. \A j \in 1 .. i : Calls[j] # c
      BY <2>1, <3>2, CallsInOrder
    <3> QED
      BY <3>1, <3>3
  <2>5. \A n \in N(i) : n \in N(i + 1) /\ n # c
    BY <2>4
  <2>6. \A n \in N(i) : g[n] = f[n]
    BY <2>5
  <2>7. \A n \in N(i) : n \notin Leaf => \A k \in DOMAIN Children[n] : Children[n][k] \in N(i)
    <3> SUFFICES ASSUME NEW n \in N(i), n \notin Leaf, NEW k \in DOMAIN Children[n]
                 PROVE  Children[n][k] \in N(i)
      OBVIOUS
    <3>1. PICK j \in 1 .. i : n = Calls[j]
      OBVIOUS
    <3>2. j \in 1 .. Len(Calls) /\ \A x \in 1 .. j - 1 : x \in 1 .. i
      BY <2>1
    <3>3. Children[n][k] \in Leaf \cup {Calls[x] : x \in 1 .. j - 1}
      BY <3>1, <3>2, CallsInOrder, Zenon
    <3> QED
      BY <3>2, <3>3
  <2>8. \A k \in DOMAIN Children[c] : Children[c][k] \in N(i)
    BY <2>1, CallsInOrder
  <2> DEFINE H(u, n) == IF n \in Leaf THEN n ELSE [k \in DOMAIN Children[n] |-> u[Children[n][k]]]
  <2>9. \A n \in N(i) : f[n] = H(f, n)
    BY <2>2, Zenon DEF IsParallel
  <2>10. g[c] = [k \in DOMAIN Children[c] |-> f[Children[c][k]]]
    BY <2>4
  <2>11. g = [n \in N(i + 1) |-> g[n]]
    BY Zenon
  <2> HIDE DEF g, N
  <2>12. \A n \in N(i) : g[n] = H(g, n)
    <3> TAKE n \in N(i)
    <3>1. CASE n \in Leaf
      BY <2>6, <2>9, <3>1, Zenon
    <3>2. CASE n \notin Leaf
      <4>1. \A k \in DOMAIN Children[n] : g[Children[n][k]] = f[Children[n][k]]
        BY <2>6, <2>7, <3>2, Zenon
      <4>2. g[n] = [k \in DOMAIN Children[n] |-> f[Children[n][k]]]
        BY <2>6, <2>9, <3>2, Zenon
      <4> QED
        BY <3>2, <4>1, <4>2, Zenon
    <3> QED
      BY <3>1, <3>2
  <2>13. g[c] = H(g, c)
    BY <2>4, <2>6, <2>8, <2>10
  <2>14. \A n \in N(i + 1) : g[n] = H(g, n)
    BY <2>3, <2>12, <2>13, Zenon
  <2>15. IsParallel(g, N(i + 1))
    BY <2>11, <2>14, Zenon DEF IsParallel
  <2> QED
    BY <2>15, Zenon
<1>3. N(Len(Calls)) = Leaf \cup Call
  BY CallsInOrder
<1>4. \E f : IsParallel(f, Leaf \cup Call)
  <2>1. \A i \in Nat : i \in Ks
    <3> HIDE DEF Ks
    <3> QED
      BY <1>1, <1>2, SetInduction
  <2>2. Len(Calls) \in Nat /\ Len(Calls) <= Len(Calls)
    BY CallsInOrder
  <2>3. \E f : IsParallel(f, N(Len(Calls)))
    BY <2>1, <2>2
  <2> QED
    BY <1>3, <2>3
<1>5. IsParallel(Parallel, Leaf \cup Call)
  BY <1>4, Zenon DEF Parallel, IsParallel
<1>6. \A n \in Leaf \cup Call :
         Parallel[n] = IF n \in Leaf THEN n ELSE [k \in DOMAIN Children[n] |-> Parallel[Children[n][k]]]
  BY <1>5, Zenon DEF IsParallel
<1>7. \A m \in Call : m \notin Leaf
  BY CallsInOrder
<1> QED
  BY <1>6, <1>7, Zenon

\* What a Future of n may become.
Outcome(n) == {Pending, Cancelled, Ok(Parallel[n])} \cup {Failed(x) : x \in Leaf}

\* The callbacks that may be queued: gather()'s for a child that is done, and
\* callback() of a call whose gather() is.
Queued ==
    {e \in [run : {"gather", "callback"}, call : Call, child : Node] :
        /\ e.run = "gather" => e.child \in ChildSet(e.call) /\ fut[e.child] # Pending
        /\ e.run = "callback" => gather[e.call] # Pending}

MultiTypeOK ==
    /\ fut \in [Node -> UNION {Outcome(n) : n \in Node}] /\ \A n \in Node : fut[n] \in Outcome(n)
    /\ gather \in [Call -> UNION {Outcome(n) : n \in Node}] /\ \A m \in Call : gather[m] \in Outcome(m)
    /\ seen \in [Call -> SUBSET Node]
    /\ ready \in Seq(Queued)

\* The children gather() has counted are done, and were no failures if it waits.
SeenDone ==
    \A m \in Call : \A n \in seen[m] :
        fut[n] # Pending /\ (gather[m] = Pending => fut[n].state = "ok")

\* gather() answers with what its children were: all results, or a leaf's failure.
GatherTrue ==
    \A m \in Call :
        /\ gather[m].state = "ok" => \A n \in ChildSet(m) : fut[n].state = "ok"
        /\ \A x \in Leaf : gather[m] = Failed(x) => fut[x] = Failed(x)

\* A leaf fails by itself, and a call as its gather().
FailedTrue == \A n, x \in Leaf : fut[n] = Failed(x) => n = x
PassedOn == \A m \in Call : fut[m] \in {Pending, Cancelled, gather[m]}

MultiInv == MultiTypeOK /\ SeenDone /\ GatherTrue /\ FailedTrue /\ PassedOn

\* The outcomes are told apart.
LEMMA OutcomesDiffer ==
    /\ Pending # Cancelled /\ Pending.state = "pending" /\ Cancelled.state = "cancelled"
    /\ \A v : /\ Ok(v) # Pending /\ Ok(v) # Cancelled /\ Ok(v).state = "ok" /\ Ok(v).value = v
              /\ Failed(v) # Pending /\ Failed(v) # Cancelled /\ Failed(v).state = "failed"
              /\ Failed(v).value = v
              /\ \A w : Failed(v) # Ok(w) /\ (Failed(v) = Failed(w) => v = w)
BY DEF Pending, Cancelled, Ok, Failed

\* What the state of a Future says of it.
LEMMA OutcomeStates ==
    ASSUME NEW n, NEW o \in Outcome(n)
    PROVE  /\ o.state \in {"pending", "ok", "failed", "cancelled"}
           /\ (o.state = "pending") = (o = Pending)
           /\ (o.state = "cancelled") = (o = Cancelled)
           /\ (o.state = "ok") = (o = Ok(Parallel[n]))
           /\ (o.state = "failed") = (\E x \in Leaf : o = Failed(x))
<1> USE OutcomesDiffer
<1>1. CASE o = Pending
  BY <1>1
<1>2. CASE o = Cancelled
  BY <1>2
<1>3. CASE o = Ok(Parallel[n])
  BY <1>3
<1>4. ASSUME NEW x \in Leaf, o = Failed(x)
      PROVE  /\ o.state = "failed" /\ o # Pending /\ o # Cancelled /\ o # Ok(Parallel[n])
  BY <1>4
<1> QED
  BY <1>1, <1>2, <1>3, <1>4 DEF Outcome

\* The callbacks of the calls that n is a child of.
LEMMA WakingTyped ==
    ASSUME NEW n
    PROVE  Waking(n) \in Seq({e \in [run : {"gather"}, call : Call, child : {n}] : n \in ChildSet(e.call)})
<1> DEFINE T == {m \in Call : n \in ChildSet(m)}
           calls == Within(Calls, T)
           E == {e \in [run : {"gather"}, call : Call, child : {n}] : n \in ChildSet(e.call)}
<1>1. Calls \in Seq(Call)
  BY MultiAssumption DEF Call
<1>2. calls \in Seq(Call \cap T)
  <2> HIDE DEF T
  <2> QED
    BY <1>1, WithinTyped
<1>3. Waking(n) = [i \in DOMAIN calls |-> [run |-> "gather", call |-> calls[i], child |-> n]]
  BY Zenon DEF Waking
<1> HIDE DEF calls
<1>4. DOMAIN calls = 1 .. Len(calls) /\ Len(calls) \in Nat /\ \A i \in 1 .. Len(calls) : calls[i] \in T
  BY <1>2
<1>5. \A i \in 1 .. Len(calls) : [run |-> "gather", call |-> calls[i], child |-> n] \in E
  BY <1>4
<1>6. Waking(n) \in [1 .. Len(calls) -> E]
  <2> HIDE DEF E
  <2> QED
    BY <1>3, <1>4, <1>5
<1> HIDE DEF E
<1>7. Waking(n) \in Seq(E)
  BY <1>4, <1>6, FunctionIsSeq
<1> QED
  BY <1>7 DEF E

\* The callbacks that gather() queues at once are of children that are done.
LEMMA AlreadyDoneTyped ==
    ASSUME NEW m \in Call
    PROVE  AlreadyDone(m) \in Seq(Queued)
<1> DEFINE T == {i \in DOMAIN Children[m] :
                    /\ ConvertYielded(Children[m][i]) # Pending
                    /\ \A j \in 1 .. i - 1 : Children[m][j] # Children[m][i]}
           all == [i \in DOMAIN Children[m] |-> i]
           args == Within(all, T)
<1>1. all \in Seq(DOMAIN Children[m])
  <2>1. all \in [1 .. Len(Children[m]) -> DOMAIN Children[m]] /\ Len(Children[m]) \in Nat
    BY ChildrenAreNodes
  <2> HIDE DEF all
  <2> QED
    BY <2>1, FunctionIsSeq
<1>2. args \in Seq(DOMAIN Children[m] \cap T)
  <2> HIDE DEF T, all
  <2> QED
    BY <1>1, WithinTyped
<1>3. AlreadyDone(m) = [i \in DOMAIN args |-> [run |-> "gather", call |-> m, child |-> Children[m][args[i]]]]
  BY Zenon DEF AlreadyDone
<1> HIDE DEF args
<1>4. DOMAIN args = 1 .. Len(args) /\ Len(args) \in Nat /\ \A i \in 1 .. Len(args) : args[i] \in T
  BY <1>2
<1>5. \A k \in T : [run |-> "gather", call |-> m, child |-> Children[m][k]] \in Queued
  BY ChildrenAreNodes DEF Queued, ConvertYielded
<1> HIDE DEF T
<1>6. AlreadyDone(m) \in [1 .. Len(args) -> Queued]
  BY <1>3, <1>4, <1>5
<1> QED
  BY <1>4, <1>6, FunctionIsSeq

\* Before the call nothing is done and nothing is queued.
LEMMA MultiInitInv == MultiInit => MultiInv
<1> SUFFICES ASSUME MultiInit
             PROVE  MultiInv
  OBVIOUS
<1> USE DEF MultiInit
<1>1. \A n \in Node : Pending \in Outcome(n)
  BY DEF Outcome
<1>2. Call \subseteq Node /\ Leaf \subseteq Node /\ Leaf \cup Call = Node
  BY DEF Node
<1>3. \A n \in Node : fut[n] = Pending
  BY <1>2
<1>4. \A m \in Call : gather[m] = Pending /\ seen[m] = {}
  OBVIOUS
<1>5. MultiTypeOK
  BY <1>1, <1>2, <1>3, <1>4 DEF MultiTypeOK
<1> QED
  BY <1>2, <1>3, <1>4, <1>5, OutcomesDiffer DEF MultiInv, SeenDone, GatherTrue, FailedTrue, PassedOn

\* CallMulti queues callbacks only.
LEMMA CallMultiInv ==
    ASSUME MultiInv, CallMulti
    PROVE  MultiInv'
<1> DEFINE ss == [i \in DOMAIN Calls |-> AlreadyDone(Calls[i])]
<1>1. ss \in Seq(Seq(Queued))
  <2>1. \A i \in 1 .. Len(Calls) : AlreadyDone(Calls[i]) \in Seq(Queued)
    BY AlreadyDoneTyped, CallsInOrder
  <2>2. DOMAIN Calls = 1 .. Len(Calls) /\ Len(Calls) \in Nat
    BY MultiAssumption
  <2>3. ss \in [1 .. Len(Calls) -> Seq(Queued)]
    BY <2>1, <2>2
  <2> HIDE DEF ss
  <2> QED
    BY <2>2, <2>3, FunctionIsSeq
<1>2. ready' = FlattenSeq(ss)
  BY Zenon DEF CallMulti
<1> HIDE DEF ss
<1>3. <<>> \in Seq(Queued)
  OBVIOUS
<1>4. ready' \in Seq(Queued)
  BY <1>1, <1>2, <1>3, FlattenAppend
<1>5. UNCHANGED <<fut, gather, seen>>
  BY DEF CallMulti
<1>6. Queued' = Queued
  BY <1>5 DEF Queued
<1> QED
  BY <1>4, <1>5, <1>6 DEF MultiInv, MultiTypeOK, SeenDone, GatherTrue, FailedTrue, PassedOn

\* Futures that are done stay as they are: what is queued stays justified.
LEMMA StaysQueued ==
    ASSUME MultiInv, \A n \in Node : fut[n] # Pending => fut'[n] # Pending,
           \A m \in Call : gather[m] # Pending => gather'[m] # Pending
    PROVE  ready \in Seq(Queued') /\ (ready # <<>> => Tail(ready) \in Seq(Queued'))
<1>1. Queued \subseteq Queued'
  BY DEF Queued, Pending
<1>2. ready \in Seq(Queued)
  BY DEF MultiInv, MultiTypeOK
<1>3. ready \in Seq(Queued')
  BY <1>1, <1>2, SeqOfMore
<1> QED
  BY <1>3, HeadTailProperties

\* A Future of the application ends: the calls over it have callbacks queued.
LEMMA CompleteInv ==
    ASSUME MultiInv, NEW n \in Leaf, NEW outcome \in {Ok(n), Failed(n), Cancelled},
           Complete(n, outcome)
    PROVE  MultiInv'
<1>1. n \in Node /\ fut[n] = Pending /\ outcome \in Outcome(n) /\ outcome # Pending
  BY ParallelIs, OutcomesDiffer DEF Node, Complete, Outcome
<1>2. /\ fut' = [fut EXCEPT ![n] = outcome] /\ UNCHANGED <<gather, seen>>
      /\ ready' = ready \/ ready' = ready \o Waking(n)
  BY DEF Complete
<1>3. /\ fut' \in [Node -> UNION {Outcome(x) : x \in Node}] /\ \A x \in Node : fut'[x] \in Outcome(x)
      /\ fut'[n] = outcome /\ \A x \in Node : x # n => fut'[x] = fut[x]
  <2>1. outcome \in UNION {Outcome(x) : x \in Node}
    BY <1>1, Zenon
  <2> QED
    BY <1>1, <1>2, <2>1 DEF MultiInv, MultiTypeOK
<1>4. \A x \in Node : fut[x] # Pending => fut'[x] = fut[x] /\ fut'[x] # Pending
  BY <1>1, <1>3
<1>5. ready \in Seq(Queued')
  BY <1>2, <1>4, StaysQueued
<1>6. ready' \in Seq(Queued')
  <2> DEFINE E == {e \in [run : {"gather"}, call : Call, child : {n}] : n \in ChildSet(e.call)}
  <2>1. E \subseteq Queued'
    BY <1>1, <1>3 DEF Queued, Pending
  <2>2. Waking(n) \in Seq(E)
    BY WakingTyped
  <2> HIDE DEF E
  <2>3. Waking(n) \in Seq(Queued')
    BY <2>1, <2>2, SeqOfMore
  <2> QED
    BY <1>2, <1>5, <2>3, ConcatProperties
<1>7. MultiTypeOK'
  BY <1>2, <1>3, <1>6 DEF MultiInv, MultiTypeOK, Outcome, Pending, Ok, Failed, Cancelled
<1>8. n \notin Call /\ Call \subseteq Node /\ Leaf \subseteq Node
  BY CallsInOrder DEF Node
<1>9. SeenDone'
  BY <1>2, <1>4 DEF MultiInv, MultiTypeOK, SeenDone, Pending
<1>10. GatherTrue'
  <2> SUFFICES ASSUME NEW m \in Call
               PROVE  /\ gather[m].state = "ok" => \A c \in ChildSet(m) : fut'[c].state = "ok"
                      /\ \A x \in Leaf : gather[m] = Failed(x) => fut'[x] = Failed(x)
    BY <1>2 DEF GatherTrue, ChildSet, Failed
  <2>1. \A x \in Leaf : gather[m] = Failed(x) => fut'[x] = Failed(x)
    BY <1>4, <1>8, OutcomesDiffer DEF MultiInv, GatherTrue
  <2>2. ASSUME gather[m].state = "ok", NEW c \in ChildSet(m)
        PROVE  fut'[c].state = "ok"
    <3>1. c \in Node /\ fut[c].state = "ok"
      BY <2>2, ChildrenAreNodes DEF MultiInv, GatherTrue
    <3> QED
      BY <1>4, <3>1, OutcomesDiffer
  <2> QED
    BY <2>1, <2>2
<1>11. FailedTrue'
  BY <1>1, <1>3, <1>8, OutcomesDiffer DEF MultiInv, FailedTrue, Failed
<1>12. PassedOn'
  BY <1>2, <1>3, <1>8 DEF MultiInv, PassedOn, Pending, Cancelled
<1> QED
  BY <1>7, <1>9, <1>10, <1>11, <1>12 DEF MultiInv

\* A call's Future takes an outcome that its gather() has, or is cancelled.
LEMMA PassOnInv ==
    ASSUME MultiInv, NEW m \in Call, NEW outcome \in {Cancelled, gather[m]}, outcome # Pending,
           fut[m] = Pending, fut' = [fut EXCEPT ![m] = outcome],
           UNCHANGED <<gather, seen>>, ready' \in Seq(Queued')
    PROVE  MultiInv'
<1>1. m \in Node /\ outcome \in Outcome(m)
  BY DEF Node, Outcome, MultiInv, MultiTypeOK
<1>2. /\ fut' \in [Node -> UNION {Outcome(x) : x \in Node}] /\ \A x \in Node : fut'[x] \in Outcome(x)
      /\ fut'[m] = outcome /\ \A x \in Node : x # m => fut'[x] = fut[x]
  <2>1. outcome \in UNION {Outcome(x) : x \in Node}
    BY <1>1, Zenon
  <2> QED
    BY <1>1, <2>1 DEF MultiInv, MultiTypeOK
<1>3. \A x \in Node : fut[x] # Pending => fut'[x] = fut[x] /\ fut'[x] # Pending
  BY <1>2
<1>4. MultiTypeOK'
  BY <1>2 DEF MultiInv, MultiTypeOK, Outcome, Pending, Ok, Failed, Cancelled
<1>5. m \notin Leaf /\ Call \subseteq Node /\ Leaf \subseteq Node
  BY CallsInOrder DEF Node
<1>6. SeenDone'
  BY <1>3 DEF MultiInv, MultiTypeOK, SeenDone, Pending
<1>7. GatherTrue'
  <2> SUFFICES ASSUME NEW c \in Call
               PROVE  /\ gather[c].state = "ok" => \A n \in ChildSet(c) : fut'[n].state = "ok"
                      /\ \A x \in Leaf : gather[c] = Failed(x) => fut'[x] = Failed(x)
    BY DEF GatherTrue, ChildSet, Failed
  <2>1. \A x \in Leaf : gather[c] = Failed(x) => fut'[x] = Failed(x)
    BY <1>3, <1>5, OutcomesDiffer DEF MultiInv, GatherTrue
  <2>2. ASSUME gather[c].state = "ok", NEW n \in ChildSet(c)
        PROVE  fut'[n].state = "ok"
    <3>1. n \in Node /\ fut[n].state = "ok"
      BY <2>2, ChildrenAreNodes DEF MultiInv, GatherTrue
    <3> QED
      BY <1>3, <3>1, OutcomesDiffer
  <2> QED
    BY <2>1, <2>2
<1>8. FailedTrue'
  BY <1>2, <1>5 DEF MultiInv, FailedTrue, Failed
<1>9. PassedOn'
  BY <1>2, <1>5 DEF MultiInv, PassedOn, Pending, Cancelled
<1> QED
  BY <1>4, <1>6, <1>7, <1>8, <1>9 DEF MultiInv

\* The caller cancels: only its own Future changes.
LEMMA CancelOuterInv ==
    ASSUME MultiInv, CancelOuter
    PROVE  MultiInv'
<1>1. /\ Outer \in Call /\ fut[Outer] = Pending /\ Cancelled # Pending
      /\ fut' = [fut EXCEPT ![Outer] = Cancelled] /\ UNCHANGED <<gather, seen>> /\ ready' = ready
  BY CallsInOrder, OutcomesDiffer DEF CancelOuter
<1>2. \A n \in Node : fut[n] # Pending => fut'[n] # Pending
  BY <1>1 DEF MultiInv, MultiTypeOK
<1>3. ready' \in Seq(Queued')
  BY <1>1, <1>2, StaysQueued
<1> QED
  BY <1>1, <1>3, PassOnInv

\* What callback(f) does: the Future takes the outcome of gather(), or stays.
LEMMA PassOnIs ==
    ASSUME MultiInv, NEW m \in Call, gather[m] # Pending
    PROVE  PassOn(m) \in {fut[m], gather[m]} /\ (fut[m] # Pending => PassOn(m) = fut[m])
<1>1. gather[m] \in Outcome(m) /\ fut[m] \in {Pending, Cancelled, gather[m]}
  BY DEF MultiInv, MultiTypeOK, PassedOn
<1>2. gather[m].state \in {"ok", "failed", "cancelled"}
  BY <1>1, OutcomeStates
<1>3. CASE gather[m].state = "ok"
  BY <1>1, <1>3 DEF PassOn, SetResult
<1>4. CASE gather[m].state = "failed"
  BY <1>1, <1>4 DEF PassOn, SetExcInfo
<1>5. CASE gather[m].state = "cancelled"
  BY <1>1, <1>5 DEF PassOn
<1> QED
  BY <1>2, <1>3, <1>4, <1>5

\* callback(f) runs, and the calls over this one have callbacks queued if it passed
\* something on.
LEMMA CallbackInv ==
    ASSUME MultiInv, NEW m \in Call, gather[m] # Pending, ready # <<>>, Callback(m)
    PROVE  MultiInv'
<1>1. /\ fut' = [fut EXCEPT ![m] = PassOn(m)] /\ UNCHANGED <<gather, seen>>
      /\ ready' = Tail(ready) \o IF PassOn(m) # fut[m] THEN Waking(m) ELSE <<>>
  BY DEF Callback
<1>2. m \in Node /\ fut \in [Node -> UNION {Outcome(x) : x \in Node}]
  BY DEF Node, MultiInv, MultiTypeOK
<1>3. /\ fut'[m] = PassOn(m) /\ \A x \in Node : x # m => fut'[x] = fut[x]
      /\ PassOn(m) \in {fut[m], gather[m]} /\ (fut[m] # Pending => PassOn(m) = fut[m])
  BY <1>1, <1>2, PassOnIs
<1>4. \A x \in Node : fut[x] # Pending => fut'[x] # Pending
  BY <1>3
<1>5. Tail(ready) \in Seq(Queued')
  BY <1>1, <1>4, StaysQueued
<1>6. CASE PassOn(m) = fut[m]
  <2>1. fut' = fut
    BY <1>1, <1>2, <1>6
  <2>2. ready' = Tail(ready)
    BY <1>1, <1>5, <1>6, ConcatEmptySeq
  <2>3. ready' \in Seq(Queued')
    BY <1>5, <2>2
  <2>4. MultiTypeOK'
    BY <1>1, <2>1, <2>3 DEF MultiInv, MultiTypeOK, Outcome, Pending, Ok, Failed, Cancelled
  <2>5. SeenDone' /\ GatherTrue'
    BY <1>1, <2>1 DEF MultiInv, SeenDone, GatherTrue, ChildSet, Pending, Failed
  <2>6. FailedTrue' /\ PassedOn'
    BY <1>1, <2>1 DEF MultiInv, FailedTrue, PassedOn, Pending, Failed, Cancelled
  <2> QED
    BY <2>4, <2>5, <2>6 DEF MultiInv
<1>7. CASE PassOn(m) # fut[m]
  <2>1. PassOn(m) = gather[m] /\ fut[m] = Pending
    BY <1>3, <1>7
  <2> DEFINE E == {e \in [run : {"gather"}, call : Call, child : {m}] : m \in ChildSet(e.call)}
  <2>2. E \subseteq Queued'
    BY <1>2, <1>3, <2>1 DEF Queued, Pending
  <2>3. Waking(m) \in Seq(E)
    BY WakingTyped
  <2> HIDE DEF E
  <2>4. Waking(m) \in Seq(Queued')
    BY <2>2, <2>3, SeqOfMore
  <2>5. ready' \in Seq(Queued')
    BY <1>1, <1>5, <1>7, <2>4, ConcatProperties
  <2> QED
    BY <1>1, <2>1, <2>5, PassOnInv
<1> QED
  BY <1>6, <1>7

\* gather() counts a child: its answer, if there is one now, is true.
LEMMA GatherStepInv ==
    ASSUME MultiInv, NEW m \in Call, NEW n \in ChildSet(m), fut[n] # Pending, ready # <<>>,
           GatherStep(m, n)
    PROVE  MultiInv'
<1> DEFINE value == [k \in DOMAIN Children[m] |-> ConvertYielded(Children[m][k]).value]
           outcome == IF gather[m] # Pending THEN gather[m]
                      ELSE IF fut[n].state \in {"failed", "cancelled"} THEN fut[n]
                      ELSE IF seen[m] \cup {n} = ChildSet(m) THEN Ok(value)
                      ELSE Pending
<1>1. /\ seen' = [seen EXCEPT ![m] = @ \cup {n}]
      /\ gather' = [gather EXCEPT ![m] = outcome]
      /\ ready' = Tail(ready) \o IF outcome # gather[m]
                                 THEN <<[run |-> "callback", call |-> m, child |-> m]>> ELSE <<>>
      /\ UNCHANGED fut
  BY Zenon DEF GatherStep, ConvertYielded
<1>2. /\ m \in Node /\ n \in Node /\ Call \subseteq Node /\ Leaf \subseteq Node
      /\ \A c \in ChildSet(m) : c \in Node
  BY ChildrenAreNodes DEF Node
<1>3. fut[n].state \in {"ok", "failed", "cancelled"}
  <2>1. fut[n] \in Outcome(n)
    BY <1>2 DEF MultiInv, MultiTypeOK
  <2> QED
    BY <2>1, OutcomeStates
<1>4. ASSUME \A c \in ChildSet(m) : fut[c].state = "ok"
      PROVE  Ok(value) = Ok(Parallel[m])
  <2>1. ASSUME NEW k \in DOMAIN Children[m]
        PROVE  ConvertYielded(Children[m][k]).value = Parallel[Children[m][k]]
    <3>1. Children[m][k] \in ChildSet(m) /\ Children[m][k] \in Node
      BY <1>2, ChildrenAreNodes
    <3>2. fut[Children[m][k]] = Ok(Parallel[Children[m][k]])
      BY <1>4, <3>1, OutcomeStates DEF MultiInv, MultiTypeOK
    <3> QED
      BY <3>2, OutcomesDiffer DEF ConvertYielded
  <2>2. value = [k \in DOMAIN Children[m] |-> Parallel[Children[m][k]]]
    BY <2>1, Zenon
  <2> QED
    BY <2>2, ParallelIs
\* What the outcome is.
<1>5. /\ outcome \in Outcome(m) /\ (gather[m] # Pending => outcome = gather[m])
      /\ outcome.state = "ok" => \A c \in ChildSet(m) : fut[c].state = "ok"
      /\ \A x \in Leaf : outcome = Failed(x) => fut[x] = Failed(x)
      /\ outcome = Pending => fut[n].state = "ok" /\ gather[m] = Pending
  <2>1. CASE gather[m] # Pending
    <3>1. outcome = gather[m]
      BY <2>1
    <3> QED
      BY <2>1, <3>1 DEF MultiInv, MultiTypeOK, GatherTrue
  <2>2. CASE gather[m] = Pending /\ fut[n].state \in {"failed", "cancelled"}
    <3>1. outcome = fut[n]
      BY <2>2
    <3>2. fut[n] \in Outcome(n)
      BY <1>2 DEF MultiInv, MultiTypeOK
    <3>3. fut[n] = Cancelled \/ \E x \in Leaf : fut[n] = Failed(x)
      BY <2>2, <3>2, OutcomeStates
    <3>4. \A x \in Leaf : fut[n] = Failed(x) => fut[x] = Failed(x)
      <4> SUFFICES ASSUME NEW x \in Leaf, fut[n] = Failed(x)
                   PROVE  fut[x] = Failed(x)
        OBVIOUS
      <4>1. CASE n \in Leaf
        BY <4>1 DEF MultiInv, FailedTrue
      <4>2. CASE n \in Call
        <5>1. gather[n] = Failed(x)
          BY <4>2, OutcomesDiffer DEF MultiInv, PassedOn
        <5> QED
          BY <4>2, <5>1 DEF MultiInv, GatherTrue
      <4> QED
        BY <1>2, <4>1, <4>2 DEF Node
    <3>5. fut[n] \in Outcome(m)
      BY <3>3 DEF Outcome
    <3> HIDE DEF outcome
    <3> QED
      BY <2>2, <3>1, <3>3, <3>4, <3>5, OutcomesDiffer
  <2>3. CASE gather[m] = Pending /\ fut[n].state = "ok" /\ seen[m] \cup {n} = ChildSet(m)
    <3>1. outcome = Ok(value)
      BY <2>3
    <3>2. \A c \in ChildSet(m) : fut[c].state = "ok"
      BY <2>3 DEF MultiInv, SeenDone
    <3>3. outcome = Ok(Parallel[m])
      BY <1>4, <3>1, <3>2
    <3> HIDE DEF outcome
    <3> QED
      BY <2>3, <3>2, <3>3, OutcomesDiffer DEF Outcome
  <2>4. CASE gather[m] = Pending /\ fut[n].state = "ok" /\ seen[m] \cup {n} # ChildSet(m)
    <3>1. outcome = Pending
      BY <2>4
    <3> HIDE DEF outcome
    <3> QED
      BY <2>4, <3>1, OutcomesDiffer DEF Outcome
  <2> QED
    BY <1>3, <2>1, <2>2, <2>3, <2>4
<1> HIDE DEF outcome
<1>6. /\ gather' \in [Call -> UNION {Outcome(x) : x \in Node}]
      /\ gather'[m] = outcome /\ \A c \in Call : c # m => gather'[c] = gather[c]
      /\ \A c \in Call : gather'[c] \in Outcome(c)
  <2>1. outcome \in UNION {Outcome(x) : x \in Node}
    BY <1>2, <1>5, Zenon
  <2> QED
    BY <1>1, <1>5, <2>1 DEF MultiInv, MultiTypeOK
<1>7. /\ seen' \in [Call -> SUBSET Node] /\ seen'[m] = seen[m] \cup {n}
      /\ \A c \in Call : c # m => seen'[c] = seen[c]
  BY <1>1, <1>2 DEF MultiInv, MultiTypeOK
<1>8. \A c \in Call : gather[c] # Pending => gather'[c] = gather[c] /\ gather'[c] # Pending
  BY <1>5, <1>6
<1>9. ready' \in Seq(Queued')
  <2>1. Tail(ready) \in Seq(Queued')
    BY <1>1, <1>8, StaysQueued
  <2>2. CASE outcome = gather[m]
    <3>1. ready' = Tail(ready)
      BY <1>1, <2>1, <2>2, ConcatEmptySeq
    <3> QED
      BY <2>1, <3>1
  <2>3. CASE outcome # gather[m]
    <3>1. outcome # Pending
      BY <1>5, <2>3
    <3>2. [run |-> "callback", call |-> m, child |-> m] \in Queued'
      BY <1>2, <1>6, <3>1 DEF Queued, Pending
    <3>3. <<[run |-> "callback", call |-> m, child |-> m]>> \in Seq(Queued')
      BY <3>2
    <3> QED
      BY <1>1, <2>1, <2>3, <3>3, ConcatProperties
  <2> QED
    BY <2>2, <2>3
<1>10. MultiTypeOK'
  BY <1>1, <1>6, <1>7, <1>9 DEF MultiInv, MultiTypeOK, Outcome, Pending, Ok, Failed, Cancelled
<1>11. SeenDone'
  <2> SUFFICES ASSUME NEW c \in Call, NEW x \in seen'[c]
               PROVE  fut[x] # Pending /\ (gather'[c] = Pending => fut[x].state = "ok")
    BY <1>1 DEF SeenDone, Pending
  <2>1. CASE c = m
    BY <1>5, <1>6, <1>7, <2>1 DEF MultiInv, SeenDone
  <2>2. CASE c # m
    BY <1>6, <1>7, <2>2 DEF MultiInv, SeenDone
  <2> QED
    BY <2>1, <2>2
<1>12. GatherTrue'
  <2> SUFFICES ASSUME NEW c \in Call
               PROVE  /\ gather'[c].state = "ok" => \A x \in ChildSet(c) : fut[x].state = "ok"
                      /\ \A x \in Leaf : gather'[c] = Failed(x) => fut[x] = Failed(x)
    BY <1>1 DEF GatherTrue, ChildSet, Failed
  <2>1. CASE c = m
    BY <1>5, <1>6, <2>1
  <2>2. CASE c # m
    BY <1>6, <2>2 DEF MultiInv, GatherTrue
  <2> QED
    BY <2>1, <2>2
<1>13. FailedTrue'
  BY <1>1 DEF MultiInv, FailedTrue, Failed
<1>14. PassedOn'
  BY <1>1, <1>6, <1>8 DEF MultiInv, PassedOn, Pending, Cancelled
<1> QED
  BY <1>10, <1>11, <1>12, <1>13, <1>14 DEF MultiInv

\* Every step keeps the invariant.
LEMMA MultiNextInv == MultiInv /\ [MultiNext]_multiVars => MultiInv'
<1> SUFFICES ASSUME MultiInv, [MultiNext]_multiVars
             PROVE  MultiInv'
  OBVIOUS
<1>1. CASE CallMulti
  BY <1>1, CallMultiInv
<1>2. CASE CancelOuter
  BY <1>2, CancelOuterInv
<1>3. CASE RunReady
  <2> DEFINE cb == Head(ready)
  <2>1. ready # <<>> /\ cb \in Queued
    BY <1>3, HeadTailProperties DEF RunReady, MultiInv, MultiTypeOK
  <2>2. IF cb.run = "gather" THEN GatherStep(cb.call, cb.child) ELSE Callback(cb.call)
    BY <1>3 DEF RunReady
  <2> HIDE DEF cb
  <2>3. CASE cb.run = "gather"
    <3>1. cb.call \in Call /\ cb.child \in ChildSet(cb.call) /\ fut[cb.child] # Pending
      BY <2>1, <2>3 DEF Queued
    <3> QED
      BY <2>1, <2>2, <2>3, <3>1, GatherStepInv
  <2>4. CASE cb.run # "gather"
    <3>1. cb.call \in Call /\ gather[cb.call] # Pending
      BY <2>1, <2>4 DEF Queued
    <3> QED
      BY <2>1, <2>2, <2>4, <3>1, CallbackInv
  <2> QED
    BY <2>3, <2>4
<1>4. ASSUME NEW n \in Leaf, NEW outcome \in {Ok(n), Failed(n), Cancelled}, Complete(n, outcome)
      PROVE  MultiInv'
  BY <1>4, CompleteInv
<1>5. CASE UNCHANGED multiVars
  BY <1>5 DEF multiVars, MultiInv, MultiTypeOK, SeenDone, GatherTrue, FailedTrue, PassedOn,
              Queued, Outcome, ChildSet, Pending, Ok, Failed, Cancelled
<1> QED
  BY <1>1, <1>2, <1>3, <1>4, <1>5 DEF MultiNext

\* If the outer call has results, so have all: each is a child of some call.
LEMMA AllAreOk ==
    ASSUME MultiInv, fut[Outer].state = "ok"
    PROVE  \A n \in Node : fut[n].state = "ok"
<1> DEFINE top == Len(Calls)
           Bad == {d \in Nat : d < top /\ fut[Calls[top - d]].state # "ok"}
<1>1. \A m \in Call : fut[m].state = "ok" => \A n \in ChildSet(m) : fut[n].state = "ok"
  <2> SUFFICES ASSUME NEW m \in Call, fut[m].state = "ok"
               PROVE  \A n \in ChildSet(m) : fut[n].state = "ok"
    OBVIOUS
  <2>1. gather[m].state = "ok"
    BY OutcomesDiffer DEF MultiInv, PassedOn
  <2> QED
    BY <2>1 DEF MultiInv, GatherTrue
<1>2. top \in Nat \ {0} /\ Outer = Calls[top]
  BY CallsInOrder
<1>3. \A j \in 1 .. top : fut[Calls[j]].state = "ok"
  <2> SUFFICES ASSUME Bad # {}
               PROVE  FALSE
    <3> SUFFICES ASSUME NEW j \in 1 .. top, fut[Calls[j]].state # "ok"
                 PROVE  FALSE
      OBVIOUS
    <3>1. top - j \in Nat /\ top - j < top /\ top - (top - j) = j
      BY <1>2
    <3>2. top - j \in Bad
      BY <3>1
    <3> QED
      BY <3>2
  <2>1. PICK d \in Bad : \A e \in Bad : d <= e
    <3>1. Bad \in SUBSET Nat
      OBVIOUS
    <3> HIDE DEF Bad
    <3> QED
      BY <3>1, LeastElement
  <2> DEFINE j == top - d
  <2>2. d # 0 /\ j \in 1 .. (top - 1) /\ fut[Calls[j]].state # "ok"
    BY <1>2, <2>1
  <2>3. PICK m \in Call : Calls[j] \in ChildSet(m)
    <3>1. Calls[j] \in Leaf \cup {Calls[i] : i \in 1 .. Len(Calls) - 1}
      BY <2>2
    <3> HIDE DEF j
    <3> QED
      BY <3>1, MultiAssumption DEF Call, ChildSet
  <2>4. PICK k \in 1 .. top : m = Calls[k]
    BY CallsInOrder
  <2>5. Calls[j] \in {Calls[i] : i \in 1 .. k - 1}
    <3>1. PICK x \in DOMAIN Children[m] : Calls[j] = Children[m][x]
      BY <2>3 DEF ChildSet, ToSet
    <3>2. Calls[j] \in Leaf \cup {Calls[i] : i \in 1 .. k - 1}
      BY <2>4, <3>1, CallsInOrder
    <3>3. Calls[j] \notin Leaf
      BY <1>2, <2>2, CallsInOrder
    <3> QED
      BY <3>2, <3>3
  <2>6. j < k
    <3>1. PICK i \in 1 .. k - 1 : Calls[j] = Calls[i]
      BY <2>5
    <3>2. i \in 1 .. top /\ j \in 1 .. top
      BY <1>2, <2>2
    <3>3. j = i
      BY <3>1, <3>2, CallsInOrder
    <3> QED
      BY <3>3
  <2>7. top - k \in Nat /\ top - k < top /\ top - (top - k) = k /\ top - k < d
    BY <1>2, <2>1, <2>6
  <2>8. fut[m].state = "ok"
    BY <2>1, <2>4, <2>7
  <2> QED
    BY <1>1, <2>2, <2>3, <2>8
<1>4. ASSUME NEW n \in Leaf
      PROVE  fut[n].state = "ok"
  <2>1. PICK m \in Call : n \in ChildSet(m)
    BY MultiAssumption DEF Call, ChildSet
  <2>2. fut[m].state = "ok"
    BY <1>3, CallsInOrder
  <2> QED
    BY <1>1, <2>1, <2>2
<1> QED
  BY <1>3, <1>4, CallsInOrder DEF Node

\* The invariant says what the caller is answered.
LEMMA MultiInvAnswers == MultiInv => AnswersRight
<1> SUFFICES ASSUME MultiInv, fut[Outer] # Pending
             PROVE  AnsweredRightly
  BY DEF AnswersRight
<1>1. Outer \in Call /\ Outer \in Node /\ Leaf \subseteq Node
  BY CallsInOrder DEF Node
<1>2. fut[Outer] \in Outcome(Outer) /\ fut[Outer] \in {Pending, Cancelled, gather[Outer]}
  BY <1>1 DEF MultiInv, MultiTypeOK, PassedOn
<1>3. CASE fut[Outer] = Cancelled
  BY <1>3 DEF AnsweredRightly
<1>4. CASE fut[Outer] = Ok(Parallel[Outer])
  <2>1. \A n \in Node : fut[n].state = "ok"
    BY <1>4, OutcomesDiffer, AllAreOk
  <2>2. Ended("ok") = Leaf
    BY <1>1, <2>1 DEF Ended
  <2> QED
    BY <1>4, <2>2 DEF AnsweredRightly
<1>5. ASSUME NEW x \in Leaf, fut[Outer] = Failed(x)
      PROVE  AnsweredRightly
  <2>1. gather[Outer] = Failed(x)
    BY <1>2, <1>5, OutcomesDiffer
  <2>2. fut[x] = Failed(x)
    BY <1>1, <2>1 DEF MultiInv, GatherTrue
  <2>3. x \in Ended("failed")
    BY <2>2, OutcomesDiffer DEF Ended
  <2> QED
    BY <1>5, <2>3 DEF AnsweredRightly
<1> QED
  BY <1>2, <1>3, <1>4, <1>5 DEF Outcome

\* multi() answers rightly: whatever the nesting of the calls, the Futures they share
\* and the order in which those end, a caller whose Future is done was cancelled by
\* itself, has the results of all leaves in their places, or the exception of a leaf
\* that failed.
THEOREM MultiCorrect == MultiSpec => []AnswersRight
<1>1. MultiInit => MultiInv
  BY MultiInitInv
<1>2. MultiInv /\ [MultiNext]_multiVars => MultiInv'
  BY MultiNextInv
<1>3. MultiInv => AnswersRight
  BY MultiInvAnswers
<1> QED
  BY <1>1, <1>2, <1>3, PTL DEF MultiSpec

\* A call of the tree waits, was cancelled, has the results of its own children
\* in their places, or has the exception of a leaf that failed.
NestedRight ==
    \A m \in Call :
        \/ fut[m] \in {Pending, Cancelled}
        \/ fut[m] = Ok(Parallel[m]) /\ \A n \in ChildSet(m) : fut[n] = Ok(Parallel[n])
        \/ \E x \in Leaf : fut[m] = Failed(x) /\ fut[x] = Failed(x)

\* Every inner multi() is answered rightly by itself, also while the outer one
\* still waits or after its caller cancelled it: a list within a list may be
\* shared with other code, and its Future is as good as that of the whole.
THEOREM MultiNested == MultiSpec => []NestedRight
<1>1. ASSUME MultiInv, NEW m \in Call
      PROVE  \/ fut[m] \in {Pending, Cancelled}
             \/ fut[m] = Ok(Parallel[m]) /\ \A n \in ChildSet(m) : fut[n] = Ok(Parallel[n])
             \/ \E x \in Leaf : fut[m] = Failed(x) /\ fut[x] = Failed(x)
  <2>1. m \in Node /\ ChildSet(m) \subseteq Node
    BY ChildrenAreNodes DEF Node
  <2>2. fut[m] \in Outcome(m) /\ fut[m] \in {Pending, Cancelled, gather[m]}
    BY <1>1, <2>1 DEF MultiInv, MultiTypeOK, PassedOn
  <2>3. CASE fut[m] = Ok(Parallel[m])
    <3>1. gather[m].state = "ok"
      BY <2>2, <2>3, OutcomesDiffer
    <3>2. ASSUME NEW n \in ChildSet(m) PROVE fut[n] = Ok(Parallel[n])
      <4>1. fut[n].state = "ok"
        BY <1>1, <3>1 DEF MultiInv, GatherTrue
      <4>2. fut[n] \in Outcome(n)
        BY <1>1, <2>1 DEF MultiInv, MultiTypeOK
      <4>3. (fut[n].state = "ok") = (fut[n] = Ok(Parallel[n]))
        BY <4>2, OutcomeStates, Zenon
      <4> QED
        BY <4>1, <4>3, Zenon
    <3> QED
      BY <2>3, <3>2
  <2>4. ASSUME NEW x \in Leaf, fut[m] = Failed(x) PROVE fut[x] = Failed(x)
    <3>1. gather[m] = Failed(x)
      BY <2>2, <2>4, OutcomesDiffer
    <3> QED
      BY <1>1, <3>1 DEF MultiInv, GatherTrue
  <2> QED
    BY <2>2, <2>3, <2>4 DEF Outcome
<1>2. MultiInv => NestedRight
  BY <1>1 DEF NestedRight
<1> QED
  BY <1>2, MultiInitInv, MultiNextInv, PTL DEF MultiSpec
=============================================================================
