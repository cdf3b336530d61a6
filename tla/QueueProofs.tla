---------------------------- MODULE QueueProofs ----------------------------
(***************************************************************************)
(* Theorems about Queue for any number of put(), get() and join() calls    *)
(* and every maxsize, bounded or not.                                      *)
(***************************************************************************)
EXTENDS Queue, FiniteSetTheorems, TLAPS

USE QueueAssumption

Increasing(s) == \A j, k \in 1 .. Len(s) : j < k => s[j] < s[k]
Distinct(s) == \A j, k \in 1 .. Len(s) : s[j] = s[k] => j = k
Below(S, T) == \A x \in S, y \in T : x < y

\* The put() calls so far are the first ones.
Numbered == \E n \in 0 .. MaxItems : \A i \in Item : pfut[i] # "none" <=> i <= n

\* Items in the order of the put() calls.
Sorted ==
    /\ Increasing(delivered) /\ Increasing(queue) /\ Increasing(putters)
    /\ Below(ToSet(delivered), ToSet(queue))
    /\ Below(ToSet(delivered), ToSet(putters))
    /\ Below(ToSet(queue), ToSet(putters))

\* A put() waits in the deque, and nothing is there while there is room.
PuttersKept ==
    /\ putters # <<>> => Full(queue)
    /\ \A i \in ToSet(putters) : pfut[i] \in {"pending", "timeout"}
    /\ \A i \in Item : PutPending(i) => i \in ToSet(putters)

\* A get() waits in the deque, and nothing is there while there are items.
GettersKept ==
    /\ getters # <<>> => queue = <<>>
    /\ Distinct(getters)
    /\ \A g \in Getter : GetPending(g) => g \in ToSet(getters) /\ gtask[g] # "done"

\* The items that were accepted are those delivered or queued.
ItemsAccounted == ToSet(delivered) \cup ToSet(queue) = {i \in Item : pfut[i] = "result"}

Inv ==
    /\ TypeOK /\ Numbered /\ Sorted /\ PuttersKept /\ GettersKept
    /\ ItemsAccounted /\ JoinExact

-----------------------------------------------------------------------------
(* Sequences of items and Futures. *)

LEMMA InSet ==
    ASSUME NEW S, NEW s \in Seq(S), NEW x
    PROVE  x \in ToSet(s) <=> \E k \in 1 .. Len(s) : s[k] = x
  BY DEF ToSet

LEMMA EmptySet == ToSet(<<>>) = {} /\ Increasing(<<>>) /\ Distinct(<<>>)
  BY DEF ToSet, Increasing, Distinct

\* An item behind the others.
LEMMA Appended ==
    ASSUME NEW S, NEW s \in Seq(S), NEW x \in S
    PROVE  /\ Append(s, x) \in Seq(S) /\ Len(Append(s, x)) = Len(s) + 1
           /\ ToSet(Append(s, x)) = ToSet(s) \cup {x}
           /\ Append(s, x) # <<>>
<1>1. /\ Append(s, x) \in Seq(S) /\ Len(Append(s, x)) = Len(s) + 1 /\ Len(s) \in Nat
      /\ \A k \in 1 .. Len(s) : Append(s, x)[k] = s[k]
      /\ Append(s, x)[Len(s) + 1] = x
  OBVIOUS
<1>2. ToSet(Append(s, x)) = ToSet(s) \cup {x}
  <2>1. ASSUME NEW y \in ToSet(Append(s, x)) PROVE y \in ToSet(s) \cup {x}
    <3>1. PICK k \in 1 .. Len(Append(s, x)) : Append(s, x)[k] = y
      BY <1>1, <2>1, InSet
    <3>2. CASE k = Len(s) + 1
      BY <1>1, <3>1, <3>2
    <3>3. CASE k # Len(s) + 1
      <4>1. k \in 1 .. Len(s) /\ s[k] = y
        BY <1>1, <3>1, <3>3
      <4> QED
        BY <4>1, InSet
    <3> QED
      BY <3>2, <3>3
  <2>2. ASSUME NEW y \in ToSet(s) PROVE y \in ToSet(Append(s, x))
    <3>1. PICK k \in 1 .. Len(s) : s[k] = y
      BY <2>2, InSet
    <3>2. k \in 1 .. Len(Append(s, x)) /\ Append(s, x)[k] = y
      BY <1>1, <3>1
    <3> QED
      BY <1>1, <3>2, InSet
  <2>3. x \in ToSet(Append(s, x))
    <3>1. Len(s) + 1 \in 1 .. Len(Append(s, x))
      BY <1>1
    <3> QED
      BY <1>1, <3>1, InSet
  <2> QED
    BY <2>1, <2>2, <2>3
<1> QED
  BY <1>1, <1>2

LEMMA AppendedInOrder ==
    ASSUME NEW S \in SUBSET Int, NEW s \in Seq(S), NEW x \in S,
           Increasing(s), \A y \in ToSet(s) : y < x
    PROVE  Increasing(Append(s, x))
<1>1. /\ Len(Append(s, x)) = Len(s) + 1 /\ Len(s) \in Nat
      /\ \A k \in 1 .. Len(s) : Append(s, x)[k] = s[k]
      /\ Append(s, x)[Len(s) + 1] = x
  OBVIOUS
<1>2. \A k \in 1 .. Len(s) : s[k] < x
  BY InSet
<1> QED
  BY <1>1, <1>2 DEF Increasing

LEMMA AppendedDistinct ==
    ASSUME NEW S, NEW s \in Seq(S), NEW x \in S, Distinct(s), x \notin ToSet(s)
    PROVE  Distinct(Append(s, x))
<1>1. /\ Len(Append(s, x)) = Len(s) + 1 /\ Len(s) \in Nat
      /\ \A k \in 1 .. Len(s) : Append(s, x)[k] = s[k]
      /\ Append(s, x)[Len(s) + 1] = x
  OBVIOUS
<1>2. \A k \in 1 .. Len(s) : s[k] # x
  BY InSet
<1> QED
  BY <1>1, <1>2 DEF Distinct

\* What is behind position k.
Rest(s, k) == SubSeq(s, k + 1, Len(s))

LEMMA Behind ==
    ASSUME NEW S, NEW s \in Seq(S), NEW k \in 1 .. Len(s)
    PROVE  /\ Rest(s, k) \in Seq(S) /\ Len(Rest(s, k)) = Len(s) - k
           /\ \A j \in 1 .. Len(Rest(s, k)) : Rest(s, k)[j] = s[j + k] /\ j + k \in 1 .. Len(s)
           /\ ToSet(Rest(s, k)) \subseteq ToSet(s)
           /\ \A x \in ToSet(s) : x \in ToSet(Rest(s, k)) \/ \E j \in 1 .. k : s[j] = x
<1> DEFINE t == Rest(s, k)
<1>1. /\ t \in Seq(S) /\ Len(t) = Len(s) - k /\ Len(s) \in Nat
      /\ \A j \in 1 .. Len(t) : t[j] = s[j + k]
  BY DEF Rest
<1> HIDE DEF t
<1>2. \A j \in 1 .. Len(t) : j + k \in 1 .. Len(s)
  BY <1>1
<1>3. ASSUME NEW x \in ToSet(t) PROVE x \in ToSet(s)
  <2>1. PICK j \in 1 .. Len(t) : t[j] = x
    BY <1>1, <1>3, InSet
  <2>2. j + k \in 1 .. Len(s) /\ s[j + k] = x
    BY <1>1, <1>2, <2>1
  <2> QED
    BY <2>2, InSet
<1>4. ASSUME NEW x \in ToSet(s), ~\E j \in 1 .. k : s[j] = x PROVE x \in ToSet(t)
  <2>1. PICK i \in 1 .. Len(s) : s[i] = x
    BY <1>4, InSet
  <2>2. i \notin 1 .. k
    BY <1>4, <2>1
  <2>3. i - k \in 1 .. Len(t) /\ (i - k) + k = i
    BY <1>1, <2>2
  <2>4. t[i - k] = x
    BY <1>1, <2>1, <2>3
  <2> QED
    BY <1>1, <2>3, <2>4, InSet
<1> QED
  BY <1>1, <1>2, <1>3, <1>4 DEF t

LEMMA BehindInOrder ==
    ASSUME NEW S \in SUBSET Int, NEW s \in Seq(S), NEW k \in 1 .. Len(s), Increasing(s)
    PROVE  /\ Increasing(Rest(s, k))
           /\ \A y \in ToSet(Rest(s, k)) : s[k] < y
<1> DEFINE t == Rest(s, k)
<1>1. /\ t \in Seq(S) /\ Len(t) = Len(s) - k
      /\ \A j \in 1 .. Len(t) : t[j] = s[j + k] /\ j + k \in 1 .. Len(s)
  BY Behind
<1> HIDE DEF t
<1>2. Increasing(t)
  <2> SUFFICES ASSUME NEW i \in 1 .. Len(t), NEW j \in 1 .. Len(t), i < j PROVE t[i] < t[j]
    BY DEF Increasing
  <2>1. /\ i + k \in 1 .. Len(s) /\ j + k \in 1 .. Len(s) /\ i + k < j + k
        /\ t[i] = s[i + k] /\ t[j] = s[j + k]
    BY <1>1
  <2> QED
    BY <2>1 DEF Increasing
<1>3. ASSUME NEW y \in ToSet(t) PROVE s[k] < y
  <2>1. PICK j \in 1 .. Len(t) : t[j] = y
    BY <1>1, <1>3, InSet
  <2>2. k < j + k /\ j + k \in 1 .. Len(s) /\ s[j + k] = y
    BY <1>1, <2>1
  <2> QED
    BY <2>2 DEF Increasing
<1> QED
  BY <1>2, <1>3 DEF t

LEMMA BehindDistinct ==
    ASSUME NEW S, NEW s \in Seq(S), NEW k \in 1 .. Len(s), Distinct(s)
    PROVE  Distinct(Rest(s, k))
<1> DEFINE t == Rest(s, k)
<1>1. /\ t \in Seq(S)
      /\ \A j \in 1 .. Len(t) : t[j] = s[j + k] /\ j + k \in 1 .. Len(s)
  BY Behind
<1> HIDE DEF t
<1>2. Len(t) \in Nat
  BY <1>1
<1>3. Distinct(t)
  <2> SUFFICES ASSUME NEW i \in 1 .. Len(t), NEW j \in 1 .. Len(t), t[i] = t[j] PROVE i = j
    BY DEF Distinct
  <2>1. i + k \in 1 .. Len(s) /\ j + k \in 1 .. Len(s) /\ s[i + k] = s[j + k]
    BY <1>1
  <2>2. i + k = j + k
    BY <2>1 DEF Distinct
  <2> QED
    BY <1>2, <2>2
<1> QED
  BY <1>3 DEF t

\* The head of a queue, and the rest of it.
LEMMA HeadAndTail ==
    ASSUME NEW S \in SUBSET Int, NEW s \in Seq(S), s # <<>>, Increasing(s)
    PROVE  /\ Head(s) \in S /\ Tail(s) \in Seq(S) /\ Len(Tail(s)) = Len(s) - 1 /\ Len(s) \in Nat \ {0}
           /\ ToSet(s) = ToSet(Tail(s)) \cup {Head(s)}
           /\ Increasing(Tail(s))
           /\ \A y \in ToSet(Tail(s)) : Head(s) < y
<1>1. /\ Head(s) \in S /\ Tail(s) = Rest(s, 1) /\ Head(s) = s[1]
      /\ 1 \in 1 .. Len(s) /\ Len(s) \in Nat \ {0}
  BY DEF Rest
<1>2. /\ Tail(s) \in Seq(S) /\ Len(Tail(s)) = Len(s) - 1
      /\ ToSet(Tail(s)) \subseteq ToSet(s)
      /\ \A x \in ToSet(s) : x \in ToSet(Tail(s)) \/ \E j \in 1 .. 1 : s[j] = x
  <2>1. /\ Rest(s, 1) \in Seq(S) /\ Len(Rest(s, 1)) = Len(s) - 1
        /\ ToSet(Rest(s, 1)) \subseteq ToSet(s)
        /\ \A x \in ToSet(s) : x \in ToSet(Rest(s, 1)) \/ \E j \in 1 .. 1 : s[j] = x
    <3>1. 1 \in 1 .. Len(s)
      BY <1>1
    <3> QED
      BY <3>1, Behind
  <2> QED
    BY <1>1, <2>1
<1>3. Increasing(Tail(s)) /\ \A y \in ToSet(Tail(s)) : Head(s) < y
  BY <1>1, BehindInOrder
<1>4. Head(s) \in ToSet(s)
  BY <1>1, InSet
<1>5. \A j \in 1 .. 1 : s[j] = Head(s)
  BY <1>1
<1>6. ToSet(s) = ToSet(Tail(s)) \cup {Head(s)}
  BY <1>2, <1>4, <1>5
<1> QED
  BY <1>1, <1>2, <1>3, <1>6

-----------------------------------------------------------------------------
(* put(). *)

\* The get() calls that have an item on the way to their callers.
Served == {g \in Getter : gtask[g] # "done" /\ gfut[g] = "result"}

LEMMA ServedFinite == IsFiniteSet(Served) /\ Cardinality(Served) \in Nat
<1>1. Served \subseteq Getter
  BY DEF Served
<1> QED
  BY <1>1, FS_Subset, FS_CardinalityType

\* The item of a new put() comes behind all others.
LEMMA NewItem ==
    ASSUME Inv, NEW i \in Item, i = NextItem
    PROVE  /\ \A j \in Item : pfut[j] # "none" <=> j < i
           /\ \A j \in ToSet(delivered) \cup ToSet(queue) \cup ToSet(putters) : j \in Item /\ j < i
<1>1. PICK n \in 0 .. MaxItems : \A j \in Item : pfut[j] # "none" <=> j <= n
  BY DEF Inv, Numbered
<1>2. {j \in Item : pfut[j] # "none"} = 1 .. n
  BY <1>1 DEF Item
<1>3. Cardinality(1 .. n) = n
  <2>1. Cardinality(1 .. n) = IF 1 > n THEN 0 ELSE n - 1 + 1
    BY 1 \in Int, n \in Int, FS_Interval
  <2> QED
    BY <2>1
<1>4. i = n + 1
  BY <1>2, <1>3 DEF NextItem
<1>5. \A j \in Item : pfut[j] # "none" <=> j < i
  BY <1>1, <1>4 DEF Item
<1>6. \A j \in ToSet(delivered) \cup ToSet(queue) \cup ToSet(putters) : j \in Item /\ pfut[j] # "none"
  <2>1. \A j \in ToSet(putters) : j \in Item
    BY InSet DEF Inv, TypeOK
  <2> QED
    BY <2>1 DEF Inv, ItemsAccounted, PuttersKept
<1> QED
  BY <1>5, <1>6

\* After a put() its item is the last one.
LEMMA NumberedNext ==
    ASSUME Inv, NEW i \in Item, i = NextItem, NEW x, x # "none",
           pfut' = [pfut EXCEPT ![i] = x]
    PROVE  Numbered'
<1>1. \A j \in Item : pfut[j] # "none" <=> j < i
  BY NewItem
<1>2. pfut \in [Item -> {"none", "pending", "result", "timeout"}]
  BY DEF Inv, TypeOK
<1>3. \A j \in Item : pfut'[j] # "none" <=> j <= i
  BY <1>1, <1>2 DEF Item
<1> QED
  BY <1>3 DEF Numbered, Item

\* The event is cleared: join() waits from now on.
LEMMA Cleared ==
    ASSUME Inv, Finished!Clear
    PROVE  finished' = FALSE /\ Finished!TypeOK' /\ Finished!NobodyMissed'
  BY DEF Inv, TypeOK, JoinExact, Finished!Clear, Finished!TypeOK, Finished!NobodyMissed,
         Finished!Pending

\* put() with an item for a waiting get(): the queue is empty and stays so.
LEMMA PutServesGetter ==
    ASSUME Inv, NEW i \in Item, PutNow(i), NEW g \in Getter,
           FirstWaitingGetter(g), getters' = After(getters, g),
           gfut' = [gfut EXCEPT ![g] = "result"],
           delivered' = Append(delivered, Head(Append(queue, i))),
           queue' = Tail(Append(queue, i))
    PROVE  Inv'
<1>1. /\ i = NextItem /\ unfinished' = unfinished + 1 /\ Finished!Clear
      /\ pfut' = [pfut EXCEPT ![i] = "result"]
      /\ UNCHANGED <<putters, gtask, toProcess>> /\ ~Full(queue)
  BY DEF PutNow, Accept
<1>2. PICK k \in 1 .. Len(getters) : /\ getters[k] = g /\ GetPending(g)
                                     /\ \A j \in 1 .. k - 1 : ~GetPending(getters[j])
  <2>1. DOMAIN getters = 1 .. Len(getters)
    BY DEF Inv, TypeOK
  <2> QED
    BY <2>1 DEF FirstWaitingGetter
<1>3. queue = <<>> /\ putters = <<>>
  <2>1. getters # <<>>
    BY <1>2 DEF Inv, TypeOK
  <2> QED
    BY <1>1, <2>1 DEF Inv, GettersKept, PuttersKept
<1>4. queue' = <<>> /\ delivered' = Append(delivered, i)
  BY <1>3
<1>5. getters' = Rest(getters, k)
  <2>1. DOMAIN getters = 1 .. Len(getters)
    BY DEF Inv, TypeOK
  <2>2. (CHOOSE j \in DOMAIN getters : getters[j] = g) = k
    BY <1>2, <2>1 DEF Inv, GettersKept, Distinct
  <2> QED
    BY <2>2 DEF After, Rest
<1>6. getters \in Seq(Getter) /\ delivered \in Seq(Item)
  BY DEF Inv, TypeOK
<1>7. /\ getters' \in Seq(Getter) /\ Distinct(getters')
      /\ \A h \in ToSet(getters) : h \in ToSet(getters') \/ \E j \in 1 .. k : getters[j] = h
  BY <1>5, <1>6, Behind, BehindDistinct DEF Inv, GettersKept
<1>8. /\ delivered' \in Seq(Item) /\ ToSet(delivered') = ToSet(delivered) \cup {i}
  BY <1>4, <1>6, Appended
<1>9. /\ pfut[i] = "none"
      /\ \A j \in ToSet(delivered) : j < i
  BY <1>1, NewItem DEF Item, Inv, TypeOK
<1>10. /\ pfut' \in [Item -> {"none", "pending", "result", "timeout"}] /\ pfut'[i] = "result"
       /\ \A j \in Item : j # i => pfut'[j] = pfut[j]
  BY <1>1 DEF Inv, TypeOK
<1>11. /\ gfut' \in [Getter -> {"none", "pending", "result", "timeout"}] /\ gfut'[g] = "result"
       /\ \A h \in Getter : h # g => gfut'[h] = gfut[h]
  BY DEF Inv, TypeOK
<1>12. finished' = FALSE /\ Finished!TypeOK' /\ Finished!NobodyMissed'
  BY <1>1, Cleared
<1>13. TypeOK'
  BY <1>1, <1>3, <1>4, <1>7, <1>8, <1>10, <1>11, <1>12 DEF Inv, TypeOK
<1>14. Numbered'
  BY <1>1, NumberedNext
<1>15. Sorted'
  <2>1. Increasing(delivered')
    <3>1. Item \in SUBSET Int /\ Increasing(delivered)
      BY DEF Item, Inv, Sorted
    <3> QED
      BY <1>4, <1>6, <1>9, <3>1, AppendedInOrder
  <2> QED
    BY <1>1, <1>3, <1>4, <2>1, EmptySet DEF Sorted, Below
<1>16. PuttersKept'
  BY <1>1, <1>3, <1>10, EmptySet DEF Inv, PuttersKept, PutPending
<1>17. GettersKept'
  <2>1. ASSUME NEW h \in Getter, GetPending(h)' PROVE h \in ToSet(getters') /\ gtask'[h] # "done"
    <3>1. h # g /\ GetPending(h)
      BY <1>11, <2>1 DEF GetPending
    <3>2. h \in ToSet(getters) /\ gtask[h] # "done"
      BY <3>1 DEF Inv, GettersKept
    <3>3. \A j \in 1 .. k : getters[j] # h
      BY <1>2, <3>1
    <3> QED
      BY <1>1, <1>7, <3>2, <3>3
  <2> QED
    BY <1>4, <1>7, <2>1 DEF GettersKept
<1>18. ItemsAccounted'
  BY <1>3, <1>4, <1>8, <1>10, EmptySet DEF Inv, ItemsAccounted
<1>19. JoinExact'
  <2>1. Served' = Served \cup {g} /\ g \notin Served
    BY <1>1, <1>2, <1>11 DEF Served, Inv, GettersKept, GetPending
  <2>2. Cardinality(Served') = Cardinality(Served) + 1
    BY <2>1, ServedFinite, FS_AddElement
  <2>3. Len(queue) = 0 /\ Len(queue') = 0
    BY <1>3, <1>4
  <2>4. unfinished = Len(queue) + toProcess + Cardinality(Served) /\ unfinished \in Nat /\ toProcess \in Nat
    BY DEF Inv, JoinExact, Served, TypeOK
  <2>5. unfinished' = Len(queue') + toProcess' + Cardinality(Served')
    BY <1>1, <2>2, <2>3, <2>4, ServedFinite
  <2> QED
    BY <1>1, <1>12, <2>4, <2>5 DEF JoinExact, Served
<1> QED
  BY <1>13, <1>14, <1>15, <1>16, <1>17, <1>18, <1>19 DEF Inv

\* put() with nobody waiting: the item is the last in the queue.
LEMMA PutQueues ==
    ASSUME Inv, NEW i \in Item, PutNow(i),
           \A k \in DOMAIN getters : ~GetPending(getters[k]),
           getters' = <<>>, queue' = Append(queue, i), UNCHANGED <<gfut, delivered>>
    PROVE  Inv'
<1>1. /\ i = NextItem /\ unfinished' = unfinished + 1 /\ Finished!Clear
      /\ pfut' = [pfut EXCEPT ![i] = "result"]
      /\ UNCHANGED <<putters, gtask, toProcess>> /\ ~Full(queue)
  BY DEF PutNow, Accept
<1>2. putters = <<>>
  BY <1>1 DEF Inv, PuttersKept
<1>3. \A g \in Getter : ~GetPending(g)
  <2>1. \A g \in ToSet(getters) : ~GetPending(g)
    BY DEF ToSet
  <2> QED
    BY <2>1 DEF Inv, GettersKept
<1>4. queue \in Seq(Item) /\ Len(queue) \in Nat
  BY DEF Inv, TypeOK
<1>5. /\ queue' \in Seq(Item) /\ Len(queue') = Len(queue) + 1
      /\ ToSet(queue') = ToSet(queue) \cup {i}
  BY <1>4, Appended
<1>6. /\ \A j \in ToSet(queue) : j < i
      /\ \A j \in ToSet(delivered) : j < i
  BY <1>1, NewItem
<1>7. /\ pfut' \in [Item -> {"none", "pending", "result", "timeout"}] /\ pfut'[i] = "result"
      /\ \A j \in Item : j # i => pfut'[j] = pfut[j]
  BY <1>1 DEF Inv, TypeOK
<1>8. finished' = FALSE /\ Finished!TypeOK' /\ Finished!NobodyMissed'
  BY <1>1, Cleared
<1>9. TypeOK'
  <2>1. MaxSize > 0 => Len(queue') <= MaxSize
    BY <1>1, <1>4, <1>5 DEF Full
  <2> QED
    BY <1>1, <1>5, <1>7, <1>8, <2>1 DEF Inv, TypeOK
<1>10. Numbered'
  BY <1>1, NumberedNext
<1>11. Sorted'
  <2>1. Increasing(queue')
    BY <1>4, <1>6, AppendedInOrder DEF Inv, Sorted, Item
  <2>2. Below(ToSet(delivered'), ToSet(queue'))
    BY <1>5, <1>6 DEF Inv, Sorted, Below
  <2>3. ToSet(putters') = {} /\ Increasing(putters')
    BY <1>1, <1>2, EmptySet
  <2> QED
    BY <2>1, <2>2, <2>3 DEF Inv, Sorted, Below
<1>12. PuttersKept'
  BY <1>1, <1>2, <1>7, EmptySet DEF Inv, PuttersKept, PutPending
<1>13. GettersKept'
  BY <1>1, <1>3, EmptySet DEF GettersKept, GetPending
<1>14. ItemsAccounted'
  BY <1>5, <1>7 DEF Inv, ItemsAccounted
<1>15. JoinExact'
  <2>1. Served' = Served
    BY <1>1 DEF Served
  <2>2. unfinished = Len(queue) + toProcess + Cardinality(Served) /\ unfinished \in Nat /\ toProcess \in Nat
    BY DEF Inv, JoinExact, Served, TypeOK
  <2>3. unfinished' = Len(queue') + toProcess' + Cardinality(Served')
    BY <1>1, <1>4, <1>5, <2>1, <2>2, ServedFinite
  <2> QED
    BY <1>1, <1>8, <2>2, <2>3 DEF JoinExact, Served
<1> QED
  BY <1>9, <1>10, <1>11, <1>12, <1>13, <1>14, <1>15 DEF Inv

LEMMA PutNowInv ==
    ASSUME Inv, NEW i \in Item, PutNow(i)
    PROVE  Inv'
<1>1. \/ \E g \in Getter : /\ FirstWaitingGetter(g) /\ getters' = After(getters, g)
                           /\ gfut' = [gfut EXCEPT ![g] = "result"]
                           /\ delivered' = Append(delivered, Head(Append(queue, i)))
                           /\ queue' = Tail(Append(queue, i))
      \/ /\ \A k \in DOMAIN getters : ~GetPending(getters[k])
         /\ getters' = <<>> /\ queue' = Append(queue, i) /\ UNCHANGED <<gfut, delivered>>
  BY DEF PutNow, Accept
<1> QED
  BY <1>1, PutServesGetter, PutQueues

\* put() on a full queue: the item is the last of those that wait.
LEMMA PutWaitInv ==
    ASSUME Inv, NEW i \in Item, PutWait(i)
    PROVE  Inv'
<1>1. /\ i = NextItem /\ Full(queue) /\ putters' = Append(putters, i)
      /\ pfut' = [pfut EXCEPT ![i] = "pending"]
      /\ UNCHANGED <<queue, getters, unfinished, gfut, gtask, delivered, toProcess, evars>>
  BY DEF PutWait
<1>2. putters \in Seq(Item)
  BY DEF Inv, TypeOK
<1>3. putters' \in Seq(Item) /\ ToSet(putters') = ToSet(putters) \cup {i}
  BY <1>1, <1>2, Appended
<1>4. /\ pfut[i] = "none"
      /\ \A j \in ToSet(delivered) \cup ToSet(queue) \cup ToSet(putters) : j < i
  BY <1>1, NewItem DEF Item, Inv, TypeOK
<1>5. /\ pfut' \in [Item -> {"none", "pending", "result", "timeout"}] /\ pfut'[i] = "pending"
      /\ \A j \in Item : j # i => pfut'[j] = pfut[j]
  BY <1>1 DEF Inv, TypeOK
<1>6. TypeOK'
  BY <1>1, <1>3, <1>5 DEF Inv, TypeOK, Finished!TypeOK, evars
<1>7. Numbered'
  BY <1>1, NumberedNext
<1>8. Sorted'
  <2>1. Increasing(putters')
    BY <1>1, <1>2, <1>4, AppendedInOrder DEF Inv, Sorted, Item
  <2> QED
    BY <1>1, <1>3, <1>4, <2>1 DEF Inv, Sorted, Below
<1>9. PuttersKept'
  <2>1. \A j \in ToSet(putters) : j \in Item
    BY <1>2, InSet
  <2> QED
    BY <1>1, <1>3, <1>5, <2>1 DEF Inv, PuttersKept, PutPending, Full
<1>10. GettersKept' /\ JoinExact'
  BY <1>1 DEF Inv, GettersKept, GetPending, JoinExact, evars, Finished!NobodyMissed, Finished!Pending
<1>11. ItemsAccounted'
  BY <1>1, <1>4, <1>5 DEF Inv, ItemsAccounted
<1> QED
  BY <1>6, <1>7, <1>8, <1>9, <1>10, <1>11 DEF Inv

\* A put() that times out keeps its place in the deque.
LEMMA PutTimeoutInv ==
    ASSUME Inv, NEW i \in Item, PutTimeout(i)
    PROVE  Inv'
<1>1. /\ pfut[i] = "pending" /\ pfut' = [pfut EXCEPT ![i] = "timeout"]
      /\ UNCHANGED <<queue, getters, putters, unfinished, gfut, gtask, delivered, toProcess, evars>>
  BY DEF PutTimeout, PutPending
<1>2. /\ pfut' \in [Item -> {"none", "pending", "result", "timeout"}] /\ pfut'[i] = "timeout"
      /\ \A j \in Item : j # i => pfut'[j] = pfut[j]
  BY <1>1 DEF Inv, TypeOK
<1>3. TypeOK'
  BY <1>1, <1>2 DEF Inv, TypeOK, Finished!TypeOK, evars
<1>4. Numbered'
  BY <1>1, <1>2 DEF Inv, Numbered
<1>5. Sorted' /\ GettersKept' /\ JoinExact'
  BY <1>1 DEF Inv, Sorted, GettersKept, GetPending, JoinExact, evars, Finished!NobodyMissed,
              Finished!Pending
<1>6. PuttersKept'
  <2>1. \A j \in ToSet(putters) : j \in Item
    BY InSet DEF Inv, TypeOK
  <2> QED
    BY <1>1, <1>2, <2>1 DEF Inv, PuttersKept, PutPending, Full
<1>7. ItemsAccounted'
  BY <1>1, <1>2 DEF Inv, ItemsAccounted
<1> QED
  BY <1>3, <1>4, <1>5, <1>6, <1>7 DEF Inv

-----------------------------------------------------------------------------
(* get(). *)

\* What the head of the queue being taken leaves of the order.
LEMMA Taken ==
    ASSUME Inv, queue # <<>>, delivered' = Append(delivered, Head(queue))
    PROVE  LET rest == Tail(queue) IN
           /\ rest \in Seq(Item) /\ Len(rest) = Len(queue) - 1 /\ Len(queue) \in Nat \ {0}
           /\ Increasing(rest)
           /\ delivered' \in Seq(Item) /\ Increasing(delivered')
           /\ Below(ToSet(delivered'), ToSet(rest)) /\ Below(ToSet(delivered'), ToSet(putters))
           /\ Below(ToSet(rest), ToSet(putters))
           /\ ToSet(delivered') \cup ToSet(rest) = ToSet(delivered) \cup ToSet(queue)
<1> DEFINE rest == Tail(queue)
           h == Head(queue)
<1>1. Item \in SUBSET Int /\ queue \in Seq(Item) /\ delivered \in Seq(Item)
  BY DEF Item, Inv, TypeOK
<1>2. /\ Increasing(delivered) /\ Increasing(queue)
      /\ Below(ToSet(delivered), ToSet(queue)) /\ Below(ToSet(delivered), ToSet(putters))
      /\ Below(ToSet(queue), ToSet(putters))
  BY DEF Inv, Sorted
<1>3. /\ h \in Item /\ rest \in Seq(Item) /\ Len(rest) = Len(queue) - 1 /\ Len(queue) \in Nat \ {0}
      /\ ToSet(queue) = ToSet(rest) \cup {h}
      /\ Increasing(rest) /\ \A y \in ToSet(rest) : h < y
  BY <1>1, <1>2, HeadAndTail
<1> HIDE DEF rest, h
<1>4. delivered' = Append(delivered, h)
  BY DEF h
<1>5. delivered' \in Seq(Item) /\ ToSet(delivered') = ToSet(delivered) \cup {h}
  BY <1>1, <1>3, <1>4, Appended
<1>6. \A y \in ToSet(delivered) : y < h
  BY <1>2, <1>3 DEF Below
<1>7. Increasing(delivered')
  BY <1>1, <1>2, <1>3, <1>4, <1>6, AppendedInOrder
<1>8. /\ Below(ToSet(delivered'), ToSet(rest)) /\ Below(ToSet(delivered'), ToSet(putters))
      /\ Below(ToSet(rest), ToSet(putters))
  BY <1>2, <1>3, <1>5 DEF Below
<1>9. ToSet(delivered') \cup ToSet(rest) = ToSet(delivered) \cup ToSet(queue)
  BY <1>3, <1>5
<1> QED
  BY <1>3, <1>5, <1>7, <1>8, <1>9 DEF rest

\* get() lets the first put() that waits have the place in the queue.
LEMMA GetAdmitsPutter ==
    ASSUME Inv, GetNow, NEW k \in DOMAIN putters,
           PutPending(putters[k]), \A j \in 1 .. k-1 : ~PutPending(putters[j]),
           putters' = SubSeq(putters, k+1, Len(putters)),
           pfut' = [pfut EXCEPT ![putters[k]] = "result"],
           queue' = Append(Tail(queue), putters[k]),
           unfinished' = unfinished + 1, Finished!Clear
    PROVE  Inv'
<1> DEFINE x == putters[k]
           rest == Tail(queue)
<1>1. /\ queue # <<>> /\ delivered' = Append(delivered, Head(queue))
      /\ toProcess' = toProcess + 1 /\ UNCHANGED <<getters, gfut, gtask>>
  BY DEF GetNow
<1>2. /\ putters \in Seq(Item) /\ k \in 1 .. Len(putters) /\ x \in Item
      /\ Increasing(putters) /\ Item \in SUBSET Int
  <2>1. putters \in Seq(Item) /\ Increasing(putters)
    BY DEF Inv, TypeOK, Sorted
  <2>2. k \in 1 .. Len(putters) /\ x \in Item
    BY <2>1
  <2>3. Item \in SUBSET Int
    BY DEF Item
  <2> QED
    BY <2>1, <2>2, <2>3
<1>3. /\ rest \in Seq(Item) /\ Len(rest) = Len(queue) - 1 /\ Len(queue) \in Nat \ {0}
      /\ Increasing(rest)
      /\ delivered' \in Seq(Item) /\ Increasing(delivered')
      /\ Below(ToSet(delivered'), ToSet(rest)) /\ Below(ToSet(delivered'), ToSet(putters))
      /\ Below(ToSet(rest), ToSet(putters))
      /\ ToSet(delivered') \cup ToSet(rest) = ToSet(delivered) \cup ToSet(queue)
  BY <1>1, Taken
<1>4. putters' = Rest(putters, k) /\ queue' = Append(rest, x)
  BY DEF Rest
<1>5. /\ putters' \in Seq(Item) /\ ToSet(putters') \subseteq ToSet(putters)
      /\ \A y \in ToSet(putters) : y \in ToSet(putters') \/ \E j \in 1 .. k : putters[j] = y
  <2>1. /\ Rest(putters, k) \in Seq(Item) /\ ToSet(Rest(putters, k)) \subseteq ToSet(putters)
        /\ \A y \in ToSet(putters) :
              y \in ToSet(Rest(putters, k)) \/ \E j \in 1 .. k : putters[j] = y
    BY <1>2, Behind
  <2> QED
    BY <1>4, <2>1
<1>6. Increasing(putters') /\ \A y \in ToSet(putters') : x < y
  BY <1>2, <1>4, BehindInOrder
<1>7. x \in ToSet(putters) /\ \A y \in ToSet(rest) : y < x
  BY <1>2, <1>3, InSet DEF Below
<1>8. /\ pfut' \in [Item -> {"none", "pending", "result", "timeout"}] /\ pfut'[x] = "result"
      /\ \A j \in Item : j # x => pfut'[j] = pfut[j]
      /\ pfut[x] = "pending"
  BY <1>2 DEF Inv, TypeOK, PutPending
<1>9. \A j \in 1 .. k : putters[j] = x \/ ~PutPending(putters[j])
  <2>1. \A j \in 1 .. k : j = k \/ j \in 1 .. k - 1
    BY <1>2
  <2> QED
    BY <2>1
<1> HIDE DEF x, rest
<1>10. /\ queue' \in Seq(Item) /\ Len(queue') = Len(queue)
       /\ ToSet(queue') = ToSet(rest) \cup {x} /\ queue' # <<>>
  <2>1. /\ queue' \in Seq(Item) /\ Len(queue') = Len(rest) + 1
        /\ ToSet(queue') = ToSet(rest) \cup {x} /\ queue' # <<>>
    <3>1. /\ Append(rest, x) \in Seq(Item) /\ Len(Append(rest, x)) = Len(rest) + 1
          /\ ToSet(Append(rest, x)) = ToSet(rest) \cup {x} /\ Append(rest, x) # <<>>
      BY <1>2, <1>3, Appended
    <3> QED
      BY <1>4, <3>1
  <2> QED
    BY <1>3, <2>1
<1>11. Increasing(queue')
  BY <1>2, <1>3, <1>4, <1>7, AppendedInOrder
<1>12. finished' = FALSE /\ Finished!TypeOK' /\ Finished!NobodyMissed'
  BY Cleared
<1>13. TypeOK'
  BY <1>1, <1>3, <1>5, <1>8, <1>10, <1>12 DEF Inv, TypeOK
<1>14. Numbered'
  BY <1>8 DEF Inv, Numbered
<1>15. Sorted'
  <2>1. Below(ToSet(delivered'), ToSet(queue')) /\ Below(ToSet(delivered'), ToSet(putters'))
    BY <1>3, <1>5, <1>7, <1>10 DEF Below
  <2>2. Below(ToSet(queue'), ToSet(putters'))
    BY <1>3, <1>5, <1>6, <1>10 DEF Below
  <2> QED
    BY <1>3, <1>6, <1>11, <2>1, <2>2 DEF Sorted
<1>16. PuttersKept'
  <2>1. Full(queue')
    <3>1. Full(queue)
      BY <1>2 DEF Inv, PuttersKept
    <3> QED
      BY <1>10, <3>1 DEF Full
  <2>2. \A j \in ToSet(putters') : j \in Item /\ j # x
    BY <1>2, <1>5, <1>6, InSet
  <2>3. \A j \in ToSet(putters') : pfut'[j] \in {"pending", "timeout"}
    BY <1>5, <1>8, <2>2 DEF Inv, PuttersKept
  <2>4. ASSUME NEW j \in Item, PutPending(j)' PROVE j \in ToSet(putters')
    <3>1. j # x /\ PutPending(j)
      BY <1>8, <2>4 DEF PutPending
    <3>2. j \in ToSet(putters)
      BY <3>1 DEF Inv, PuttersKept
    <3> QED
      BY <1>5, <1>9, <3>1, <3>2
  <2> QED
    BY <2>1, <2>3, <2>4 DEF PuttersKept
<1>17. GettersKept'
  BY <1>1, <1>10 DEF Inv, GettersKept, GetPending
<1>18. ItemsAccounted'
  BY <1>2, <1>3, <1>8, <1>10 DEF Inv, ItemsAccounted
<1>19. JoinExact'
  <2>1. Served' = Served
    BY <1>1 DEF Served
  <2>2. unfinished = Len(queue) + toProcess + Cardinality(Served) /\ unfinished \in Nat /\ toProcess \in Nat
    BY DEF Inv, JoinExact, Served, TypeOK
  <2>3. unfinished' = Len(queue') + toProcess' + Cardinality(Served')
    BY <1>1, <1>3, <1>10, <2>1, <2>2, ServedFinite
  <2> QED
    BY <1>12, <2>2, <2>3 DEF JoinExact, Served
<1> QED
  BY <1>13, <1>14, <1>15, <1>16, <1>17, <1>18, <1>19 DEF Inv

\* get() with no put() waiting.
LEMMA GetTakes ==
    ASSUME Inv, GetNow, \A k \in DOMAIN putters : ~PutPending(putters[k]),
           putters' = <<>>, queue' = Tail(queue), UNCHANGED <<pfut, unfinished, evars>>
    PROVE  Inv'
<1>1. /\ queue # <<>> /\ delivered' = Append(delivered, Head(queue))
      /\ toProcess' = toProcess + 1 /\ UNCHANGED <<getters, gfut, gtask>>
  BY DEF GetNow
<1>2. /\ queue' \in Seq(Item) /\ Len(queue') = Len(queue) - 1 /\ Len(queue) \in Nat \ {0}
      /\ Increasing(queue')
      /\ delivered' \in Seq(Item) /\ Increasing(delivered')
      /\ Below(ToSet(delivered'), ToSet(queue'))
      /\ ToSet(delivered') \cup ToSet(queue') = ToSet(delivered) \cup ToSet(queue)
  BY <1>1, Taken
<1>3. TypeOK'
  BY <1>1, <1>2 DEF Inv, TypeOK, Finished!TypeOK, evars
<1>4. Numbered'
  BY DEF Inv, Numbered
<1>5. Sorted'
  BY <1>2, EmptySet DEF Sorted, Below
<1>6. \A i \in Item : ~PutPending(i)
  <2>1. \A i \in ToSet(putters) : ~PutPending(i)
    BY DEF ToSet
  <2> QED
    BY <2>1 DEF Inv, PuttersKept
<1>7. PuttersKept'
  BY <1>6, EmptySet DEF PuttersKept, PutPending
<1>8. GettersKept'
  BY <1>1 DEF Inv, GettersKept, GetPending
<1>9. ItemsAccounted'
  BY <1>2 DEF Inv, ItemsAccounted
<1>10. JoinExact'
  <2>1. Served' = Served
    BY <1>1 DEF Served
  <2>2. unfinished = Len(queue) + toProcess + Cardinality(Served) /\ unfinished \in Nat /\ toProcess \in Nat
    BY DEF Inv, JoinExact, Served, TypeOK
  <2>3. unfinished' = Len(queue') + toProcess' + Cardinality(Served')
    BY <1>1, <1>2, <2>1, <2>2, ServedFinite
  <2> QED
    BY <2>3 DEF Inv, JoinExact, Served, evars, Finished!NobodyMissed, Finished!Pending
<1> QED
  BY <1>3, <1>4, <1>5, <1>7, <1>8, <1>9, <1>10 DEF Inv

LEMMA GetNowInv ==
    ASSUME Inv, GetNow
    PROVE  Inv'
<1>1. \/ \E k \in DOMAIN putters :
            /\ PutPending(putters[k]) /\ \A j \in 1 .. k-1 : ~PutPending(putters[j])
            /\ putters' = SubSeq(putters, k+1, Len(putters))
            /\ pfut' = [pfut EXCEPT ![putters[k]] = "result"]
            /\ queue' = Append(Tail(queue), putters[k])
            /\ unfinished' = unfinished + 1 /\ Finished!Clear
      \/ /\ \A k \in DOMAIN putters : ~PutPending(putters[k])
         /\ putters' = <<>> /\ queue' = Tail(queue) /\ UNCHANGED <<pfut, unfinished, evars>>
  BY DEF GetNow, NotifyPutters
<1> QED
  BY <1>1, GetAdmitsPutter, GetTakes

LEMMA GetWaitInv ==
    ASSUME Inv, NEW g \in Getter, GetWait(g)
    PROVE  Inv'
<1>1. /\ queue = <<>> /\ gtask[g] = "done" /\ g \notin ToSet(getters)
      /\ getters' = Append(getters, g) /\ gfut' = [gfut EXCEPT ![g] = "pending"]
      /\ UNCHANGED <<queue, putters, unfinished, pfut, delivered, toProcess, evars>>
  BY DEF GetWait
<1>2. getters \in Seq(Getter)
  BY DEF Inv, TypeOK
<1>3. getters' \in Seq(Getter) /\ ToSet(getters') = ToSet(getters) \cup {g} /\ Distinct(getters')
  BY <1>1, <1>2, Appended, AppendedDistinct DEF Inv, GettersKept
<1>4. /\ gfut' \in [Getter -> {"none", "pending", "result", "timeout"}] /\ gfut'[g] = "pending"
      /\ \A h \in Getter : h # g => gfut'[h] = gfut[h]
  BY <1>1 DEF Inv, TypeOK
<1>5. /\ gtask' \in [Getter -> {"done", "awaiting", "orphan"}] /\ gtask'[g] # "done"
      /\ \A h \in Getter : h # g => gtask'[h] = gtask[h]
  BY DEF GetWait, Inv, TypeOK
<1>6. TypeOK'
  BY <1>1, <1>3, <1>4, <1>5 DEF Inv, TypeOK, Finished!TypeOK, evars
<1>7. Numbered' /\ Sorted' /\ PuttersKept' /\ ItemsAccounted'
  BY <1>1 DEF Inv, Numbered, Sorted, PuttersKept, PutPending, Full, ItemsAccounted
<1>8. GettersKept'
  BY <1>1, <1>3, <1>4, <1>5 DEF Inv, GettersKept, GetPending
<1>9. JoinExact'
  <2>1. Served' = Served
    BY <1>1, <1>4, <1>5 DEF Served
  <2> QED
    BY <1>1, <2>1 DEF Inv, JoinExact, Served, evars, Finished!NobodyMissed, Finished!Pending
<1> QED
  BY <1>6, <1>7, <1>8, <1>9 DEF Inv

LEMMA GetTimeoutInv ==
    ASSUME Inv, NEW g \in Getter, GetTimeout(g)
    PROVE  Inv'
<1>1. /\ gfut[g] = "pending" /\ gfut' = [gfut EXCEPT ![g] = "timeout"]
      /\ UNCHANGED <<queue, getters, putters, unfinished, pfut, gtask, delivered, toProcess, evars>>
  BY DEF GetTimeout, GetPending
<1>2. /\ gfut' \in [Getter -> {"none", "pending", "result", "timeout"}] /\ gfut'[g] = "timeout"
      /\ \A h \in Getter : h # g => gfut'[h] = gfut[h]
  BY <1>1 DEF Inv, TypeOK
<1>3. TypeOK'
  BY <1>1, <1>2 DEF Inv, TypeOK, Finished!TypeOK, evars
<1>4. Numbered' /\ Sorted' /\ PuttersKept' /\ ItemsAccounted'
  BY <1>1 DEF Inv, Numbered, Sorted, PuttersKept, PutPending, Full, ItemsAccounted
<1>5. GettersKept'
  BY <1>1, <1>2 DEF Inv, GettersKept, GetPending
<1>6. JoinExact'
  <2>1. Served' = Served
    BY <1>1, <1>2 DEF Served
  <2> QED
    BY <1>1, <2>1 DEF Inv, JoinExact, Served, evars, Finished!NobodyMissed, Finished!Pending
<1> QED
  BY <1>3, <1>4, <1>5, <1>6 DEF Inv

\* An item that was on its way is now in its consumer's hands.
LEMMA ResumeInv ==
    ASSUME Inv, NEW g \in Getter, Resume(g)
    PROVE  Inv'
<1>1. /\ gtask[g] = "awaiting" /\ ~GetPending(g)
      /\ gtask' = [gtask EXCEPT ![g] = "done"]
      /\ toProcess' = IF gfut[g] = "result" THEN toProcess + 1 ELSE toProcess
      /\ UNCHANGED <<queue, getters, putters, unfinished, pfut, gfut, delivered, evars>>
  BY DEF Resume
<1>2. /\ gtask' \in [Getter -> {"done", "awaiting", "orphan"}] /\ gtask'[g] = "done"
      /\ \A h \in Getter : h # g => gtask'[h] = gtask[h]
  BY <1>1 DEF Inv, TypeOK
<1>3. TypeOK'
  BY <1>1, <1>2 DEF Inv, TypeOK, Finished!TypeOK, evars
<1>4. Numbered' /\ Sorted' /\ PuttersKept' /\ ItemsAccounted'
  BY <1>1 DEF Inv, Numbered, Sorted, PuttersKept, PutPending, Full, ItemsAccounted
<1>5. GettersKept'
  BY <1>1, <1>2 DEF Inv, GettersKept, GetPending
<1>6. JoinExact'
  <2>1. unfinished = Len(queue) + toProcess + Cardinality(Served) /\ unfinished \in Nat /\ toProcess \in Nat
        /\ Len(queue) \in Nat
    BY DEF Inv, JoinExact, Served, TypeOK
  <2>2. toProcess' + Cardinality(Served') = toProcess + Cardinality(Served)
    <3>1. CASE gfut[g] = "result"
      <4>1. Served' = Served \ {g} /\ g \in Served
        BY <1>1, <1>2, <3>1 DEF Served
      <4>2. Cardinality(Served') = Cardinality(Served) - 1
        BY <4>1, ServedFinite, FS_RemoveElement
      <4> QED
        BY <1>1, <2>1, <3>1, <4>2, ServedFinite
    <3>2. CASE gfut[g] # "result"
      <4>1. Served' = Served
        BY <1>1, <1>2, <3>2 DEF Served
      <4> QED
        BY <1>1, <3>2, <4>1
    <3> QED
      BY <3>1, <3>2
  <2>3. Cardinality(Served') \in Nat /\ toProcess' \in Nat
    <3>1. IsFiniteSet(Served')
      BY FS_Subset DEF Served
    <3> QED
      BY <3>1, <1>3, FS_CardinalityType DEF TypeOK
  <2>4. unfinished' = Len(queue') + toProcess' + Cardinality(Served')
    BY <1>1, <2>1, <2>2, <2>3, ServedFinite
  <2> QED
    BY <1>1, <2>4 DEF Inv, JoinExact, Served, evars, Finished!NobodyMissed, Finished!Pending
<1> QED
  BY <1>3, <1>4, <1>5, <1>6 DEF Inv

-----------------------------------------------------------------------------
(* task_done() and join(). *)

LEMMA TaskDoneInv ==
    ASSUME Inv, TaskDone
    PROVE  Inv'
<1>1. /\ toProcess > 0 /\ unfinished > 0
      /\ toProcess' = toProcess - 1 /\ unfinished' = unfinished - 1
      /\ \/ unfinished' = 0 /\ Finished!Set
         \/ unfinished' # 0 /\ UNCHANGED evars
      /\ UNCHANGED <<queue, getters, putters, pfut, gfut, gtask, delivered>>
  BY DEF TaskDone
<1>2. unfinished = Len(queue) + toProcess + Cardinality(Served) /\ unfinished \in Nat /\ toProcess \in Nat
      /\ Len(queue) \in Nat /\ (finished <=> unfinished = 0) /\ finished \in BOOLEAN
      /\ Finished!NobodyMissed /\ Finished!TypeOK
  BY DEF Inv, JoinExact, Served, TypeOK, Finished!TypeOK
<1>3. toProcess' \in Nat /\ unfinished' \in Nat
  BY <1>1, <1>2
<1>4. Finished!TypeOK' /\ Finished!NobodyMissed' /\ (finished' <=> unfinished' = 0)
  <2>1. CASE unfinished' = 0 /\ Finished!Set
    <3>1. finished' = TRUE
      BY <2>1 DEF Finished!Set
    <3>2. Finished!TypeOK' /\ Finished!NobodyMissed'
      BY <1>2, <2>1 DEF Finished!Set, Finished!TypeOK, Finished!NobodyMissed, Finished!Pending
    <3> QED
      BY <2>1, <3>1, <3>2
  <2>2. CASE unfinished' # 0 /\ UNCHANGED evars
    <3>1. Finished!TypeOK' /\ Finished!NobodyMissed'
      BY <1>2, <2>2 DEF evars, Finished!TypeOK, Finished!NobodyMissed, Finished!Pending
    <3>2. ~finished /\ finished' = finished
      BY <1>1, <1>2, <2>2 DEF evars
    <3> QED
      BY <2>2, <3>1, <3>2
  <2> QED
    BY <1>1, <2>1, <2>2
<1>5. TypeOK'
  BY <1>1, <1>3, <1>4 DEF Inv, TypeOK
<1>6. Numbered' /\ Sorted' /\ PuttersKept' /\ ItemsAccounted'
  BY <1>1 DEF Inv, Numbered, Sorted, PuttersKept, PutPending, Full, ItemsAccounted
<1>7. GettersKept'
  BY <1>1 DEF Inv, GettersKept, GetPending
<1>8. JoinExact'
  <2>1. Served' = Served
    BY <1>1 DEF Served
  <2>2. unfinished' = Len(queue') + toProcess' + Cardinality(Served')
    BY <1>1, <1>2, <2>1, ServedFinite
  <2> QED
    BY <1>4, <2>2 DEF JoinExact, Served
<1> QED
  BY <1>5, <1>6, <1>7, <1>8 DEF Inv

LEMMA JoinInv ==
    ASSUME Inv, NEW j \in Joiner, Join(j)
    PROVE  Inv'
<1>1. Finished!WaiterStep(j) /\ UNCHANGED qvars
  BY DEF Join
<1>2. Finished!TypeOK /\ Finished!NobodyMissed
  BY DEF Inv, TypeOK, JoinExact
<1>3. finished' = finished /\ Finished!TypeOK' /\ Finished!NobodyMissed'
  <2>1. CASE Finished!WaitSet(j)
    BY <1>2, <2>1 DEF Finished!WaitSet, Finished!TypeOK, Finished!NobodyMissed, Finished!Pending
  <2>2. CASE Finished!Wait(j)
    BY <1>2, <2>2 DEF Finished!Wait, Finished!TypeOK, Finished!NobodyMissed, Finished!Pending
  <2>3. CASE Finished!WaitTimeout(j)
    BY <1>2, <2>3 DEF Finished!WaitTimeout, Finished!TypeOK, Finished!NobodyMissed, Finished!Pending
  <2>4. CASE Finished!OnTimeout(j)
    BY <1>2, <2>4 DEF Finished!OnTimeout, Finished!TypeOK, Finished!NobodyMissed, Finished!Pending
  <2>5. CASE Finished!Resume(j)
    BY <1>2, <2>5 DEF Finished!Resume, Finished!TypeOK, Finished!NobodyMissed, Finished!Pending
  <2>6. CASE Finished!Cancel(j)
    BY <1>2, <2>6 DEF Finished!Cancel, Finished!TypeOK, Finished!NobodyMissed, Finished!Pending
  <2> QED
    BY <1>1, <2>1, <2>2, <2>3, <2>4, <2>5, <2>6 DEF Finished!WaiterStep
<1>4. TypeOK'
  BY <1>1, <1>3 DEF Inv, TypeOK, qvars
<1>5. Numbered' /\ Sorted' /\ PuttersKept' /\ ItemsAccounted' /\ GettersKept'
  BY <1>1 DEF Inv, Numbered, Sorted, PuttersKept, PutPending, Full, ItemsAccounted,
              GettersKept, GetPending, qvars
<1>6. JoinExact'
  BY <1>1, <1>3 DEF Inv, JoinExact, qvars
<1> QED
  BY <1>4, <1>5, <1>6 DEF Inv

-----------------------------------------------------------------------------
LEMMA InitInv == Init => Inv
<1> SUFFICES ASSUME Init PROVE Inv
  OBVIOUS
<1>1. TypeOK
  BY DEF Init, TypeOK, Finished!TypeOK
<1>2. Numbered
  BY DEF Init, Numbered, Item
<1>3. Sorted /\ PuttersKept /\ GettersKept
  BY EmptySet DEF Init, Sorted, Below, PuttersKept, PutPending, GettersKept, GetPending
<1>4. ItemsAccounted
  BY EmptySet DEF Init, ItemsAccounted
<1>5. JoinExact
  <2>1. Served = {}
    BY DEF Init, Served
  <2>2. Cardinality(Served) = 0
    BY <2>1, FS_EmptySet
  <2> QED
    BY <2>2 DEF Init, JoinExact, Served, Finished!NobodyMissed, Finished!Pending
<1> QED
  BY <1>1, <1>2, <1>3, <1>4, <1>5 DEF Inv

LEMMA NextInv == Inv /\ [Next]_vars => Inv'
<1> SUFFICES ASSUME Inv, [Next]_vars PROVE Inv'
  OBVIOUS
<1>1. ASSUME NEW i \in Item, PutNow(i) \/ PutWait(i) \/ PutTimeout(i) PROVE Inv'
  BY <1>1, PutNowInv, PutWaitInv, PutTimeoutInv
<1>2. ASSUME NEW g \in Getter, GetWait(g) \/ GetTimeout(g) \/ Resume(g) PROVE Inv'
  BY <1>2, GetWaitInv, GetTimeoutInv, ResumeInv
<1>3. ASSUME NEW j \in Joiner, Join(j) PROVE Inv'
  BY <1>3, JoinInv
<1>4. CASE UNCHANGED vars
  BY <1>4 DEF vars, qvars, evars, Inv, TypeOK, Numbered, Sorted, PuttersKept, PutPending, Full,
         ItemsAccounted, GettersKept, GetPending, JoinExact, Finished!TypeOK,
         Finished!NobodyMissed, Finished!Pending
<1> QED
  BY <1>1, <1>2, <1>3, <1>4, GetNowInv, TaskDoneInv DEF Next

\* The invariant holds in every reachable state.
THEOREM Invariance == Spec => []Inv
  BY InitInv, NextInv, PTL DEF Spec

\* The variables keep their types and the queue never exceeds maxsize.
THEOREM TypeCorrect == Spec => []TypeOK
<1>1. Inv => TypeOK
  BY DEF Inv
<1> QED
  BY <1>1, Invariance, PTL

\* Two increasing sequences, the second above the first.
LEMMA JoinedInOrder ==
    ASSUME NEW s \in Seq(Int), NEW t \in Seq(Int), Increasing(s), Increasing(t),
           Below(ToSet(s), ToSet(t))
    PROVE  /\ s \o t \in Seq(Int) /\ Increasing(s \o t)
           /\ ToSet(s \o t) = ToSet(s) \cup ToSet(t)
<1>1. /\ s \o t \in Seq(Int) /\ Len(s) \in Nat /\ Len(t) \in Nat
      /\ Len(s \o t) = Len(s) + Len(t)
      /\ \A k \in 1 .. Len(s) : (s \o t)[k] = s[k]
      /\ \A k \in 1 .. Len(t) : (s \o t)[Len(s) + k] = t[k]
  OBVIOUS
<1> DEFINE u == s \o t
<1> HIDE DEF u
<1>2. \A k \in 1 .. Len(u) :
          \/ k \in 1 .. Len(s) /\ u[k] = s[k]
          \/ k \notin 1 .. Len(s) /\ k - Len(s) \in 1 .. Len(t) /\ u[k] = t[k - Len(s)]
  <2> TAKE k \in 1 .. Len(u)
  <2>1. k \notin 1 .. Len(s) => k - Len(s) \in 1 .. Len(t) /\ Len(s) + (k - Len(s)) = k
    BY <1>1 DEF u
  <2> QED
    BY <1>1, <2>1 DEF u
<1>3. \A j \in 1 .. Len(s), k \in 1 .. Len(t) : s[j] < t[k]
  BY InSet DEF Below
<1>4. ASSUME NEW j \in 1 .. Len(u), NEW k \in 1 .. Len(u), j < k PROVE u[j] < u[k]
  <2>1. CASE k \in 1 .. Len(s)
    <3>1. j \in 1 .. Len(s)
      BY <1>1, <1>4, <2>1
    <3> QED
      BY <1>2, <1>4, <2>1, <3>1 DEF Increasing
  <2>2. CASE j \in 1 .. Len(s) /\ k \notin 1 .. Len(s)
    BY <1>2, <1>3, <2>2
  <2>3. CASE j \notin 1 .. Len(s) /\ k \notin 1 .. Len(s)
    <3>1. /\ j - Len(s) \in 1 .. Len(t) /\ k - Len(s) \in 1 .. Len(t)
          /\ j - Len(s) < k - Len(s)
      BY <1>1, <1>2, <1>4, <2>3
    <3> QED
      BY <1>2, <2>3, <3>1 DEF Increasing
  <2> QED
    BY <2>1, <2>2, <2>3
<1>5. ASSUME NEW x \in ToSet(u) PROVE x \in ToSet(s) \cup ToSet(t)
  <2>1. PICK k \in 1 .. Len(u) : u[k] = x
    BY <1>1, <1>5, InSet DEF u
  <2> QED
    BY <1>2, <2>1, InSet
<1>6. ASSUME NEW x \in ToSet(s) \cup ToSet(t) PROVE x \in ToSet(u)
  <2>1. CASE x \in ToSet(s)
    <3>1. PICK k \in 1 .. Len(s) : s[k] = x
      BY <2>1, InSet
    <3>2. k \in 1 .. Len(u) /\ u[k] = x
      BY <1>1, <3>1 DEF u
    <3> QED
      BY <1>1, <3>2, InSet DEF u
  <2>2. CASE x \in ToSet(t)
    <3>1. PICK k \in 1 .. Len(t) : t[k] = x
      BY <2>2, InSet
    <3>2. Len(s) + k \in 1 .. Len(u) /\ u[Len(s) + k] = x
      BY <1>1, <3>1 DEF u
    <3> QED
      BY <1>1, <3>2, InSet DEF u
  <2> QED
    BY <1>6, <2>1, <2>2
<1> QED
  BY <1>1, <1>4, <1>5, <1>6 DEF u, Increasing

\* First in, first out, whatever times out and however get() and put() calls
\* overtake each other; and no item is lost or made up.
THEOREM FifoCorrect == Spec => []Fifo
<1>1. ASSUME Inv PROVE Fifo
  <2> DEFINE front == delivered \o queue
             line == front \o putters
  <2>1. /\ delivered \in Seq(Int) /\ queue \in Seq(Int) /\ putters \in Seq(Int)
    BY <1>1 DEF Inv, TypeOK, Item
  <2>2. front \in Seq(Int) /\ Increasing(front) /\ ToSet(front) = ToSet(delivered) \cup ToSet(queue)
    BY <1>1, <2>1, JoinedInOrder DEF Inv, Sorted
  <2> HIDE DEF front
  <2>3. Below(ToSet(front), ToSet(putters))
    BY <1>1, <2>2 DEF Inv, Sorted, Below
  <2>4. line \in Seq(Int) /\ Increasing(line)
    BY <1>1, <2>1, <2>2, <2>3, JoinedInOrder DEF Inv, Sorted
  <2> HIDE DEF line
  <2>5. ASSUME NEW k \in 1 .. Len(line) - 1 PROVE line[k] < line[k + 1]
    <3>1. Len(line) \in Nat
      BY <2>4
    <3>2. k \in 1 .. Len(line) /\ k + 1 \in 1 .. Len(line) /\ k < k + 1
      BY <3>1
    <3> QED
      BY <2>4, <3>2 DEF Increasing
  <2> QED
    BY <1>1, <2>5 DEF Fifo, front, line, Inv, ItemsAccounted
<1> QED
  BY <1>1, Invariance, PTL

\* No get() waits while there is an item and no put() while there is room,
\* though the deques keep Futures that timed out.
THEOREM WaitsCorrect == Spec => []NobodyWaitsInVain
<1>1. ASSUME Inv PROVE NobodyWaitsInVain
  <2>1. ASSUME queue # <<>>, NEW g \in Getter PROVE ~GetPending(g)
    <3>1. ToSet(getters) = {}
      BY <1>1, <2>1, EmptySet DEF Inv, GettersKept
    <3> QED
      BY <1>1, <3>1 DEF Inv, GettersKept
  <2>2. ASSUME ~Full(queue), NEW i \in Item PROVE ~PutPending(i)
    <3>1. ToSet(putters) = {}
      BY <1>1, <2>2, EmptySet DEF Inv, PuttersKept
    <3> QED
      BY <1>1, <3>1 DEF Inv, PuttersKept
  <2> QED
    BY <2>1, <2>2 DEF NobodyWaitsInVain
<1> QED
  BY <1>1, Invariance, PTL

\* join() is open exactly while nothing is unfinished, the counter counts the
\* items queued, on their way and being processed, and set() reaches everybody.
THEOREM JoinCorrect == Spec => []JoinExact
<1>1. Inv => JoinExact
  BY DEF Inv
<1> QED
  BY <1>1, Invariance, PTL

\* A join() returns at a moment when nothing is undone, because the Event is
\* then set, and times out at a moment when something is, because a pending
\* Future is in the set and the set is empty while the Event is set.
THEOREM JoinHonestly == Spec => JoinHonest
<1> DEFINE Told(j) == /\ (jfut'[j] = "result" /\ jfut[j] # "result") => unfinished' = 0
                      /\ (jfut'[j] = "timeout" /\ jfut[j] # "timeout") => unfinished > 0
<1>1. ASSUME Inv, [Next]_vars, NEW w \in Joiner PROVE Told(w)
  <2>1. /\ Finished!TypeOK /\ Finished!NobodyMissed
        /\ unfinished \in Nat /\ (finished <=> unfinished = 0)
    BY <1>1 DEF Inv, TypeOK, JoinExact
  <2>2. jfut[w] = "pending" => unfinished > 0
    BY <2>1 DEF Finished!NobodyMissed, Finished!Pending
  <2>3. ASSUME NEW j \in Joiner, Join(j) PROVE Told(w)
    <3>1. jfut'[w] = "result" => jfut[w] = "result" \/ unfinished' = 0
      BY <2>1, <2>3 DEF Join, qvars, Finished!WaiterStep, Finished!WaitSet, Finished!Wait,
             Finished!WaitTimeout, Finished!OnTimeout, Finished!Resume, Finished!Cancel,
             Finished!Fresh, Finished!Pending, Finished!TypeOK
    <3>2. jfut'[w] = "timeout" => jfut[w] = "timeout" \/ jfut[w] = "pending"
      BY <2>1, <2>3 DEF Join, Finished!WaiterStep, Finished!WaitSet, Finished!Wait,
             Finished!WaitTimeout, Finished!OnTimeout, Finished!Resume, Finished!Cancel,
             Finished!Fresh, Finished!Pending, Finished!TypeOK
    <3> QED
      BY <2>2, <3>1, <3>2
  <2>4. CASE TaskDone
    <3>1. jfut'[w] # jfut[w] => jfut'[w] = "result" /\ unfinished' = 0
      BY <2>1, <2>4 DEF TaskDone, Finished!Set, Finished!Pending, evars
    <3> QED
      BY <3>1
  <2>5. CASE jfut' = jfut
    BY <2>5
  <2>6. ASSUME NEW i \in Item, PutNow(i) \/ PutWait(i) \/ PutTimeout(i)
        PROVE  jfut' = jfut
    BY <2>6 DEF PutNow, Accept, PutWait, PutTimeout, Finished!Clear, evars
  <2>7. ASSUME GetNow PROVE jfut' = jfut
    BY <2>7 DEF GetNow, NotifyPutters, Finished!Clear, evars
  <2>8. ASSUME NEW g \in Getter, GetWait(g) \/ GetTimeout(g) \/ Resume(g)
        PROVE  jfut' = jfut
    BY <2>8 DEF GetWait, GetTimeout, Resume, evars
  <2>9. CASE UNCHANGED vars
    BY <2>5, <2>9 DEF vars, evars
  <2> HIDE DEF Told
  <2> QED
    BY <1>1, <2>3, <2>4, <2>5, <2>6, <2>7, <2>8, <2>9 DEF Next
<1>2. Inv /\ [Next]_vars => [\A j \in Joiner : Told(j)]_vars
  BY <1>1
<1> QED
  BY <1>2, Invariance, PTL DEF Spec, JoinHonest

-----------------------------------------------------------------------------
(* The queue that was promised. *)

\* g is ahead of h in the deque.
Before(g, h) == \E j, k \in DOMAIN getters : j < k /\ getters[j] = g /\ getters[k] = h

LEMMA AheadIsBefore ==
    /\ Ahead = {p \in Hungry \X Hungry : Before(p[1], p[2])}
    /\ Ahead' = {p \in Hungry' \X Hungry' : Before(p[1], p[2])'}
  BY DEF Ahead, Before

\* A new put() arrives behind all others.
LEMMA ArrivesRefined ==
    ASSUME Inv, NEW i \in Item, i = NextItem, NEW x, x # "none",
           pfut' = [pfut EXCEPT ![i] = x]
    PROVE  Promise!Arrives(i)
<1>1. \A j \in Item : pfut[j] # "none" <=> j < i
  BY NewItem
<1>2. i \notin Arrived /\ \A j \in Arrived : j < i
  BY <1>1 DEF Arrived, Item
<1>3. Arrived' = Arrived \cup {i}
  BY DEF Arrived, Inv, TypeOK
<1> QED
  BY <1>2, <1>3 DEF Promise!Arrives

\* With room in the queue no put() waits, with an item in it no get().
LEMMA NobodyOffered ==
    ASSUME Inv, ~Full(queue)
    PROVE  Offered = {} /\ putters = <<>>
<1>1. putters = <<>>
  BY DEF Inv, PuttersKept
<1>2. ToSet(putters) = {}
  BY <1>1, EmptySet
<1> QED
  BY <1>1, <1>2 DEF Offered, Inv, PuttersKept

LEMMA RoomIsNotFull == ASSUME Inv PROVE Promise!Room <=> ~Full(queue)
<1>1. Len(queue) \in Nat /\ MaxSize \in Nat
  BY DEF Inv, TypeOK
<1> QED
  BY <1>1 DEF Promise!Room, Full

\* Those left of the deque wait in the order they had.
LEMMA RestKeepsOrder ==
    ASSUME getters \in Seq(Getter), NEW i \in 1 .. Len(getters), getters' = Rest(getters, i),
           NEW g, NEW h,
           \A j \in 1 .. i : getters[j] # g /\ getters[j] # h
    PROVE  Before(g, h)' <=> Before(g, h)
<1>1. /\ DOMAIN getters = 1 .. Len(getters) /\ Len(getters) \in Nat
      /\ DOMAIN getters' = 1 .. Len(getters) - i
      /\ \A j \in DOMAIN getters' : getters'[j] = getters[j + i] /\ j + i \in DOMAIN getters
  <2>1. /\ getters' \in Seq(Getter) /\ Len(getters') = Len(getters) - i
        /\ \A j \in 1 .. Len(getters') : getters'[j] = getters[j + i] /\ j + i \in 1 .. Len(getters)
    BY Behind
  <2>2. DOMAIN getters = 1 .. Len(getters) /\ DOMAIN getters' = 1 .. Len(getters')
    BY <2>1
  <2> QED
    BY <2>1, <2>2
<1>2. ASSUME NEW j \in DOMAIN getters', NEW k \in DOMAIN getters',
             j < k, getters'[j] = g, getters'[k] = h
      PROVE  Before(g, h)
  <2>1. j + i < k + i
    BY <1>1, <1>2
  <2> QED
    BY <1>1, <1>2, <2>1 DEF Before
<1>3. ASSUME NEW j \in DOMAIN getters, NEW k \in DOMAIN getters,
             j < k, getters[j] = g, getters[k] = h
      PROVE  Before(g, h)'
  <2>1. j > i /\ k > i
    BY <1>1, <1>3
  <2>2. /\ j - i \in DOMAIN getters' /\ k - i \in DOMAIN getters' /\ j - i < k - i
        /\ (j - i) + i = j /\ (k - i) + i = k
    BY <1>1, <1>3, <2>1
  <2> QED
    BY <1>1, <1>3, <2>2 DEF Before
<1> QED
  BY <1>2, <1>3 DEF Before

\* A step that takes g out of Hungry and keeps the order of the others.
LEMMA LeavesRefined ==
    ASSUME NEW g, Hungry' = Hungry \ {g},
           \A h, k \in Hungry \ {g} : Before(h, k)' <=> Before(h, k)
    PROVE  Promise!Leaves(g)
  BY AheadIsBefore DEF Promise!Leaves

\* put() for a get() that waits.
LEMMA ServeRefined ==
    ASSUME Inv, NEW i \in Item, PutNow(i), NEW g \in Getter,
           FirstWaitingGetter(g), getters' = After(getters, g),
           gfut' = [gfut EXCEPT ![g] = "result"],
           delivered' = Append(delivered, Head(Append(queue, i))),
           queue' = Tail(Append(queue, i))
    PROVE  Promise!Serve(i, g)
<1>1. /\ i = NextItem /\ unfinished' = unfinished + 1 /\ Finished!Clear
      /\ pfut' = [pfut EXCEPT ![i] = "result"] /\ ~Full(queue) /\ UNCHANGED putters
  BY DEF PutNow, Accept
<1>2. getters \in Seq(Getter) /\ DOMAIN getters = 1 .. Len(getters)
  BY DEF Inv, TypeOK
<1>3. PICK k \in 1 .. Len(getters) : /\ getters[k] = g /\ GetPending(g)
                                     /\ \A j \in 1 .. k - 1 : ~GetPending(getters[j])
  BY <1>2 DEF FirstWaitingGetter
<1>4. queue = <<>>
  <2>1. getters # <<>>
    BY <1>2, <1>3
  <2> QED
    BY <2>1 DEF Inv, GettersKept
<1>5. queue' = <<>> /\ delivered' = Append(delivered, i)
  BY <1>4
<1>6. getters' = Rest(getters, k)
  <2>1. (CHOOSE j \in DOMAIN getters : getters[j] = g) = k
    BY <1>2, <1>3 DEF Inv, GettersKept, Distinct
  <2> QED
    BY <2>1 DEF After, Rest
<1>7. g \in Hungry /\ Hungry' = Hungry \ {g}
  BY <1>3 DEF Hungry, GetPending, Inv, TypeOK
<1>8. \A h \in Hungry \ {g} : \A j \in 1 .. k : getters[j] # h
  BY <1>3 DEF Hungry
<1>9. Promise!Leaves(g)
  <2>1. \A h, l \in Hungry \ {g} : Before(h, l)' <=> Before(h, l)
    BY <1>2, <1>6, <1>8, RestKeepsOrder
  <2> QED
    BY <1>7, <2>1, LeavesRefined
<1>10. Promise!First(g)
  <2> SUFFICES ASSUME NEW h \in Hungry, <<h, g>> \in Ahead PROVE FALSE
    BY <1>7 DEF Promise!First
  <2>1. PICK j, l \in DOMAIN getters : j < l /\ getters[j] = h /\ getters[l] = g
    BY DEF Ahead
  <2>2. l = k
    BY <1>2, <1>3, <2>1 DEF Inv, GettersKept, Distinct
  <2>3. j \in 1 .. k - 1
    BY <1>2, <2>1, <2>2
  <2> QED
    BY <1>3, <2>1, <2>3 DEF Hungry
<1>11. Offered = {} /\ Offered' = {}
  <2>1. Offered = {}
    BY <1>1, NobodyOffered
  <2>2. Offered' = {}
    BY <1>1, <2>1 DEF Offered, PutPending, Inv, TypeOK
  <2> QED
    BY <2>1, <2>2
<1>12. Promise!Arrives(i)
  BY <1>1, ArrivesRefined
<1>13. Promise!OneMoreUndone
  BY <1>1, Cleared DEF Promise!OneMoreUndone
<1> QED
  BY <1>4, <1>5, <1>9, <1>10, <1>11, <1>12, <1>13 DEF Promise!Serve

\* put() with room and nobody waiting.
LEMMA StoreRefined ==
    ASSUME Inv, NEW i \in Item, PutNow(i),
           \A k \in DOMAIN getters : ~GetPending(getters[k]),
           getters' = <<>>, queue' = Append(queue, i), UNCHANGED <<gfut, delivered>>
    PROVE  Promise!Store(i)
<1>1. /\ i = NextItem /\ unfinished' = unfinished + 1 /\ Finished!Clear
      /\ pfut' = [pfut EXCEPT ![i] = "result"] /\ ~Full(queue)
  BY DEF PutNow, Accept
<1>2. Hungry = {} /\ Hungry' = {}
  <2>1. Hungry = {}
    BY InSet DEF Hungry, Inv, GettersKept, TypeOK
  <2> QED
    BY <2>1 DEF Hungry, GetPending
<1>3. Ahead = {} /\ Ahead' = {}
  BY <1>2 DEF Ahead
<1>4. Offered = {} /\ Offered' = {}
  <2>1. Offered = {}
    BY <1>1, NobodyOffered
  <2>2. Offered' = {}
    BY <1>1, <2>1 DEF Offered, PutPending, Inv, TypeOK
  <2> QED
    BY <2>1, <2>2
<1>5. Promise!Room
  BY <1>1, RoomIsNotFull
<1>6. Promise!Arrives(i)
  BY <1>1, ArrivesRefined
<1>7. Promise!OneMoreUndone
  BY <1>1, Cleared DEF Promise!OneMoreUndone
<1> QED
  BY <1>2, <1>3, <1>4, <1>5, <1>6, <1>7 DEF Promise!Store

LEMMA PutRefined ==
    ASSUME Inv, NEW i \in Item, PutNow(i)
    PROVE  Promise!Store(i) \/ \E g \in Getter : Promise!Serve(i, g)
<1>1. \/ \E g \in Getter : /\ FirstWaitingGetter(g) /\ getters' = After(getters, g)
                           /\ gfut' = [gfut EXCEPT ![g] = "result"]
                           /\ delivered' = Append(delivered, Head(Append(queue, i)))
                           /\ queue' = Tail(Append(queue, i))
      \/ /\ \A k \in DOMAIN getters : ~GetPending(getters[k])
         /\ getters' = <<>> /\ queue' = Append(queue, i) /\ UNCHANGED <<gfut, delivered>>
  BY DEF PutNow, Accept
<1> QED
  BY <1>1, ServeRefined, StoreRefined

\* put() without room.
LEMMA BlockRefined ==
    ASSUME Inv, NEW i \in Item, PutWait(i)
    PROVE  Promise!Block(i)
<1>1. /\ i = NextItem /\ Full(queue) /\ pfut' = [pfut EXCEPT ![i] = "pending"]
      /\ UNCHANGED <<queue, getters, unfinished, gfut, delivered, finished>>
  BY DEF PutWait, evars
<1>2. Promise!Arrives(i)
  BY <1>1, ArrivesRefined
<1>3. ~Promise!Room
  BY <1>1, RoomIsNotFull
<1>4. Offered' = Offered \cup {i}
  BY <1>1 DEF Offered, PutPending, Inv, TypeOK
<1>5. Hungry' = Hungry /\ Ahead' = Ahead
  BY <1>1 DEF Hungry, Ahead, GetPending
<1> QED
  BY <1>1, <1>2, <1>3, <1>4, <1>5 DEF Promise!Block

\* get() with an item: the first put() that waits is the one that came first.
LEMMA TakeRefined ==
    ASSUME Inv, GetNow
    PROVE  Promise!Take
<1>1. /\ queue # <<>> /\ delivered' = Append(delivered, Head(queue))
      /\ NotifyPutters(Tail(queue)) /\ UNCHANGED <<getters, gfut>>
  BY DEF GetNow
<1>2. Hungry' = Hungry /\ Ahead' = Ahead
  BY <1>1 DEF Hungry, Ahead, GetPending
<1>3. /\ putters \in Seq(Item) /\ DOMAIN putters = 1 .. Len(putters)
      /\ pfut \in [Item -> {"none", "pending", "result", "timeout"}]
  BY DEF Inv, TypeOK
<1>4. \A i \in Offered : \E k \in DOMAIN putters : putters[k] = i
  BY <1>3, InSet DEF Offered, Inv, PuttersKept
<1>5. CASE \E k \in DOMAIN putters :
             /\ PutPending(putters[k])
             /\ \A j \in 1 .. k-1 : ~PutPending(putters[j])
             /\ pfut' = [pfut EXCEPT ![putters[k]] = "result"]
             /\ queue' = Append(Tail(queue), putters[k])
             /\ unfinished' = unfinished + 1
             /\ Finished!Clear
  <2>1. PICK k \in DOMAIN putters :
             /\ PutPending(putters[k])
             /\ \A j \in 1 .. k-1 : ~PutPending(putters[j])
             /\ pfut' = [pfut EXCEPT ![putters[k]] = "result"]
             /\ queue' = Append(Tail(queue), putters[k])
             /\ unfinished' = unfinished + 1
             /\ Finished!Clear
    BY <1>5
  <2> DEFINE x == putters[k]
  <2>2. x \in Item
    BY <1>3
  <2>3. x \in Offered /\ Offered' = Offered \ {x}
    BY <1>3, <2>1, <2>2 DEF Offered, PutPending
  <2>4. ASSUME NEW y \in Offered PROVE x <= y
    <3>1. PICK j \in DOMAIN putters : putters[j] = y
      BY <1>4
    <3>2. ~(j \in 1 .. k - 1)
      BY <2>1, <3>1 DEF Offered
    <3>3. j = k \/ k < j
      BY <1>3, <3>1, <3>2
    <3>4. k < j => x < y
      BY <1>3, <3>1 DEF Inv, Sorted, Increasing
    <3>5. y \in Item
      BY DEF Offered
    <3> QED
      BY <2>2, <3>1, <3>3, <3>4, <3>5 DEF Item
  <2>5. Arrived' = Arrived
    BY <1>3, <2>1, <2>2 DEF Arrived, PutPending
  <2>6. Promise!OneMoreUndone
    BY <2>1, Cleared DEF Promise!OneMoreUndone
  <2>7. queue' = Append(Tail(queue), x)
    BY <2>1
  <2> HIDE DEF x
  <2> QED
    BY <1>1, <1>2, <2>3, <2>4, <2>5, <2>6, <2>7 DEF Promise!Take
<1>6. CASE /\ \A k \in DOMAIN putters : ~PutPending(putters[k])
           /\ queue' = Tail(queue) /\ UNCHANGED <<pfut, unfinished, evars>>
  <2>1. Offered = {}
    BY <1>4, <1>6 DEF Offered
  <2>2. Offered' = Offered /\ Arrived' = Arrived /\ UNCHANGED finished
    BY <1>6 DEF Offered, Arrived, PutPending, evars
  <2> QED
    BY <1>1, <1>2, <1>6, <2>1, <2>2 DEF Promise!Take
<1> QED
  BY <1>1, <1>5, <1>6 DEF NotifyPutters

\* get() on an empty queue: behind all that wait.
LEMMA WaitRefined ==
    ASSUME Inv, NEW g \in Getter, GetWait(g)
    PROVE  Promise!Wait(g)
<1>1. /\ queue = <<>> /\ gtask[g] = "done" /\ g \notin ToSet(getters)
      /\ getters' = Append(getters, g) /\ gfut' = [gfut EXCEPT ![g] = "pending"]
      /\ UNCHANGED <<queue, unfinished, pfut, delivered, finished>>
  BY DEF GetWait, evars
<1>2. g \notin Hungry /\ Hungry' = Hungry \cup {g}
  BY <1>1 DEF Hungry, GetPending, Inv, TypeOK, GettersKept
<1>3. /\ DOMAIN getters = 1 .. Len(getters) /\ Len(getters) \in Nat
      /\ DOMAIN getters' = 1 .. Len(getters) + 1
      /\ \A k \in 1 .. Len(getters) : getters'[k] = getters[k]
      /\ getters'[Len(getters) + 1] = g
  BY <1>1 DEF Inv, TypeOK
<1>4. \A k \in DOMAIN getters : getters[k] # g
  BY <1>1, <1>3, InSet DEF Inv, TypeOK
<1>5. ASSUME NEW h \in Hungry PROVE Before(h, g)'
  <2>1. PICK k \in 1 .. Len(getters) : getters[k] = h
    BY InSet DEF Hungry, Inv, TypeOK, GettersKept
  <2>2. k \in DOMAIN getters' /\ Len(getters) + 1 \in DOMAIN getters' /\ k < Len(getters) + 1
    BY <1>3
  <2> QED
    BY <1>3, <2>1, <2>2 DEF Before
<1>6. ASSUME NEW h PROVE ~Before(g, h)'
  <2> SUFFICES ASSUME NEW j \in DOMAIN getters', NEW k \in DOMAIN getters', j < k, getters'[j] = g
               PROVE  FALSE
    BY DEF Before
  <2>1. j \in DOMAIN getters
    BY <1>3
  <2> QED
    BY <1>3, <1>4, <2>1
<1>7. ASSUME NEW h \in Hungry, NEW l \in Hungry PROVE Before(h, l)' <=> Before(h, l)
  <2>1. h # g /\ l # g
    BY <1>2
  <2>2. \A k \in DOMAIN getters' : getters'[k] # g => k \in DOMAIN getters
    BY <1>3
  <2>3. \A k \in DOMAIN getters : k \in DOMAIN getters' /\ getters'[k] = getters[k]
    BY <1>3
  <2> QED
    BY <2>1, <2>2, <2>3 DEF Before
<1>8. Ahead' = Ahead \cup (Hungry \X {g})
  BY <1>2, <1>5, <1>6, <1>7, AheadIsBefore
<1>9. Arrived' = Arrived /\ Offered' = Offered
  BY <1>1 DEF Arrived, Offered, PutPending
<1> QED
  BY <1>1, <1>2, <1>8, <1>9 DEF Promise!Wait

\* Every step of the queue is one of the queue that was promised, or none.
LEMMA RefinementStep ==
    ASSUME Inv, [Next]_vars
    PROVE  [Promise!Next]_(Promise!vars)
<1>1. ASSUME NEW i \in Item, PutTimeout(i) PROVE Promise!Withdraw(i)
  <2>1. /\ PutPending(i) /\ pfut' = [pfut EXCEPT ![i] = "timeout"]
        /\ UNCHANGED <<queue, getters, unfinished, gfut, delivered, finished>>
    BY <1>1 DEF PutTimeout, evars
  <2>2. i \in Offered /\ Offered' = Offered \ {i} /\ Arrived' = Arrived
    BY <2>1 DEF Offered, Arrived, PutPending, Inv, TypeOK
  <2>3. Hungry' = Hungry /\ Ahead' = Ahead
    BY <2>1 DEF Hungry, Ahead, GetPending
  <2> QED
    BY <2>1, <2>2, <2>3 DEF Promise!Withdraw
<1>2. ASSUME NEW g \in Getter, GetTimeout(g) PROVE Promise!GiveUp(g)
  <2>1. /\ GetPending(g) /\ gfut' = [gfut EXCEPT ![g] = "timeout"]
        /\ UNCHANGED <<queue, getters, unfinished, pfut, delivered, finished>>
    BY <1>2 DEF GetTimeout, evars
  <2>2. g \in Hungry /\ Hungry' = Hungry \ {g}
    BY <2>1 DEF Hungry, GetPending, Inv, TypeOK
  <2>3. Promise!Leaves(g)
    BY <2>1, <2>2, LeavesRefined DEF Before
  <2>4. Arrived' = Arrived /\ Offered' = Offered
    BY <2>1 DEF Arrived, Offered, PutPending
  <2> QED
    BY <2>1, <2>2, <2>3, <2>4 DEF Promise!GiveUp
<1>3. ASSUME UNCHANGED <<queue, getters, pfut, gfut, delivered>>
      PROVE  Arrived' = Arrived /\ Offered' = Offered /\ Hungry' = Hungry /\ Ahead' = Ahead
  BY <1>3 DEF Arrived, Offered, Hungry, Ahead, PutPending, GetPending
<1>4. CASE TaskDone
  <2>1. /\ unfinished > 0 /\ unfinished' = unfinished - 1
        /\ UNCHANGED <<queue, getters, pfut, gfut, delivered>>
        /\ (unfinished' = 0 /\ finished' = TRUE) \/ (unfinished' # 0 /\ UNCHANGED finished)
    BY <1>4 DEF TaskDone, Finished!Set, evars
  <2>2. finished = FALSE
    BY <2>1 DEF Inv, JoinExact, TypeOK, Finished!TypeOK
  <2>3. finished' = (unfinished' = 0)
    BY <2>1, <2>2
  <2> QED
    BY <1>3, <2>1, <2>3 DEF Promise!Done, Promise!Next
<1>5. CASE UNCHANGED <<queue, getters, pfut, gfut, delivered, unfinished, finished>>
  BY <1>3, <1>5 DEF Promise!vars
<1>6. ASSUME NEW g \in Getter, Resume(g)
      PROVE  UNCHANGED <<queue, getters, pfut, gfut, delivered, unfinished, finished>>
  BY <1>6 DEF Resume, evars
<1>7. ASSUME NEW j \in Joiner, Join(j)
      PROVE  UNCHANGED <<queue, getters, pfut, gfut, delivered, unfinished, finished>>
  BY <1>7 DEF Join, qvars, Finished!WaiterStep, Finished!WaitSet, Finished!Wait,
              Finished!WaitTimeout, Finished!OnTimeout, Finished!Resume, Finished!Cancel
<1>8. CASE UNCHANGED vars
  BY <1>5, <1>8 DEF vars, qvars, evars
<1>9. ASSUME NEW i \in Item, PutNow(i) \/ PutWait(i) \/ PutTimeout(i) PROVE Promise!Next
  BY <1>1, <1>9, PutRefined, BlockRefined DEF Promise!Next
<1>10. ASSUME NEW g \in Getter, GetWait(g) \/ GetTimeout(g) PROVE Promise!Next
  BY <1>2, <1>10, WaitRefined DEF Promise!Next
<1>11. CASE GetNow
  BY <1>11, TakeRefined DEF Promise!Next
<1> QED
  BY <1>4, <1>5, <1>6, <1>7, <1>8, <1>9, <1>10, <1>11 DEF Next

\* Queue implements the bounded first-in-first-out queue that serves both
\* sides in turn: done Futures left in the deques, timers and tasks do not show.
THEOREM ImplementsFifo == Spec => FifoSpec
<1>1. Init => Promise!Init
  <2> SUFFICES ASSUME Init PROVE Promise!Init
    OBVIOUS
  <2>1. Arrived = {} /\ Offered = {} /\ Hungry = {}
    BY DEF Init, Arrived, Offered, Hungry, PutPending, GetPending
  <2>2. Ahead = {}
    BY <2>1 DEF Ahead
  <2> QED
    BY <2>1, <2>2 DEF Init, Promise!Init
<1> QED
  BY <1>1, RefinementStep, Invariance, PTL DEF Spec, FifoSpec, Promise!Spec
=============================================================================
