-------------------------- MODULE WithTimeoutProofs --------------------------
(***************************************************************************)
(* Theorems about WithTimeout for any number of calls on one Future, of    *)
(* either kind and however it ends.                                        *)
(***************************************************************************)
EXTENDS WithTimeout, TLAPS

USE WithTimeoutAssumption

Callback == {"copy", "on_complete"}
Entry == (Callback \cup {"on_timeout"}) \X Call

\* The types of the queues, and of what is kept for each call.
QueueTypes ==
    /\ cbs \in Seq(Callback \X Call) /\ worker \in Seq(Callback \X Call)
    /\ ready \in Seq(Entry)

CallTypes ==
    /\ src \in {"pending"} \cup Outcome
    /\ pc \in [Call -> {"start", "chained", "timed", "returned"}]
    /\ result \in [Call -> {"pending", "value", "error", "cancelled", "timeout"}]
    /\ timer \in [Call -> {"none", "scheduled", "due", "removed", "fired"}]
    /\ invalid \subseteq Call

\* Entry x is function f for call c.
Is(x, f, c) == x[1] = f /\ x[2] = c

\* The callbacks of a Future that is done have left it, and only they run.
CallbacksMoved ==
    /\ SrcDone => cbs = <<>>
    /\ \A c \in Call, j \in 1 .. Len(ready) :
          Is(ready[j], "copy", c) \/ Is(ready[j], "on_complete", c) => SrcDone

\* A Future that copy was added to has on_complete too once the call returned.
BothAdded ==
    \A c \in Call, i \in 1 .. Len(cbs) :
        pc[c] = "returned" /\ Is(cbs[i], "copy", c) =>
            \E k \in 1 .. Len(cbs) : Is(cbs[k], "on_complete", c)

\* on_timeout is queued at most once, for a call that has returned.
TimeoutQueued ==
    /\ \A c \in Call : timer[c] = "fired" => pc[c] = "returned"
    /\ \A c \in Call, j \in 1 .. Len(ready) : Is(ready[j], "on_timeout", c) =>
          /\ timer[c] \in {"due", "removed"} /\ pc[c] = "returned"
          /\ \A k \in 1 .. Len(ready) : Is(ready[k], "on_timeout", c) => k = j

\* Nothing answers c before the loop comes to position j of queue q, or
\* on_complete has removed the timeout of c by then.
Guarded(q, r, c, j) ==
    \/ \E k \in 1 .. j - 1 : Is(q[k], "on_complete", c)
    \/ /\ r[c] \notin {"value", "error"}
       /\ \A k \in 1 .. j - 1 : ~Is(q[k], "copy", c)

\* An on_timeout that is queued, or would be queued now, finds no answer.
TimeoutGuarded ==
    \A c \in Call :
        /\ \A j \in 1 .. Len(ready) :
              Is(ready[j], "on_timeout", c) /\ timer[c] # "removed" =>
                  Guarded(ready, result, c, j)
        /\ pc[c] = "returned" /\ timer[c] = "scheduled" =>
              Guarded(ready, result, c, Len(ready) + 1)

Inv ==
    /\ QueueTypes /\ CallTypes /\ CallbacksMoved /\ BothAdded
    /\ TimeoutQueued /\ TimeoutGuarded /\ ResultFaithful /\ NoInvalidState

-----------------------------------------------------------------------------
(* Queues of callbacks. *)

LEMMA IsPair ==
    ASSUME NEW f, NEW c, NEW g, NEW d
    PROVE  Is(<<f, c>>, g, d) <=> f = g /\ c = d
  BY DEF Is

\* Queue s is queue q with function f for call c behind it.
Adds(q, s, f, c) ==
    /\ Len(q) \in Nat /\ Len(s) = Len(q) + 1
    /\ \A k \in 1 .. Len(q) : s[k] = q[k]
    /\ s[Len(q) + 1] = <<f, c>>

LEMMA Appended ==
    ASSUME NEW S, NEW q \in Seq(S), NEW f, NEW c, <<f, c>> \in S
    PROVE  Append(q, <<f, c>>) \in Seq(S) /\ Adds(q, Append(q, <<f, c>>), f, c)
  BY DEF Adds

\* Queue s is queue q without its head x.
Drops(q, s, x) ==
    /\ Len(q) \in Nat \ {0} /\ Len(s) = Len(q) - 1
    /\ \A k \in 1 .. Len(q) - 1 : s[k] = q[k + 1]
    /\ q[1] = x

LEMMA Shortened ==
    ASSUME NEW S, NEW q \in Seq(S), q # <<>>
    PROVE  Tail(q) \in Seq(S) /\ Head(q) \in S /\ Drops(q, Tail(q), Head(q))
  BY DEF Drops

\* Queue s is queue q with p behind it.
Joins(q, s, p) ==
    /\ Len(q) \in Nat /\ Len(p) \in Nat /\ Len(s) = Len(q) + Len(p)
    /\ \A k \in 1 .. Len(q) : s[k] = q[k]
    /\ \A k \in 1 .. Len(p) : s[Len(q) + k] = p[k]

LEMMA Joined ==
    ASSUME NEW S, NEW q \in Seq(S), NEW p \in Seq(S)
    PROVE  q \o p \in Seq(S) /\ Joins(q, q \o p, p)
  BY DEF Joins

\* Where an entry of the new queue comes from.
LEMMA AddedEntry ==
    ASSUME NEW q, NEW s, NEW f, NEW c, Adds(q, s, f, c), NEW g, NEW d,
           NEW j \in 1 .. Len(s), Is(s[j], g, d)
    PROVE  \/ j \in 1 .. Len(q) /\ Is(q[j], g, d)
           \/ j = Len(q) + 1 /\ f = g /\ c = d
<1>1. CASE j \in 1 .. Len(q)
  BY <1>1 DEF Adds
<1>2. CASE j = Len(q) + 1
  <2>1. s[j] = <<f, c>>
    BY <1>2 DEF Adds
  <2> QED
    BY <1>2, <2>1, IsPair
<1> QED
  BY <1>1, <1>2 DEF Adds

LEMMA DroppedEntry ==
    ASSUME NEW q, NEW s, NEW x, Drops(q, s, x), NEW g, NEW d,
           NEW j \in 1 .. Len(s), Is(s[j], g, d)
    PROVE  j + 1 \in 1 .. Len(q) /\ Is(q[j + 1], g, d)
  BY DEF Drops

\* What is added behind position j changes nothing before it.
LEMMA AddedGuarded ==
    ASSUME NEW q, NEW s, NEW f, NEW c, Adds(q, s, f, c), NEW r, NEW d,
           NEW j \in 1 .. Len(q) + 1, Guarded(q, r, d, j)
    PROVE  Guarded(s, r, d, j)
<1>1. Len(q) \in Nat /\ \A k \in 1 .. j - 1 : s[k] = q[k]
  BY DEF Adds
<1> QED
  BY <1>1 DEF Guarded

\* Only a copy of d itself could disturb d.
LEMMA AddedGuardedEnd ==
    ASSUME NEW q, NEW s, NEW f, NEW c, Adds(q, s, f, c), NEW r, NEW d,
           f # "copy" \/ c # d, Guarded(q, r, d, Len(q) + 1)
    PROVE  Guarded(s, r, d, Len(s) + 1)
<1>1. /\ Len(q) \in Nat /\ Len(s) = Len(q) + 1
      /\ \A k \in 1 .. Len(q) : s[k] = q[k]
      /\ ~Is(s[Len(q) + 1], "copy", d)
  BY IsPair DEF Adds
<1> QED
  BY <1>1 DEF Guarded

\* The head of the queue, if it is not on_complete of d, guards nothing of d:
\* and if it is copy of d, something else does.
LEMMA DroppedGuarded ==
    ASSUME NEW q, NEW s, NEW x, Drops(q, s, x), NEW r, NEW t, NEW d,
           ~Is(x, "on_complete", d), Is(x, "copy", d) \/ r[d] = t[d] \/ t[d] \notin {"value", "error"},
           NEW j \in 2 .. Len(q) + 1, Guarded(q, r, d, j)
    PROVE  Guarded(s, t, d, j - 1)
<1>1. /\ Len(q) \in Nat \ {0} /\ q[1] = x
      /\ \A k \in 1 .. Len(q) - 1 : s[k] = q[k + 1]
  BY DEF Drops
<1>2. CASE \E k \in 1 .. j - 1 : Is(q[k], "on_complete", d)
  <2>1. PICK k \in 1 .. j - 1 : Is(q[k], "on_complete", d)
    BY <1>2
  <2>2. k - 1 \in 1 .. (j - 1) - 1 /\ s[k - 1] = q[k]
    BY <1>1, <2>1
  <2> QED
    BY <2>1, <2>2 DEF Guarded
<1>3. CASE ~\E k \in 1 .. j - 1 : Is(q[k], "on_complete", d)
  <2>1. /\ r[d] \notin {"value", "error"}
        /\ \A k \in 1 .. j - 1 : ~Is(q[k], "copy", d)
    BY <1>3 DEF Guarded
  <2>2. ~Is(x, "copy", d)
    BY <1>1, <2>1
  <2>3. \A k \in 1 .. (j - 1) - 1 : ~Is(s[k], "copy", d)
    <3> TAKE k \in 1 .. (j - 1) - 1
    <3>1. k + 1 \in 1 .. j - 1 /\ s[k] = q[k + 1]
      BY <1>1
    <3> QED
      BY <2>1, <3>1
  <2> QED
    BY <2>1, <2>2, <2>3 DEF Guarded
<1> QED
  BY <1>2, <1>3

-----------------------------------------------------------------------------
(* with_timeout(). *)

\* A step that queues a callback for a call whose timeout is not to come, and
\* otherwise at most removes timeouts.
LEMMA CallbackQueued ==
    ASSUME Inv, NEW c \in Call, NEW f \in Callback, Adds(ready, ready', f, c),
           SrcDone', src' = src, UNCHANGED result,
           pc'[c] = "returned" => timer'[c] # "scheduled",
           \A d \in Call : pc[d] = "returned" => pc'[d] = "returned",
           \A d \in Call : d # c => pc'[d] = pc[d],
           \A d \in Call : timer'[d] = timer[d] \/ (timer[d] # "fired" /\ timer'[d] = "removed")
    PROVE  /\ \A d \in Call, j \in 1 .. Len(ready') :
                 Is(ready'[j], "copy", d) \/ Is(ready'[j], "on_complete", d) => SrcDone'
           /\ TimeoutQueued' /\ TimeoutGuarded'
<1>1. /\ Len(ready) \in Nat /\ Len(ready') = Len(ready) + 1
      /\ \A k \in 1 .. Len(ready) : ready'[k] = ready[k]
  BY DEF Adds
<1>2. ASSUME NEW d \in Call, NEW j \in 1 .. Len(ready'), Is(ready'[j], "on_timeout", d)
      PROVE  j \in 1 .. Len(ready) /\ Is(ready[j], "on_timeout", d)
  BY <1>2, AddedEntry DEF Callback
<1>3. TimeoutQueued'
  BY <1>1, <1>2 DEF Inv, TimeoutQueued
<1>4. ASSUME NEW d \in Call, NEW j \in 1 .. Len(ready'),
             Is(ready'[j], "on_timeout", d), timer'[d] # "removed"
      PROVE  Guarded(ready', result', d, j)
  <2>1. /\ j \in 1 .. Len(ready) /\ j \in 1 .. Len(ready) + 1
        /\ Is(ready[j], "on_timeout", d) /\ timer[d] # "removed"
    BY <1>1, <1>2, <1>4
  <2>2. Guarded(ready, result, d, j)
    BY <2>1 DEF Inv, TimeoutGuarded
  <2> QED
    BY <2>1, <2>2, AddedGuarded
<1>5. ASSUME NEW d \in Call, pc'[d] = "returned", timer'[d] = "scheduled"
      PROVE  Guarded(ready', result', d, Len(ready') + 1)
  <2>1. d # c /\ pc[d] = "returned" /\ timer[d] = "scheduled"
    BY <1>5
  <2>2. Guarded(ready, result, d, Len(ready) + 1)
    BY <2>1 DEF Inv, TimeoutGuarded
  <2> QED
    BY <2>1, <2>2, AddedGuardedEnd
<1>6. TimeoutGuarded'
  BY <1>4, <1>5 DEF TimeoutGuarded
<1> QED
  BY <1>3, <1>6

LEMMA ChainFutureInv ==
    ASSUME Inv, NEW c \in Call, ChainFuture(c)
    PROVE  Inv'
<1> DEFINE x == <<"copy", c>>
<1>1. x \in Entry /\ x \in Callback \X Call
  BY DEF Entry, Callback
<1>2. /\ pc[c] = "start" /\ pc' = [pc EXCEPT ![c] = "chained"]
      /\ UNCHANGED <<kind, src, worker, result, timer, invalid>>
  BY DEF ChainFuture
<1>3. CallTypes' /\ ResultFaithful' /\ NoInvalidState'
  BY <1>2 DEF Inv, CallTypes, ResultFaithful, NoInvalidState
<1>4. /\ pc'[c] = "chained" /\ \A d \in Call : d # c => pc'[d] = pc[d]
  BY <1>2 DEF Inv, CallTypes
<1>5. CASE SrcDone
  <2>1. ready' = Append(ready, x) /\ UNCHANGED cbs
    BY <1>5 DEF ChainFuture
  <2>2. QueueTypes' /\ Adds(ready, ready', "copy", c)
    BY <1>1, <1>2, <2>1, Appended DEF Inv, QueueTypes
  <2>3. cbs' = <<>> /\ SrcDone' /\ BothAdded'
    BY <1>2, <1>5, <2>1 DEF Inv, CallbacksMoved, BothAdded, SrcDone
  <2>4. CallbacksMoved' /\ TimeoutQueued' /\ TimeoutGuarded'
    BY <1>2, <1>4, <2>2, <2>3, CallbackQueued DEF CallbacksMoved, Callback
  <2> QED
    BY <1>3, <2>2, <2>3, <2>4 DEF Inv
<1>6. CASE ~SrcDone
  <2>1. cbs' = Append(cbs, x) /\ UNCHANGED ready
    BY <1>6 DEF ChainFuture
  <2>2. QueueTypes' /\ Adds(cbs, cbs', "copy", c)
    BY <1>1, <1>2, <2>1, Appended DEF Inv, QueueTypes
  <2>3. BothAdded'
    <3>1. ASSUME NEW d \in Call, NEW i \in 1 .. Len(cbs'), pc'[d] = "returned", Is(cbs'[i], "copy", d)
          PROVE  \E k \in 1 .. Len(cbs') : Is(cbs'[k], "on_complete", d)
      <4>1. d # c /\ i \in 1 .. Len(cbs) /\ Is(cbs[i], "copy", d) /\ pc[d] = "returned"
        BY <1>4, <2>2, <3>1, AddedEntry
      <4> QED
        BY <2>2, <4>1 DEF Inv, BothAdded, Adds
    <3> QED
      BY <3>1 DEF BothAdded
  <2>4. CallbacksMoved'
    BY <1>2, <1>6, <2>1 DEF Inv, CallbacksMoved, SrcDone
  <2>5. TimeoutQueued' /\ TimeoutGuarded'
    BY <1>2, <1>4, <2>1 DEF Inv, TimeoutQueued, TimeoutGuarded
  <2> QED
    BY <1>3, <2>2, <2>3, <2>4, <2>5 DEF Inv
<1> QED
  BY <1>5, <1>6

LEMMA StartTimerInv ==
    ASSUME Inv, NEW c \in Call, StartTimer(c)
    PROVE  Inv'
<1>1. /\ pc[c] = "chained" /\ pc' = [pc EXCEPT ![c] = "timed"]
      /\ timer' = [timer EXCEPT ![c] = "scheduled"]
      /\ UNCHANGED <<kind, src, cbs, ready, worker, result, invalid>>
  BY DEF StartTimer
<1>2. CallTypes' /\ QueueTypes'
  BY <1>1 DEF Inv, CallTypes, QueueTypes
<1>3. pc'[c] = "timed" /\ \A d \in Call : d # c => pc'[d] = pc[d] /\ timer'[d] = timer[d]
  BY <1>1 DEF Inv, CallTypes
<1>4. CallbacksMoved' /\ BothAdded'
  BY <1>1, <1>3 DEF Inv, CallbacksMoved, BothAdded, SrcDone
<1>5. TimeoutQueued' /\ TimeoutGuarded'
  BY <1>1, <1>3 DEF Inv, CallTypes, TimeoutQueued, TimeoutGuarded
<1>6. ResultFaithful' /\ NoInvalidState'
  BY <1>1, <1>3 DEF Inv, TimeoutQueued, ResultFaithful, NoInvalidState
<1> QED
  BY <1>2, <1>4, <1>5, <1>6 DEF Inv

\* With a Future that is done the timeout is removed at once; one that is not
\* has given no answer yet.
LEMMA AddDoneCallbackInv ==
    ASSUME Inv, NEW c \in Call, AddDoneCallback(c)
    PROVE  Inv'
<1>1. /\ pc[c] = "timed" /\ pc' = [pc EXCEPT ![c] = "returned"]
      /\ UNCHANGED <<kind, src, worker, result, invalid>>
  BY DEF AddDoneCallback
<1>2. pc'[c] = "returned" /\ \A d \in Call : d # c => pc'[d] = pc[d]
  BY <1>1 DEF Inv, CallTypes
<1>3. CASE SrcDone
  <2> DEFINE x == <<"copy", c>>
  <2>1. /\ ready' = Append(ready, x) /\ UNCHANGED cbs
        /\ timer' = [timer EXCEPT ![c] = "removed"]
    BY <1>3 DEF AddDoneCallback
  <2>2. x \in Entry
    BY DEF Entry, Callback
  <2>3. QueueTypes' /\ Adds(ready, ready', "copy", c)
    BY <1>1, <2>1, <2>2, Appended DEF Inv, QueueTypes
  <2>4. cbs' = <<>> /\ SrcDone' /\ BothAdded'
    BY <1>1, <1>3, <2>1 DEF Inv, CallbacksMoved, BothAdded, SrcDone
  <2>5. CallTypes' /\ timer'[c] = "removed" /\ timer[c] # "fired"
        /\ \A d \in Call : d # c => timer'[d] = timer[d]
    BY <1>1, <2>1 DEF Inv, CallTypes, TimeoutQueued
  <2>6. CallbacksMoved' /\ TimeoutQueued' /\ TimeoutGuarded'
    BY <1>1, <1>2, <2>3, <2>4, <2>5, CallbackQueued DEF CallbacksMoved, Callback
  <2>7. ResultFaithful' /\ NoInvalidState'
    BY <1>1, <2>5 DEF Inv, ResultFaithful, NoInvalidState
  <2> QED
    BY <2>3, <2>4, <2>5, <2>6, <2>7 DEF Inv
<1>4. CASE ~SrcDone
  <2> DEFINE y == <<"on_complete", c>>
  <2>1. cbs' = Append(cbs, y) /\ UNCHANGED <<ready, timer>>
    BY <1>4 DEF AddDoneCallback
  <2>2. y \in Callback \X Call
    BY DEF Callback
  <2>3. QueueTypes' /\ Adds(cbs, cbs', "on_complete", c)
    BY <1>1, <2>1, <2>2, Appended DEF Inv, QueueTypes
  <2>4. BothAdded'
    <3>1. ASSUME NEW d \in Call, NEW i \in 1 .. Len(cbs'), pc'[d] = "returned", Is(cbs'[i], "copy", d)
          PROVE  \E k \in 1 .. Len(cbs') : Is(cbs'[k], "on_complete", d)
      <4>1. CASE d = c
        <5>1. Len(cbs) + 1 \in 1 .. Len(cbs') /\ Is(cbs'[Len(cbs) + 1], "on_complete", c)
          BY <2>3, IsPair DEF Adds
        <5> QED
          BY <4>1, <5>1
      <4>2. CASE d # c
        <5>1. i \in 1 .. Len(cbs) /\ Is(cbs[i], "copy", d) /\ pc[d] = "returned"
          BY <1>2, <2>3, <3>1, <4>2, AddedEntry
        <5> QED
          BY <2>3, <5>1 DEF Inv, BothAdded, Adds
      <4> QED
        BY <4>1, <4>2
    <3> QED
      BY <3>1 DEF BothAdded
  <2>5. CallTypes' /\ ResultFaithful' /\ NoInvalidState'
    BY <1>1, <2>1 DEF Inv, CallTypes, ResultFaithful, NoInvalidState
  <2>6. CallbacksMoved'
    BY <1>1, <1>4, <2>1 DEF Inv, CallbacksMoved, SrcDone
  <2>7. Guarded(ready, result, c, Len(ready) + 1)
    <3>1. result[c] \notin {"value", "error"}
      BY <1>4 DEF Inv, ResultFaithful, SrcDone
    <3>2. \A k \in 1 .. (Len(ready) + 1) - 1 : ~Is(ready[k], "copy", c)
      <4>1. Len(ready) \in Nat
        BY DEF Inv, QueueTypes
      <4> QED
        BY <1>4, <4>1 DEF Inv, CallbacksMoved
    <3> QED
      BY <3>1, <3>2 DEF Guarded
  <2>8. TimeoutQueued' /\ TimeoutGuarded'
    BY <1>1, <1>2, <2>1, <2>7 DEF Inv, TimeoutQueued, TimeoutGuarded
  <2> QED
    BY <2>3, <2>4, <2>5, <2>6, <2>8 DEF Inv
<1> QED
  BY <1>3, <1>4

-----------------------------------------------------------------------------
(* The wrapped Future. *)

\* copy and on_complete of a call reach the loop's queue together.
LEMMA CompleteInv ==
    ASSUME Inv, NEW o \in Outcome, Complete(o)
    PROVE  Inv'
<1>1. cbs \in Seq(Callback \X Call) /\ cbs \in Seq(Entry) /\ ready \in Seq(Entry)
  BY DEF Inv, QueueTypes, Entry
<1>2. /\ ~SrcDone /\ src' = o /\ cbs' = <<>>
      /\ UNCHANGED <<kind, pc, result, timer, invalid>>
      /\ \/ LoopFree /\ ready' = ready \o cbs /\ UNCHANGED worker
         \/ worker' = cbs /\ UNCHANGED ready
  BY DEF Complete
<1>3. QueueTypes'
  <2>1. ready \o cbs \in Seq(Entry)
    BY <1>1, Joined
  <2>2. ready' \in Seq(Entry) /\ worker' \in Seq(Callback \X Call)
    BY <1>1, <1>2, <2>1 DEF Inv, QueueTypes
  <2> QED
    BY <1>2, <2>2 DEF QueueTypes
<1>4. CallTypes' /\ SrcDone'
  BY <1>2 DEF Inv, CallTypes, SrcDone
<1>5. CallbacksMoved' /\ BothAdded'
  BY <1>2, <1>4 DEF CallbacksMoved, BothAdded
<1>6. \A d \in Call : result[d] \notin {"value", "error"}
  BY <1>2 DEF Inv, ResultFaithful, SrcDone
<1>7. ResultFaithful' /\ NoInvalidState'
  BY <1>2, <1>6 DEF Inv, ResultFaithful, NoInvalidState
<1>8. CASE UNCHANGED ready
  <2>1. TimeoutQueued' /\ TimeoutGuarded'
    BY <1>2, <1>8 DEF Inv, TimeoutQueued, TimeoutGuarded
  <2> QED
    BY <1>3, <1>4, <1>5, <1>7, <2>1 DEF Inv
<1>9. CASE ready' = ready \o cbs
  <2>1. Joins(ready, ready', cbs)
    BY <1>1, <1>9, Joined
  <2>2. /\ Len(ready) \in Nat /\ Len(cbs) \in Nat /\ Len(ready') = Len(ready) + Len(cbs)
        /\ \A k \in 1 .. Len(ready) : ready'[k] = ready[k]
        /\ \A k \in 1 .. Len(cbs) : ready'[Len(ready) + k] = cbs[k]
    BY <2>1 DEF Joins
  <2>3. \A j \in 1 .. Len(ready') : \/ j \in 1 .. Len(ready) /\ ready'[j] = ready[j]
                                    \/ \E k \in 1 .. Len(cbs) : ready'[j] = cbs[k]
    <3> TAKE j \in 1 .. Len(ready')
    <3>1. j \notin 1 .. Len(ready) =>
             j - Len(ready) \in 1 .. Len(cbs) /\ ready'[j] = cbs[j - Len(ready)]
      BY <2>2
    <3> QED
      BY <2>2, <3>1
  <2>4. \A d \in Call, k \in 1 .. Len(cbs) : ~Is(cbs[k], "on_timeout", d)
    <3>1. \A k \in 1 .. Len(cbs) : cbs[k] \in Callback \X Call
      BY <1>1
    <3> QED
      BY <3>1 DEF Is, Callback
  <2>5. \A d \in Call, j \in 1 .. Len(ready') :
           Is(ready'[j], "on_timeout", d) => j \in 1 .. Len(ready) /\ Is(ready[j], "on_timeout", d)
    BY <2>3, <2>4
  <2>6. \A d \in Call, j \in 1 .. Len(ready) : ~Is(ready[j], "copy", d)
    BY <1>2 DEF Inv, CallbacksMoved
  <2>7. TimeoutQueued'
    BY <1>2, <2>5 DEF Inv, TimeoutQueued
  <2>8. ASSUME NEW d \in Call, NEW j \in 1 .. Len(ready'), Is(ready'[j], "on_timeout", d)
        PROVE  Guarded(ready', result', d, j)
    <3>1. \A k \in 1 .. j - 1 : k \in 1 .. Len(ready)
      BY <2>2, <2>5, <2>8
    <3>2. \A k \in 1 .. j - 1 : ~Is(ready'[k], "copy", d)
      BY <2>2, <2>6, <3>1
    <3> QED
      BY <1>2, <1>6, <3>2 DEF Guarded
  <2>9. ASSUME NEW d \in Call, pc[d] = "returned"
        PROVE  Guarded(ready', result', d, Len(ready') + 1)
    <3>1. CASE \E i \in 1 .. Len(cbs) : Is(cbs[i], "copy", d)
      <4>1. PICK k \in 1 .. Len(cbs) : Is(cbs[k], "on_complete", d)
        BY <2>9, <3>1 DEF Inv, BothAdded
      <4>2. Len(ready) + k \in 1 .. (Len(ready') + 1) - 1 /\ ready'[Len(ready) + k] = cbs[k]
        BY <2>2, <4>1
      <4> QED
        BY <4>1, <4>2 DEF Guarded
    <3>2. CASE ~\E i \in 1 .. Len(cbs) : Is(cbs[i], "copy", d)
      <4>1. \A j \in 1 .. Len(ready') : ~Is(ready'[j], "copy", d)
        BY <2>3, <2>6, <3>2
      <4>2. (Len(ready') + 1) - 1 = Len(ready')
        BY <2>2
      <4> QED
        BY <1>2, <1>6, <4>1, <4>2 DEF Guarded
    <3> QED
      BY <3>1, <3>2
  <2>10. TimeoutGuarded'
    BY <1>2, <2>8, <2>9 DEF TimeoutGuarded
  <2> QED
    BY <1>3, <1>4, <1>5, <1>7, <2>7, <2>10 DEF Inv
<1> QED
  BY <1>2, <1>8, <1>9

\* What the worker thread runs never answers a call: it only removes timeouts.
LEMMA WorkerStepInv ==
    ASSUME Inv, WorkerStep
    PROVE  Inv'
<1>1. Head(worker) \in Callback \X Call /\ worker' \in Seq(Callback \X Call)
  BY Shortened DEF Inv, QueueTypes, WorkerStep
<1>2. PICK c \in Call : UNCHANGED timer \/ timer' = Removed(c)
  BY <1>1 DEF WorkerStep
<1>3. UNCHANGED <<kind, src, cbs, ready, pc, result, invalid>>
  BY DEF WorkerStep
<1>4. /\ timer' \in [Call -> {"none", "scheduled", "due", "removed", "fired"}]
      /\ \A d \in Call : timer'[d] = timer[d] \/ (timer[d] # "fired" /\ timer'[d] = "removed")
  BY <1>2 DEF Inv, CallTypes, Removed
<1>5. QueueTypes' /\ CallTypes'
  BY <1>1, <1>3, <1>4 DEF Inv, QueueTypes, CallTypes
<1>6. CallbacksMoved' /\ BothAdded'
  BY <1>3 DEF Inv, CallbacksMoved, BothAdded, SrcDone
<1>7. TimeoutQueued' /\ TimeoutGuarded'
  BY <1>3, <1>4 DEF Inv, TimeoutQueued, TimeoutGuarded
<1>8. ResultFaithful' /\ NoInvalidState'
  BY <1>3, <1>4 DEF Inv, ResultFaithful, NoInvalidState
<1> QED
  BY <1>5, <1>6, <1>7, <1>8 DEF Inv

-----------------------------------------------------------------------------
(* The loop. *)

\* The deadline comes when no answer is on its way for which the timeout would
\* not be removed first.
LEMMA TimerDueInv ==
    ASSUME Inv, NEW c \in Call, TimerDue(c)
    PROVE  Inv'
<1>1. <<"on_timeout", c>> \in Entry
  BY DEF Entry
<1>2. /\ timer[c] = "scheduled" /\ pc[c] = "returned"
      /\ timer' = [timer EXCEPT ![c] = "due"]
      /\ UNCHANGED <<kind, src, cbs, worker, pc, result, invalid>>
  BY DEF TimerDue
<1>3. QueueTypes' /\ Adds(ready, ready', "on_timeout", c)
  BY <1>1, <1>2, Appended DEF TimerDue, Inv, QueueTypes
<1>4. /\ Len(ready) \in Nat /\ Len(ready') = Len(ready) + 1
      /\ \A k \in 1 .. Len(ready) : ready'[k] = ready[k]
  BY <1>3 DEF Adds
<1>5. CallTypes' /\ timer'[c] = "due" /\ \A d \in Call : d # c => timer'[d] = timer[d]
  BY <1>2 DEF Inv, CallTypes
<1>6. ASSUME NEW d \in Call, NEW j \in 1 .. Len(ready'), NEW g \in Callback, Is(ready'[j], g, d)
      PROVE  j \in 1 .. Len(ready) /\ Is(ready[j], g, d)
  <2>1. g # "on_timeout"
    BY DEF Callback
  <2> QED
    BY <1>3, <1>6, <2>1, AddedEntry
<1>7. CallbacksMoved' /\ BothAdded'
  BY <1>2, <1>6 DEF Inv, CallbacksMoved, BothAdded, SrcDone, Callback
<1>8. ASSUME NEW d \in Call, NEW j \in 1 .. Len(ready'), Is(ready'[j], "on_timeout", d)
      PROVE  \/ j \in 1 .. Len(ready) /\ Is(ready[j], "on_timeout", d) /\ d # c
             \/ j = Len(ready) + 1 /\ d = c
  <2>1. \/ j \in 1 .. Len(ready) /\ Is(ready[j], "on_timeout", d)
        \/ j = Len(ready) + 1 /\ d = c
    BY <1>3, <1>8, AddedEntry
  <2> QED
    BY <1>2, <2>1 DEF Inv, TimeoutQueued
<1>9. TimeoutQueued'
  BY <1>2, <1>5, <1>8 DEF Inv, TimeoutQueued
<1>10. ASSUME NEW d \in Call, NEW j \in 1 .. Len(ready'),
              Is(ready'[j], "on_timeout", d), timer'[d] # "removed"
       PROVE  Guarded(ready', result', d, j)
  <2>1. j \in 1 .. Len(ready) + 1 /\ Guarded(ready, result, d, j)
    BY <1>2, <1>4, <1>5, <1>8, <1>10 DEF Inv, TimeoutGuarded
  <2> QED
    BY <1>2, <1>3, <2>1, AddedGuarded
<1>11. ASSUME NEW d \in Call, pc'[d] = "returned", timer'[d] = "scheduled"
       PROVE  Guarded(ready', result', d, Len(ready') + 1)
  <2>1. Guarded(ready, result, d, Len(ready) + 1)
    BY <1>2, <1>5, <1>11 DEF Inv, TimeoutGuarded
  <2> QED
    BY <1>2, <1>3, <2>1, AddedGuardedEnd
<1>12. TimeoutGuarded'
  BY <1>10, <1>11 DEF TimeoutGuarded
<1>13. ResultFaithful' /\ NoInvalidState'
  BY <1>2, <1>5 DEF Inv, ResultFaithful, NoInvalidState
<1> QED
  BY <1>3, <1>5, <1>7, <1>9, <1>12, <1>13 DEF Inv

\* The Future a caller cancels is one that nothing answered.
LEMMA CallerCancelInv ==
    ASSUME Inv, NEW c \in Call, CallerCancel(c)
    PROVE  Inv'
<1>1. /\ result[c] = "pending" /\ result' = [result EXCEPT ![c] = "cancelled"]
      /\ UNCHANGED <<kind, src, cbs, ready, worker, pc, timer, invalid>>
  BY DEF CallerCancel, Done
<1>2. CallTypes' /\ result'[c] = "cancelled" /\ \A d \in Call : d # c => result'[d] = result[d]
  BY <1>1 DEF Inv, CallTypes
<1>3. QueueTypes' /\ CallbacksMoved' /\ BothAdded' /\ TimeoutQueued'
  BY <1>1 DEF Inv, QueueTypes, CallbacksMoved, BothAdded, TimeoutQueued, SrcDone
<1>4. \A d \in Call, j \in Int : Guarded(ready, result, d, j) => Guarded(ready, result', d, j)
  BY <1>2 DEF Guarded
<1>5. Len(ready) + 1 \in Int /\ \A j \in 1 .. Len(ready) : j \in Int
  BY DEF Inv, QueueTypes
<1>6. TimeoutGuarded'
  BY <1>1, <1>4, <1>5 DEF Inv, TimeoutGuarded
<1>7. ResultFaithful' /\ NoInvalidState'
  BY <1>1, <1>2 DEF Inv, CallTypes, ResultFaithful, NoInvalidState
<1> QED
  BY <1>2, <1>3, <1>6, <1>7 DEF Inv

\* The head of the loop's queue leaves it.  What is behind it stays guarded:
\* an answer by copy has on_complete behind it, and on_complete removes.
LEMMA HeadRun ==
    ASSUME Inv, NEW c \in Call, NEW f, NEW q, Drops(ready, q, <<f, c>>), NEW r, NEW t,
           \A d \in Call : d # c => t[d] = timer[d] /\ r[d] = result[d],
           \/ f = "copy" /\ t[c] = timer[c]
           \/ f = "on_complete" /\ t[c] \in {"removed", "fired"}
           \/ f = "on_timeout" /\ t[c] \in {"removed", "fired"}
    PROVE  \A d \in Call :
              /\ \A j \in 1 .. Len(q) : Is(q[j], "on_timeout", d) =>
                    /\ timer[d] \in {"due", "removed"} /\ pc[d] = "returned"
                    /\ \A k \in 1 .. Len(q) : Is(q[k], "on_timeout", d) => k = j
                    /\ d = c => f # "on_timeout"
                    /\ t[d] \notin {"removed", "fired"} => Guarded(q, r, d, j)
              /\ pc[d] = "returned" /\ t[d] = "scheduled" => Guarded(q, r, d, Len(q) + 1)
<1>1. /\ Len(ready) \in Nat \ {0} /\ Len(q) = Len(ready) - 1 /\ ready[1] = <<f, c>>
      /\ \A g, d : Is(<<f, c>>, g, d) <=> f = g /\ c = d
  BY IsPair DEF Drops
<1> SUFFICES ASSUME NEW d \in Call
             PROVE  /\ \A j \in 1 .. Len(q) : Is(q[j], "on_timeout", d) =>
                          /\ timer[d] \in {"due", "removed"} /\ pc[d] = "returned"
                          /\ \A k \in 1 .. Len(q) : Is(q[k], "on_timeout", d) => k = j
                          /\ d = c => f # "on_timeout"
                          /\ t[d] \notin {"removed", "fired"} => Guarded(q, r, d, j)
                    /\ pc[d] = "returned" /\ t[d] = "scheduled" => Guarded(q, r, d, Len(q) + 1)
  OBVIOUS
<1>2. ASSUME t[d] \notin {"removed", "fired"}, NEW j \in 1 .. Len(ready),
             Guarded(ready, result, d, j + 1)
      PROVE  Guarded(q, r, d, j)
  <2>1. /\ ~Is(<<f, c>>, "on_complete", d)
        /\ Is(<<f, c>>, "copy", d) \/ result[d] = r[d]
    BY <1>1, <1>2
  <2>2. j + 1 \in 2 .. Len(ready) + 1 /\ (j + 1) - 1 = j
    BY <1>1
  <2>3. Guarded(q, r, d, (j + 1) - 1)
    BY <1>2, <2>1, <2>2, DroppedGuarded
  <2> QED
    BY <2>2, <2>3
<1>3. ASSUME NEW j \in 1 .. Len(q), Is(q[j], "on_timeout", d)
      PROVE  /\ timer[d] \in {"due", "removed"} /\ pc[d] = "returned"
             /\ \A k \in 1 .. Len(q) : Is(q[k], "on_timeout", d) => k = j
             /\ d = c => f # "on_timeout"
             /\ t[d] \notin {"removed", "fired"} => Guarded(q, r, d, j)
  <2>1. \A k \in 1 .. Len(q) : Is(q[k], "on_timeout", d) =>
           k + 1 \in 1 .. Len(ready) /\ Is(ready[k + 1], "on_timeout", d)
    BY DroppedEntry
  <2>2. /\ timer[d] \in {"due", "removed"} /\ pc[d] = "returned"
        /\ \A k \in 1 .. Len(ready) : Is(ready[k], "on_timeout", d) => k = j + 1
    BY <1>3, <2>1 DEF Inv, TimeoutQueued
  <2>3. \A k \in 1 .. Len(q) : Is(q[k], "on_timeout", d) => k = j
    BY <2>1, <2>2
  <2>4. d = c => f # "on_timeout"
    BY <1>1, <2>2
  <2>5. ASSUME t[d] \notin {"removed", "fired"} PROVE Guarded(q, r, d, j)
    <3>1. timer[d] = t[d]
      BY <2>5
    <3>2. Guarded(ready, result, d, j + 1)
      BY <1>3, <2>1, <2>5, <3>1 DEF Inv, TimeoutGuarded
    <3>3. j \in 1 .. Len(ready)
      BY <1>1
    <3> QED
      BY <1>2, <2>5, <3>2, <3>3
  <2> QED
    BY <2>2, <2>3, <2>4, <2>5
<1>4. ASSUME pc[d] = "returned", t[d] = "scheduled" PROVE Guarded(q, r, d, Len(q) + 1)
  <2>1. timer[d] = t[d]
    BY <1>4
  <2>2. Guarded(ready, result, d, Len(ready) + 1)
    BY <1>4, <2>1 DEF Inv, TimeoutGuarded
  <2>3. Len(ready) \in 1 .. Len(ready) /\ Len(q) + 1 = Len(ready)
    BY <1>1
  <2> QED
    BY <1>2, <1>4, <2>2, <2>3
<1> QED
  BY <1>3, <1>4

LEMMA RunReadyInv ==
    ASSUME Inv, RunReady
    PROVE  Inv'
<1> DEFINE f == Head(ready)[1]
           c == Head(ready)[2]
           q == Tail(ready)
<1>1. /\ Head(ready) = <<f, c>> /\ c \in Call /\ q \in Seq(Entry)
      /\ Drops(ready, q, <<f, c>>)
  <2>1. /\ Head(ready) \in Entry /\ q \in Seq(Entry) /\ Drops(ready, q, Head(ready))
    BY Shortened DEF Inv, QueueTypes, RunReady
  <2>2. Head(ready) = <<f, c>> /\ c \in Call
    BY <2>1 DEF Entry
  <2> QED
    BY <2>1, <2>2
<1>2. /\ \/ /\ f = "copy" /\ Copy(c) /\ ready' = q
            /\ UNCHANGED <<timer, invalid>>
         \/ f = "on_complete" /\ OnComplete(c) /\ UNCHANGED <<result, invalid>>
         \/ f = "on_timeout" /\ OnTimeout(c) /\ ready' = q
      /\ UNCHANGED <<kind, src, cbs, worker, pc>>
  BY DEF RunReady
<1>3. \A d \in Call, j \in 1 .. Len(q) :
         Is(q[j], "copy", d) \/ Is(q[j], "on_complete", d) => SrcDone
  <2> SUFFICES ASSUME NEW d \in Call, NEW j \in 1 .. Len(q),
                      Is(q[j], "copy", d) \/ Is(q[j], "on_complete", d)
               PROVE  SrcDone
    OBVIOUS
  <2>1. j + 1 \in 1 .. Len(ready)
        /\ (Is(ready[j + 1], "copy", d) \/ Is(ready[j + 1], "on_complete", d))
    BY <1>1, DroppedEntry
  <2> QED
    BY <2>1 DEF Inv, CallbacksMoved
<1>4. 1 \in 1 .. Len(ready) /\ Is(ready[1], f, c)
  BY <1>1, IsPair DEF Drops
<1> HIDE DEF f, c, q
<1>5. CASE f = "copy" /\ Copy(c) /\ ready' = q /\ UNCHANGED <<timer, invalid>>
  <2>1. SrcDone
    BY <1>1, <1>4, <1>5 DEF Inv, CallbacksMoved
  <2>2. /\ CallTypes'
        /\ \A d \in Call : d # c => result'[d] = result[d]
        /\ result'[c] = result[c] \/ (result[c] = "pending" /\ result'[c] = src)
        /\ src # "cancelled" \/ result'[c] = result[c]
    BY <1>1, <1>2, <1>5, <2>1 DEF Inv, CallTypes, Copy, Done, SrcDone
  <2>3. QueueTypes' /\ CallbacksMoved' /\ BothAdded'
    BY <1>1, <1>2, <1>3, <1>5 DEF Inv, QueueTypes, CallbacksMoved, BothAdded, SrcDone
  <2>4. \A d \in Call : d # c => timer[d] = timer[d] /\ result'[d] = result[d]
    BY <2>2
  <2>5. TimeoutQueued' /\ TimeoutGuarded'
    <3>1. \A d \in Call :
              /\ \A j \in 1 .. Len(q) : Is(q[j], "on_timeout", d) =>
                    /\ timer[d] \in {"due", "removed"} /\ pc[d] = "returned"
                    /\ \A k \in 1 .. Len(q) : Is(q[k], "on_timeout", d) => k = j
                    /\ timer[d] \notin {"removed", "fired"} => Guarded(q, result', d, j)
              /\ pc[d] = "returned" /\ timer[d] = "scheduled" => Guarded(q, result', d, Len(q) + 1)
      BY <1>1, <1>5, <2>4, HeadRun
    <3> QED
      BY <1>2, <1>5, <3>1 DEF Inv, TimeoutQueued, TimeoutGuarded
  <2>6. ResultFaithful' /\ NoInvalidState'
    BY <1>1, <1>2, <1>5, <2>1, <2>2 DEF Inv, CallTypes, ResultFaithful, NoInvalidState, SrcDone
  <2> QED
    BY <2>2, <2>3, <2>5, <2>6 DEF Inv
<1>6. CASE f = "on_complete" /\ OnComplete(c) /\ UNCHANGED <<result, invalid>>
  <2>1. SrcDone
    BY <1>1, <1>4, <1>6 DEF Inv, CallbacksMoved
  <2>2. /\ CallTypes'
        /\ \A d \in Call : d # c => timer'[d] = timer[d]
        /\ timer'[c] = IF timer[c] = "fired" THEN "fired" ELSE "removed"
    BY <1>1, <1>2, <1>6 DEF Inv, CallTypes, OnComplete, Removed
  <2>3. ready' = q \/ ready' = Append(q, <<"copy", c>>)
    BY <1>6 DEF OnComplete, q
  <2>4. /\ ready' \in Seq(Entry)
        /\ ready' = q \/ Adds(q, ready', "copy", c)
    <3>1. <<"copy", c>> \in Entry
      BY <1>1 DEF Entry, Callback
    <3>2. Append(q, <<"copy", c>>) \in Seq(Entry) /\ Adds(q, Append(q, <<"copy", c>>), "copy", c)
      BY <1>1, <3>1, Appended
    <3> QED
      BY <1>1, <2>3, <3>2
  <2>5. \A d \in Call :
              /\ \A j \in 1 .. Len(q) : Is(q[j], "on_timeout", d) =>
                    /\ timer[d] \in {"due", "removed"} /\ pc[d] = "returned"
                    /\ \A k \in 1 .. Len(q) : Is(q[k], "on_timeout", d) => k = j
                    /\ timer'[d] \notin {"removed", "fired"} => Guarded(q, result, d, j)
              /\ pc[d] = "returned" /\ timer'[d] = "scheduled" => Guarded(q, result, d, Len(q) + 1)
    BY <1>1, <1>6, <2>2, HeadRun
  <2>6. QueueTypes' /\ BothAdded' /\ SrcDone' /\ cbs' = <<>>
    BY <1>2, <2>1, <2>4 DEF Inv, QueueTypes, CallbacksMoved, BothAdded, SrcDone
  <2>7. CallbacksMoved'
    BY <2>6 DEF CallbacksMoved
  <2>8. Len(q) \in Nat
    BY <1>1
  <2>9. ASSUME NEW d \in Call, NEW j \in 1 .. Len(ready'), Is(ready'[j], "on_timeout", d)
        PROVE  j \in 1 .. Len(q) /\ Is(q[j], "on_timeout", d)
    <3>1. CASE ready' = q
      BY <2>9, <3>1
    <3>2. CASE Adds(q, ready', "copy", c)
      BY <2>9, <3>2, AddedEntry
    <3> QED
      BY <2>4, <3>1, <3>2
  <2>10. TimeoutQueued'
    BY <1>2, <2>2, <2>5, <2>9 DEF Inv, TimeoutQueued
  <2>11. ASSUME NEW d \in Call, NEW j \in 1 .. Len(ready'),
                Is(ready'[j], "on_timeout", d), timer'[d] # "removed"
         PROVE  Guarded(ready', result', d, j)
    <3>1. /\ j \in 1 .. Len(q) /\ j \in 1 .. Len(q) + 1
          /\ Is(q[j], "on_timeout", d) /\ timer[d] \in {"due", "removed"}
      BY <2>5, <2>8, <2>9, <2>11
    <3>2. Guarded(q, result, d, j)
      BY <2>2, <2>5, <2>11, <3>1
    <3>3. CASE ready' = q
      BY <1>6, <3>2, <3>3
    <3>4. CASE Adds(q, ready', "copy", c)
      BY <1>6, <3>1, <3>2, <3>4, AddedGuarded
    <3> QED
      BY <2>4, <3>3, <3>4
  <2>12. ASSUME NEW d \in Call, pc'[d] = "returned", timer'[d] = "scheduled"
         PROVE  Guarded(ready', result', d, Len(ready') + 1)
    <3>1. d # c /\ Guarded(q, result, d, Len(q) + 1)
      BY <1>2, <2>2, <2>5, <2>12
    <3>2. CASE ready' = q
      BY <1>6, <3>1, <3>2
    <3>3. CASE Adds(q, ready', "copy", c)
      BY <1>6, <3>1, <3>3, AddedGuardedEnd
    <3> QED
      BY <2>4, <3>2, <3>3
  <2>13. TimeoutGuarded'
    BY <2>11, <2>12 DEF TimeoutGuarded
  <2>14. ResultFaithful' /\ NoInvalidState'
    BY <1>2, <1>6, <2>2 DEF Inv, ResultFaithful, NoInvalidState
  <2> QED
    BY <2>2, <2>6, <2>7, <2>10, <2>13, <2>14 DEF Inv
<1>7. CASE f = "on_timeout" /\ OnTimeout(c) /\ ready' = q
  <2>1. timer[c] \in {"due", "removed"} /\ pc[c] = "returned"
    BY <1>1, <1>4, <1>7 DEF Inv, TimeoutQueued
  <2>2. timer[c] # "removed" => result[c] \notin {"value", "error", "timeout"}
    <3>1. ASSUME timer[c] # "removed" PROVE Guarded(ready, result, c, 1)
      BY <1>1, <1>4, <1>7, <3>1 DEF Inv, TimeoutGuarded
    <3>2. timer[c] # "removed" => result[c] \notin {"value", "error"}
      BY <3>1 DEF Guarded
    <3> QED
      BY <1>1, <2>1, <3>2 DEF Inv, ResultFaithful
  <2>3. /\ CallTypes'
        /\ \A d \in Call : d # c => timer'[d] = timer[d] /\ result'[d] = result[d]
        /\ timer'[c] = IF timer[c] = "removed" THEN "removed" ELSE "fired"
    BY <1>1, <1>2, <1>7 DEF Inv, CallTypes, OnTimeout
  <2>4. /\ result'[c] = result[c] \/ (result[c] = "pending" /\ result'[c] = "timeout" /\ timer[c] # "removed")
        /\ invalid' = invalid \/ (invalid' = invalid \cup {c} /\ timer[c] # "removed"
                                  /\ result[c] # "pending" /\ result'[c] = result[c])
    BY <1>1, <1>7 DEF Inv, CallTypes, OnTimeout, Done
  <2>5. QueueTypes' /\ CallbacksMoved' /\ BothAdded'
    BY <1>1, <1>2, <1>3, <1>7 DEF Inv, QueueTypes, CallbacksMoved, BothAdded, SrcDone
  <2>6. \A d \in Call :
              /\ \A j \in 1 .. Len(q) : Is(q[j], "on_timeout", d) =>
                    /\ timer[d] \in {"due", "removed"} /\ pc[d] = "returned"
                    /\ \A k \in 1 .. Len(q) : Is(q[k], "on_timeout", d) => k = j
                    /\ d = c => f # "on_timeout"
                    /\ timer'[d] \notin {"removed", "fired"} => Guarded(q, result', d, j)
              /\ pc[d] = "returned" /\ timer'[d] = "scheduled" => Guarded(q, result', d, Len(q) + 1)
    BY <1>1, <1>7, <2>3, HeadRun
  <2>7. TimeoutQueued' /\ TimeoutGuarded'
    BY <1>2, <1>7, <2>1, <2>3, <2>6 DEF Inv, TimeoutQueued, TimeoutGuarded
  <2>8. ResultFaithful'
    BY <1>2, <2>1, <2>3, <2>4 DEF Inv, ResultFaithful
  <2>9. NoInvalidState'
    BY <2>2, <2>3, <2>4, <1>1 DEF Inv, CallTypes, NoInvalidState
  <2> QED
    BY <2>3, <2>5, <2>7, <2>8, <2>9 DEF Inv
<1> QED
  BY <1>2, <1>5, <1>6, <1>7

-----------------------------------------------------------------------------
LEMMA InitInv == Init => Inv
<1> SUFFICES ASSUME Init PROVE Inv
  OBVIOUS
<1>1. QueueTypes /\ CallTypes
  BY DEF Init, QueueTypes, CallTypes
<1>2. CallbacksMoved /\ BothAdded /\ TimeoutQueued
  BY DEF Init, CallbacksMoved, BothAdded, TimeoutQueued
<1>3. TimeoutGuarded /\ ResultFaithful /\ NoInvalidState
  BY DEF Init, TimeoutGuarded, ResultFaithful, NoInvalidState
<1> QED
  BY <1>1, <1>2, <1>3 DEF Inv

LEMMA NextInv == Inv /\ [Next]_vars => Inv'
<1> SUFFICES ASSUME Inv, [Next]_vars PROVE Inv'
  OBVIOUS
<1>1. ASSUME NEW c \in Call, ChainFuture(c) \/ StartTimer(c) \/ AddDoneCallback(c) PROVE Inv'
  BY <1>1, ChainFutureInv, StartTimerInv, AddDoneCallbackInv
<1>2. ASSUME NEW c \in Call, TimerDue(c) \/ CallerCancel(c) PROVE Inv'
  BY <1>2, TimerDueInv, CallerCancelInv
<1>3. ASSUME NEW o \in Outcome, Complete(o) PROVE Inv'
  BY <1>3, CompleteInv
<1>4. CASE UNCHANGED vars
  BY <1>4 DEF vars, Inv, QueueTypes, CallTypes, CallbacksMoved, BothAdded, SrcDone,
         TimeoutQueued, TimeoutGuarded, ResultFaithful, NoInvalidState
<1> QED
  BY <1>1, <1>2, <1>3, <1>4, WorkerStepInv, RunReadyInv DEF Next

\* The invariant holds in every reachable state.
THEOREM Invariance == Spec => []Inv
  BY InitInv, NextInv, PTL DEF Spec

\* A caller of with_timeout() sees the wrapped Future's own outcome, and a
\* TimeoutError only if its timeout ran, however many calls share the Future.
THEOREM ResultCorrect == Spec => []ResultFaithful
<1>1. Inv => ResultFaithful
  BY DEF Inv
<1> QED
  BY <1>1, Invariance, PTL

\* on_timeout() raises InvalidStateError only for a Future its caller cancelled:
\* its missing test of result.done() is harmless otherwise.
THEOREM TimeoutsCorrect == Spec => []NoInvalidState
<1>1. Inv => NoInvalidState
  BY DEF Inv
<1> QED
  BY <1>1, Invariance, PTL
=============================================================================
