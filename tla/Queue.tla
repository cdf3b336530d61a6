------------------------------- MODULE Queue -------------------------------
(***************************************************************************)
(* tornado.queues.Queue (src/tornado/queues.py), composed with             *)
(* tornado.locks.Event, which it uses for join().                          *)
(*                                                                         *)
(* The code calls five helpers that the repository does not define:        *)
(* _init, full, _notify_getters, _notify_putters and the two timeout       *)
(* callbacks.  They are modelled from how the code and its tests use them. *)
(* Futures that timed out leave a deque when a live one behind them is     *)
(* served, or when none is left.  test/queues_test.py:145-158 and 252-264  *)
(* expect that a get() or put() that has to wait removes them as well:     *)
(* that code is not there.                                                 *)
(* put() number i puts item i, so items are numbered in the order of the   *)
(* calls and item i also identifies the Future of its put().               *)
(***************************************************************************)
EXTENDS Integers, Sequences, FiniteSets, SequencesExt

CONSTANTS
    Getter,       \* identities of get() calls
    Joiner,       \* identities of join() calls
    MaxSize,      \* self._maxsize; 0 is unbounded
    MaxItems,     \* bound on put() calls
    IOLoopBound   \* does the name IOLoop, used by put() and get(), resolve?

ASSUME QueueAssumption ==
    /\ MaxSize \in Nat          \* __init__ raises for None and for negatives
    /\ MaxItems \in Nat
    /\ IOLoopBound \in BOOLEAN
    /\ IsFiniteSet(Getter)

VARIABLES
    queue,       \* self._queue, a deque of items
    getters,     \* self._getters, a deque of Futures
    putters,     \* self._putters, a deque of (item, Future)
    unfinished,  \* self._unfinished_tasks
    pfut,        \* the Future of put() number i
    gfut,        \* the Future of each get()
    gtask,       \* what the caller of get() is doing
    delivered,   \* the items given to a get(), in order
    toProcess,   \* items consumers hold and have not called task_done() for
    finished, jwait, jfut, jtimer, jtask   \* the Event self._finished

qvars == <<queue, getters, putters, unfinished, pfut, gfut, gtask, delivered, toProcess>>
evars == <<finished, jwait, jfut, jtimer, jtask>>
vars  == <<qvars, evars>>

Item == 1 .. MaxItems

Finished == INSTANCE Event WITH
               Call <- Joiner, value <- finished, waiters <- jwait, fut <- jfut,
               timer <- jtimer, task <- jtask

\* Event.__init__, then self._finished.set().
Init ==
    /\ queue = <<>> /\ getters = <<>> /\ putters = <<>>
    /\ unfinished = 0
    /\ pfut = [i \in Item |-> "none"]
    /\ gfut = [g \in Getter |-> "none"]
    /\ gtask = [g \in Getter |-> "done"]
    /\ delivered = <<>>
    /\ toProcess = 0
    /\ finished = TRUE
    /\ jwait = {}
    /\ jfut = [j \in Joiner |-> "none"]
    /\ jtimer = [j \in Joiner |-> FALSE]
    /\ jtask = [j \in Joiner |-> "done"]

GetPending(g) == gfut[g] = "pending"
PutPending(i) == pfut[i] = "pending"

\* Seeded mistake: full() compares with > for >=.
FullLate(q) == MaxSize > 0 /\ Len(q) > MaxSize

Full(q) == MaxSize > 0 /\ Len(q) >= MaxSize

\* The item of the next put() call.
NextItem == Cardinality({i \in Item : pfut[i] # "none"}) + 1

\* Seeded mistake: _notify_getters() does not start at the front.
SomeWaitingGetter(g) == g \in ToSet(getters) /\ GetPending(g)

\* _notify_getters() serves the first Future of the deque that is not done.
FirstWaitingGetter(g) ==
    \E k \in DOMAIN getters :
        /\ getters[k] = g /\ GetPending(g)
        /\ \A j \in 1 .. k-1 : ~GetPending(getters[j])

\* What is left of a deque once the done Futures up to and including x, the
\* first that is not, are popped.
After(deque, x) == SubSeq(deque, (CHOOSE k \in DOMAIN deque : deque[k] = x) + 1, Len(deque))

-----------------------------------------------------------------------------
(* Seeded mistakes, used by no behaviour of Spec. *)

\* put_nowait() forgets self._notify_getters().
AcceptNoNotify(i) ==
    /\ queue' = Append(queue, i)
    /\ unfinished' = unfinished + 1
    /\ Finished!Clear
    /\ UNCHANGED <<getters, gfut, delivered>>

\* get_nowait() takes the newest item.
GetNowNewest ==
    /\ queue # <<>>
    /\ delivered' = Append(delivered, Last(queue))
    /\ queue' = Front(queue)
    /\ toProcess' = toProcess + 1
    /\ UNCHANGED <<getters, putters, unfinished, pfut, gfut, gtask, evars>>

\* task_done() sets the event when one task is left.
TaskDoneEarly ==
    /\ toProcess > 0
    /\ toProcess' = toProcess - 1
    /\ unfinished' = unfinished - 1
    /\ \/ unfinished' <= 1 /\ Finished!Set
       \/ unfinished' > 1 /\ UNCHANGED evars
    /\ UNCHANGED <<queue, getters, putters, pfut, gfut, gtask, delivered>>

\* task_done() tests the counter before it decrements it.
TaskDoneNeverSets ==
    /\ toProcess > 0
    /\ toProcess' = toProcess - 1
    /\ unfinished' = unfinished - 1
    /\ UNCHANGED <<queue, getters, putters, pfut, gfut, gtask, delivered, evars>>

-----------------------------------------------------------------------------
\* put_nowait(item) on a queue that is not full: append, let a waiting get()
\* have the head of the queue, count the task and clear the event.
Accept(i) ==
    /\ \/ \E g \in Getter :
             /\ FirstWaitingGetter(g)
             /\ getters' = After(getters, g)
             /\ gfut' = [gfut EXCEPT ![g] = "result"]
             /\ delivered' = Append(delivered, Head(Append(queue, i)))
             /\ queue' = Tail(Append(queue, i))
       \/ /\ \A k \in DOMAIN getters : ~GetPending(getters[k])
          /\ getters' = <<>>
          /\ queue' = Append(queue, i)
          /\ UNCHANGED <<gfut, delivered>>
    /\ unfinished' = unfinished + 1
    /\ Finished!Clear

\* put() with room in the queue (and put_nowait(), which returns nothing).
PutNow(i) ==
    /\ i = NextItem
    /\ ~Full(queue)
    /\ Accept(i)
    /\ pfut' = [pfut EXCEPT ![i] = "result"]
    /\ UNCHANGED <<putters, gtask, toProcess>>

\* put() on a full queue: the pair is queued before IOLoop is looked up.  If
\* the name does not resolve the caller gets a NameError and the pair stays.
PutWait(i) ==
    /\ i = NextItem
    /\ Full(queue)
    /\ putters' = Append(putters, i)
    /\ pfut' = [pfut EXCEPT ![i] = "pending"]
    /\ UNCHANGED <<queue, getters, unfinished, gfut, gtask, delivered, toProcess, evars>>

\* _notify_putters(), after an item was popped: the first put() that still
\* waits has its item accepted.
NotifyPutters(q) ==
    \/ \E k \in DOMAIN putters :
          /\ PutPending(putters[k])
          /\ \A j \in 1 .. k-1 : ~PutPending(putters[j])
          /\ putters' = SubSeq(putters, k+1, Len(putters))
          /\ pfut' = [pfut EXCEPT ![putters[k]] = "result"]
          /\ queue' = Append(q, putters[k])
          /\ unfinished' = unfinished + 1
          /\ Finished!Clear
    \/ /\ \A k \in DOMAIN putters : ~PutPending(putters[k])
       /\ putters' = <<>>
       /\ queue' = q
       /\ UNCHANGED <<pfut, unfinished, evars>>

\* get() or get_nowait() with an item in the queue.
GetNow ==
    /\ queue # <<>>
    /\ delivered' = Append(delivered, Head(queue))
    /\ NotifyPutters(Tail(queue))
    /\ toProcess' = toProcess + 1
    /\ UNCHANGED <<getters, gfut, gtask>>

\* get() on an empty queue; as in PutWait, a NameError leaves the Future
\* queued with nobody awaiting it.
GetWait(g) ==
    /\ queue = <<>>
    /\ gtask[g] = "done" /\ g \notin ToSet(getters)
    /\ getters' = Append(getters, g)
    /\ gfut' = [gfut EXCEPT ![g] = "pending"]
    /\ gtask' = [gtask EXCEPT ![g] = IF IOLoopBound THEN "awaiting" ELSE "orphan"]
    /\ UNCHANGED <<queue, putters, unfinished, pfut, delivered, toProcess, evars>>

\* _get_timeout(future), or the cancellation of the task: a Future that is
\* still pending is resolved with an exception and stays in the deque.
GetTimeout(g) ==
    /\ gtask[g] = "awaiting" /\ GetPending(g)
    /\ gfut' = [gfut EXCEPT ![g] = "timeout"]
    /\ UNCHANGED <<queue, getters, putters, unfinished, pfut, gtask, delivered, toProcess, evars>>

\* _put_timeout(future), or the cancellation of the task.
PutTimeout(i) ==
    /\ IOLoopBound /\ PutPending(i)
    /\ pfut' = [pfut EXCEPT ![i] = "timeout"]
    /\ UNCHANGED <<queue, getters, putters, unfinished, gfut, gtask, delivered, toProcess, evars>>

\* The loop resumes a get() whose Future is done.
Resume(g) ==
    /\ gtask[g] = "awaiting" /\ ~GetPending(g)
    /\ gtask' = [gtask EXCEPT ![g] = "done"]
    /\ toProcess' = IF gfut[g] = "result" THEN toProcess + 1 ELSE toProcess
    /\ UNCHANGED <<queue, getters, putters, unfinished, pfut, gfut, delivered, evars>>

\* task_done() by a consumer, once per item it got.
TaskDone ==
    /\ toProcess > 0
    /\ unfinished > 0
    /\ toProcess' = toProcess - 1
    /\ unfinished' = unfinished - 1
    /\ \/ unfinished' = 0 /\ Finished!Set
       \/ unfinished' # 0 /\ UNCHANGED evars
    /\ UNCHANGED <<queue, getters, putters, pfut, gfut, gtask, delivered>>

\* join(timeout) and the life of its Future.
Join(j) == Finished!WaiterStep(j) /\ UNCHANGED qvars

Next ==
    \/ \E i \in Item : PutNow(i) \/ PutWait(i) \/ PutTimeout(i)
    \/ GetNow
    \/ \E g \in Getter : GetWait(g) \/ GetTimeout(g) \/ Resume(g)
    \/ TaskDone
    \/ \E j \in Joiner : Join(j)

Spec == Init /\ [][Next]_vars

\* The loop runs ready tasks, and the consumers keep getting and processing.
FairSpec ==
    /\ Spec
    /\ WF_vars(GetNow) /\ WF_vars(TaskDone)
    /\ \A g \in Getter : WF_vars(Resume(g))
    /\ \A j \in Joiner : WF_vars(Finished!Resume(j) /\ UNCHANGED qvars)

-----------------------------------------------------------------------------
TypeOK ==
    /\ queue \in Seq(Item) /\ putters \in Seq(Item) /\ delivered \in Seq(Item)
    /\ getters \in Seq(Getter)
    /\ unfinished \in Nat /\ toProcess \in Nat
    /\ pfut \in [Item -> {"none", "pending", "result", "timeout"}]
    /\ gfut \in [Getter -> {"none", "pending", "result", "timeout"}]
    /\ gtask \in [Getter -> {"done", "awaiting", "orphan"}]
    /\ Finished!TypeOK
    /\ MaxSize > 0 => Len(queue) <= MaxSize

\* First in, first out, across the queue and the blocked put() calls: what was
\* delivered, then what is queued, then what the deque of put() calls holds,
\* timed out or not, come in the order of the put() calls, and none twice.
\* Delivered or queued are exactly the items whose put() succeeded: none is
\* lost, and one whose put() timed out is never seen.
Fifo ==
    /\ LET line == delivered \o queue \o putters IN
       \A k \in 1 .. Len(line) - 1 : line[k] < line[k+1]
    /\ ToSet(delivered) \cup ToSet(queue) = {i \in Item : pfut[i] = "result"}

\* Nobody waits in vain: no get() waits while there is an item, no put() waits
\* while there is room.
NobodyWaitsInVain ==
    /\ queue # <<>> => \A g \in Getter : ~GetPending(g)
    /\ ~Full(queue) => \A i \in Item : ~PutPending(i)

\* join() is open exactly while no accepted item is queued, on its way to a
\* get(), or in a consumer's hands, and set() can reach a blocked join().
JoinExact ==
    /\ finished <=> unfinished = 0
    /\ unfinished = Len(queue) + toProcess
                      + Cardinality({g \in Getter : gtask[g] # "done" /\ gfut[g] = "result"})
    /\ Finished!NobodyMissed

\* With consumers at work every join() returns.
JoinReturns == \A j \in Joiner : (jtask[j] = "awaiting") ~> (jtask[j] # "awaiting")

\* What a join() is told was true when it was told: it returns at a moment
\* when nothing is undone, though the next put() may come before its task
\* runs, and it times out at a moment when something is: the set() of the last
\* task_done() overlooks no Future, whoever else gave up waiting.
JoinHonest ==
    [][\A j \in Joiner :
         /\ (jfut'[j] = "result" /\ jfut[j] # "result") => unfinished' = 0
         /\ (jfut'[j] = "timeout" /\ jfut[j] # "timeout") => unfinished > 0]_vars

-----------------------------------------------------------------------------
(* What the class promises: a bounded queue that serves both sides in turn. *)

Arrived == {i \in Item : pfut[i] # "none"}
Offered == {i \in Item : PutPending(i)}
Hungry == {g \in Getter : GetPending(g)}

\* The get() calls that wait, in the order of the deque.
Ahead == {p \in Hungry \X Hungry :
            \E j, k \in DOMAIN getters : j < k /\ getters[j] = p[1] /\ getters[k] = p[2]}

Promise == INSTANCE BoundedFifo WITH
              Client <- Getter, Capacity <- MaxSize,
              arrived <- Arrived, offered <- Offered, buffer <- queue, out <- delivered,
              hungry <- Hungry, ahead <- Ahead, undone <- unfinished, open <- finished

\* Futures that are done and stay in the deques, timers and tasks cannot be
\* told from a queue that forgets who gave up: each put(), get() and
\* task_done() is one step of BoundedFifo.
FifoSpec == Promise!Spec
=============================================================================
