---------------------------- MODULE BoundedFifo ----------------------------
(***************************************************************************)
(* What tornado.queues.Queue promises its callers: items come out in the   *)
(* order of the put() calls, a get() that waits is served before those     *)
(* that came later, a put() that waits takes the first place that becomes  *)
(* free, and join() is open while no accepted item is unfinished.  There   *)
(* are no Futures, deques or timers here: who times out just leaves.       *)
(***************************************************************************)
EXTENDS Integers, Sequences

CONSTANTS
    Item,      \* items, numbered in the order of their put() calls
    Client,    \* those who call get()
    Capacity   \* 0 is unbounded

VARIABLES
    arrived,   \* the items whose put() was called
    offered,   \* those whose put() waits for room
    buffer,    \* the items accepted and not handed out, in order
    out,       \* the items handed out, in order
    hungry,    \* the clients whose get() waits
    ahead,     \* <<c, d>>: c came before d, both wait
    undone,    \* accepted items not reported as done
    open       \* join() may return

vars == <<arrived, offered, buffer, out, hungry, ahead, undone, open>>

Init ==
    /\ arrived = {} /\ offered = {} /\ buffer = <<>> /\ out = <<>>
    /\ hungry = {} /\ ahead = {} /\ undone = 0 /\ open = TRUE

Room == Capacity = 0 \/ Len(buffer) < Capacity

\* No client waits ahead of c.
First(c) == c \in hungry /\ \A d \in hungry : <<d, c>> \notin ahead

Leaves(c) ==
    /\ hungry' = hungry \ {c}
    /\ ahead' = {p \in ahead : p[1] # c /\ p[2] # c}

Arrives(i) ==
    /\ i \notin arrived /\ \A j \in arrived : j < i
    /\ arrived' = arrived \cup {i}

OneMoreUndone == undone' = undone + 1 /\ open' = FALSE

-----------------------------------------------------------------------------
\* put() while a get() waits: the one that has waited longest has the item.
Serve(i, c) ==
    /\ Arrives(i)
    /\ First(c) /\ buffer = <<>> /\ offered = {}
    /\ Leaves(c)
    /\ out' = Append(out, i)
    /\ OneMoreUndone
    /\ UNCHANGED <<offered, buffer>>

\* put() with room, and nobody who waits on either side.
Store(i) ==
    /\ Arrives(i)
    /\ Room /\ hungry = {} /\ offered = {}
    /\ buffer' = Append(buffer, i)
    /\ OneMoreUndone
    /\ UNCHANGED <<offered, out, hungry, ahead>>

\* put() without room.
Block(i) ==
    /\ Arrives(i)
    /\ ~Room
    /\ offered' = offered \cup {i}
    /\ UNCHANGED <<buffer, out, hungry, ahead, undone, open>>

\* get(): the oldest item; its place goes to the put() that came first.
Take ==
    /\ buffer # <<>>
    /\ out' = Append(out, Head(buffer))
    /\ \/ /\ offered = {}
          /\ buffer' = Tail(buffer)
          /\ UNCHANGED <<offered, undone, open>>
       \/ \E i \in offered :
             /\ \A j \in offered : i <= j
             /\ offered' = offered \ {i}
             /\ buffer' = Append(Tail(buffer), i)
             /\ OneMoreUndone
    /\ UNCHANGED <<arrived, hungry, ahead>>

\* get() with nothing there.
Wait(c) ==
    /\ buffer = <<>> /\ c \notin hungry
    /\ hungry' = hungry \cup {c}
    /\ ahead' = ahead \cup (hungry \X {c})
    /\ UNCHANGED <<arrived, offered, buffer, out, undone, open>>

\* A put() and a get() that give up.
Withdraw(i) ==
    /\ i \in offered
    /\ offered' = offered \ {i}
    /\ UNCHANGED <<arrived, buffer, out, hungry, ahead, undone, open>>

GiveUp(c) ==
    /\ c \in hungry
    /\ Leaves(c)
    /\ UNCHANGED <<arrived, offered, buffer, out, undone, open>>

\* task_done()
Done ==
    /\ undone > 0
    /\ undone' = undone - 1
    /\ open' = (undone' = 0)
    /\ UNCHANGED <<arrived, offered, buffer, out, hungry, ahead>>

Next ==
    \/ \E i \in Item : Store(i) \/ Block(i) \/ Withdraw(i)
    \/ \E i \in Item, c \in Client : Serve(i, c)
    \/ \E c \in Client : Wait(c) \/ GiveUp(c)
    \/ Take \/ Done

Spec == Init /\ [][Next]_vars
=============================================================================
