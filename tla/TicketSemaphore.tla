-------------------------- MODULE TicketSemaphore --------------------------
(***************************************************************************)
(* What tornado.locks.Semaphore promises its callers: permits that are     *)
(* free, owned, or passed on to the client that has waited longest.  There *)
(* are no Futures, timers or tasks here; a client may leave the queue at   *)
(* any time, and that is all a timeout or a cancellation is.               *)
(***************************************************************************)
EXTENDS Integers

CONSTANTS Client, Permits

VARIABLES
    avail,    \* free permits
    owners,   \* clients a permit was given to
    waiting,  \* clients that wait for one
    ahead     \* <<v, w>>: v came before w, both wait

vars == <<avail, owners, waiting, ahead>>

Init == avail = Permits /\ owners = {} /\ waiting = {} /\ ahead = {}

\* Nobody waits ahead of w.
First(w) == w \in waiting /\ \A v \in waiting : <<v, w>> \notin ahead

Without(w) == {p \in ahead : p[1] # w /\ p[2] # w}

Take(w) ==
    /\ w \notin owners \cup waiting
    /\ avail > 0 /\ waiting = {}
    /\ avail' = avail - 1
    /\ owners' = owners \cup {w}
    /\ UNCHANGED <<waiting, ahead>>

Enqueue(w) ==
    /\ w \notin owners \cup waiting
    /\ avail = 0
    /\ waiting' = waiting \cup {w}
    /\ ahead' = ahead \cup (waiting \X {w})
    /\ UNCHANGED <<avail, owners>>

Leave(w) ==
    /\ w \in waiting
    /\ waiting' = waiting \ {w}
    /\ ahead' = Without(w)
    /\ UNCHANGED <<avail, owners>>

\* A permit comes back, from the clients in S: the first waiting client gets
\* it, and only without one does it become free.
Return(S) ==
    \/ \E w \in waiting :
          /\ First(w)
          /\ waiting' = waiting \ {w}
          /\ ahead' = Without(w)
          /\ owners' = (owners \ S) \cup {w}
          /\ UNCHANGED avail
    \/ /\ waiting = {}
       /\ avail' = avail + 1
       /\ owners' = owners \ S
       /\ UNCHANGED <<waiting, ahead>>

\* A release that is refused: the client's permit had been returned by others.
Forfeit(w) ==
    /\ w \in owners
    /\ owners' = owners \ {w}
    /\ UNCHANGED <<avail, waiting, ahead>>

Next ==
    \/ \E w \in Client :
          Take(w) \/ Enqueue(w) \/ Leave(w) \/ (w \in owners /\ Return({w})) \/ Forfeit(w)
    \/ Return({})

Spec == Init /\ [][Next]_vars
=============================================================================
