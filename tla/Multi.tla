------------------------------- MODULE Multi -------------------------------
(***************************************************************************)
(* tornado.gen.multi and convert_yielded (src/tornado/gen.py): a tree of   *)
(* Futures.  The children of a call are its own Futures or further lists   *)
(* and dictionaries, for which convert_yielded() calls multi() again.  One *)
(* Future may be a child in several places.  The keys of a dictionary are  *)
(* its positions: zip(keys, result_list) keeps them.                       *)
(***************************************************************************)
EXTENDS Naturals, Sequences, SequencesExt

CONSTANTS
    Leaf,      \* the Futures the application passes
    Calls,     \* the calls of multi(), inner ones first: a sequence of names
    Children   \* Children[m]: the leaves and calls under m, in order; not empty

\* Inner calls come before the ones they are children of, and the last call,
\* the application's own, is over all the others and all the leaves.
ASSUME MultiAssumption ==
    /\ Calls \in Seq(ToSet(Calls)) /\ Calls # <<>> /\ IsInjective(Calls)
    /\ Leaf \cap ToSet(Calls) = {}
    /\ \A i \in DOMAIN Calls : Children[Calls[i]] \in Seq(Leaf \cup {Calls[j] : j \in 1 .. i - 1})
    /\ \A n \in Leaf \cup {Calls[j] : j \in 1 .. Len(Calls) - 1} :
          \E m \in ToSet(Calls) : n \in ToSet(Children[m])

VARIABLES
    called,  \* multi() was called
    fut,     \* the Futures: of the application, and returned by each call
    gather,  \* gather_future of each call
    seen,    \* the children gather() has counted
    ready    \* the loop's queue of callbacks

multiVars == <<called, fut, gather, seen, ready>>

Call == ToSet(Calls)
Outer == Last(Calls)

Pending == [state |-> "pending", value |-> ""]
Ok(v) == [state |-> "ok", value |-> v]
Failed(n) == [state |-> "failed", value |-> n]
Cancelled == [state |-> "cancelled", value |-> ""]

ChildSet(m) == ToSet(Children[m])

\* The elements of a sequence that are in T, in their order.
Within(s, T) == FoldLeft(LAMBDA q, x : IF x \in T THEN Append(q, x) ELSE q, <<>>, s)

MultiInit ==
    /\ called = FALSE
    /\ fut = [n \in Leaf \cup Call |-> Pending]
    /\ gather = [m \in Call |-> Pending]
    /\ seen = [m \in Call |-> {}]
    /\ ready = <<>>

\* convert_yielded(child): a list or a dictionary stands for the Future of
\* its own multi() call; a Future, or the task of an awaitable, for itself.
\* (is_future() is defined nowhere.)  Anything else becomes None, for which
\* gather() raises TypeError out of multi(): the children are none of those.
ConvertYielded(n) == fut[n]

-----------------------------------------------------------------------------
(* asyncio *)

\* gather() adds one callback to each of its children; those of a Future run
\* in the order they were added.
Waking(n) ==
    LET calls == Within(Calls, {m \in Call : n \in ChildSet(m)})
    IN  [i \in DOMAIN calls |-> [run |-> "gather", call |-> calls[i], child |-> n]]

\* The Futures that are done when gather() is called have their callbacks
\* queued at once, in the order of the arguments and each of them once.
AlreadyDone(m) ==
    LET firstDone == {i \in DOMAIN Children[m] :
                         /\ ConvertYielded(Children[m][i]) # Pending
                         /\ \A j \in 1 .. i - 1 : Children[m][j] # Children[m][i]}
        args == Within([i \in DOMAIN Children[m] |-> i], firstDone)
    IN  [i \in DOMAIN args |-> [run |-> "gather", call |-> m, child |-> Children[m][args[i]]]]

\* gather()'s own callback for a child: the first failure or cancellation is
\* the outcome, else the list of results when all are there.
GatherStep(m, n) ==
    LET child == ConvertYielded(n)
        outcome == IF gather[m] # Pending THEN gather[m]
                   ELSE IF child.state \in {"failed", "cancelled"} THEN child
                   ELSE IF seen[m] \cup {n} = ChildSet(m)
                   THEN Ok([k \in DOMAIN Children[m] |-> ConvertYielded(Children[m][k]).value])
                   ELSE Pending
    IN  /\ seen' = [seen EXCEPT ![m] = @ \cup {n}]
        /\ gather' = [gather EXCEPT ![m] = outcome]
        /\ ready' = Tail(ready) \o
                    IF outcome # gather[m]
                    THEN <<[run |-> "callback", call |-> m, child |-> m]>> ELSE <<>>
        /\ UNCHANGED <<called, fut>>

\* A Future of the application ends, before or after it is passed to multi().
Complete(n, outcome) ==
    /\ fut[n] = Pending
    /\ fut' = [fut EXCEPT ![n] = outcome]
    /\ ready' = IF called THEN ready \o Waking(n) ELSE ready
    /\ UNCHANGED <<called, gather, seen>>

\* The caller cancels the Future it was given.
CancelOuter ==
    /\ called /\ fut[Outer] = Pending
    /\ fut' = [fut EXCEPT ![Outer] = Cancelled]
    /\ UNCHANGED <<called, gather, seen, ready>>

-----------------------------------------------------------------------------
(* Seeded mistake, used by no behaviour of the specification. *)

\* Only a result is passed on: the exception of a child is not caught.
PassOnResultOnly(m) ==
    IF gather[m].state = "ok" /\ fut[m] = Pending THEN gather[m] ELSE fut[m]

-----------------------------------------------------------------------------
\* multi(children): convert_yielded() of each child, gather(), add_future().
CallMulti ==
    /\ ~called
    /\ called' = TRUE
    /\ ready' = FlattenSeq([i \in DOMAIN Calls |-> AlreadyDone(Calls[i])])
    /\ UNCHANGED <<fut, gather, seen>>

\* future_set_result_unless_cancelled() and future_set_exc_info().
SetResult(f, outcome) == IF f = Cancelled THEN f ELSE outcome
SetExcInfo(f, outcome) == IF f = Cancelled THEN f ELSE outcome

\* What callback(f) makes of the returned Future.  CancelledError is no
\* Exception: it leaves callback(), and the Future as it was.
PassOn(m) ==
    CASE gather[m].state = "ok" -> SetResult(fut[m], gather[m])
      [] gather[m].state = "failed" -> SetExcInfo(fut[m], gather[m])
      [] gather[m].state = "cancelled" -> fut[m]

\* callback(f), run by the loop.
Callback(m) ==
    /\ fut' = [fut EXCEPT ![m] = PassOn(m)]
    /\ ready' = Tail(ready) \o IF PassOn(m) # fut[m] THEN Waking(m) ELSE <<>>
    /\ UNCHANGED <<called, gather, seen>>

RunReady ==
    /\ ready # <<>>
    /\ LET cb == Head(ready) IN
       IF cb.run = "gather" THEN GatherStep(cb.call, cb.child) ELSE Callback(cb.call)

MultiNext ==
    \/ CallMulti \/ CancelOuter \/ RunReady
    \/ \E n \in Leaf : \E outcome \in {Ok(n), Failed(n), Cancelled} : Complete(n, outcome)

MultiSpec == MultiInit /\ [][MultiNext]_multiVars /\ WF_multiVars(RunReady)

-----------------------------------------------------------------------------
Ended(state) == {n \in Leaf : fut[n].state = state}

\* The result the docstring promises: "a parallel structure".
Parallel[m \in Leaf \cup Call] ==
    IF m \in Leaf THEN m ELSE [k \in DOMAIN Children[m] |-> Parallel[Children[m][k]]]

\* Cancelled by the caller; or the results of all in their places; or the
\* exception of one that failed.
AnsweredRightly ==
    \/ fut[Outer] = Cancelled
    \/ fut[Outer] = Ok(Parallel[Outer]) /\ Ended("ok") = Leaf
    \/ fut[Outer] \in {Failed(n) : n \in Ended("failed")}

AnswersRight == fut[Outer] # Pending => AnsweredRightly

\* A caller of multi() whose Future is done was answered rightly; and it is
\* answered once all the children have ended or one has failed, in whatever
\* order and however they are nested and shared, unless one was cancelled.
MultiAnswers ==
    /\ []AnswersRight
    /\ (called /\ (Ended("pending") = {} \/ Ended("failed") # {}))
          ~> (AnsweredRightly \/ Ended("cancelled") # {})
=============================================================================
