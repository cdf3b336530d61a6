---------------------------- MODULE StreamBuffer ----------------------------
(***************************************************************************)
(* tornado.iostream._StreamBuffer (src/tornado/iostream.py), the write     *)
(* buffer of every IOStream.                                               *)
(*                                                                         *)
(* A byte is identified by its number in the stream of bytes ever          *)
(* appended, so a buffer of the deque is an interval of byte numbers, and  *)
(* that a reader gets the right bytes means that it gets the right         *)
(* numbers.  append() copies a small piece and takes a view of a large     *)
(* one; the bytes are the same.  The loops of peek() and advance() are     *)
(* one step per iteration.                                                 *)
(***************************************************************************)
EXTENDS Integers, Sequences

CONSTANTS
    MaxBytes,   \* bound on the bytes ever appended
    MaxPieces   \* bound on the length of the deque

ASSUME StreamBufferAssumption == MaxBytes \in Nat /\ MaxPieces \in Nat

VARIABLES
    buffers,    \* self._buffers: intervals [lo, hi) of byte numbers
    firstPos,   \* self._first_pos
    size,       \* self._size
    pc,         \* "idle", or the method whose loop is running
    want,       \* the argument of peek(); what advance() has still to skip
    next,       \* the buffer that peek()'s loop comes to
    pos,        \* the number of bytes peek() has copied
    view,       \* those bytes
    appended,   \* the bytes ever appended
    consumed    \* the bytes the reader has advanced over

vars == <<buffers, firstPos, size, pc, want, next, pos, view, appended, consumed>>

Piece == [lo : Nat, hi : Nat]

Length(b) == b.hi - b.lo

NoBytes == [p \in 0 .. -1 |-> 0]

\* view[pos:pos + len(chunk)] = chunk, for a chunk of len bytes from byte lo.
Copied(lo, len) == [p \in 0 .. pos + len - 1 |-> IF p < pos THEN view[p] ELSE lo + p - pos]

Init ==
    /\ buffers = <<>> /\ firstPos = 0 /\ size = 0
    /\ pc = "idle" /\ want = 0 /\ next = 1 /\ pos = 0 /\ view = NoBytes
    /\ appended = 0 /\ consumed = 0

-----------------------------------------------------------------------------
(* Seeded mistakes, used by no behaviour of Spec. *)

\* peek() skips _first_pos bytes of every buffer.
PeekCopySkipsAlways ==
    /\ pc = "peek" /\ next <= Len(buffers) /\ pos # want
    /\ LET len  == IF Length(buffers[next]) < firstPos THEN 0 ELSE Length(buffers[next]) - firstPos
           clip == IF len > want - pos THEN want - pos ELSE len
       IN  view' = Copied(buffers[next].lo + firstPos, clip) /\ pos' = pos + clip
    /\ next' = next + 1
    /\ UNCHANGED <<buffers, firstPos, size, pc, want, appended, consumed>>

\* advance() keeps the position within a buffer it has popped.
PopKeepsPosition ==
    /\ pc = "advance" /\ want > 0 /\ buffers # <<>>
    /\ Length(Head(buffers)) - firstPos <= want
    /\ want' = want - (Length(Head(buffers)) - firstPos)
    /\ consumed' = consumed + (Length(Head(buffers)) - firstPos)
    /\ buffers' = Tail(buffers)
    /\ UNCHANGED <<firstPos, size, pc, next, pos, view, appended>>

\* advance() takes its argument off the size once per call of popleft() too.
PopCountsTwice ==
    /\ pc = "advance" /\ want > 0 /\ buffers # <<>>
    /\ Length(Head(buffers)) - firstPos <= want
    /\ size' = size - (Length(Head(buffers)) - firstPos)
    /\ want' = want - (Length(Head(buffers)) - firstPos)
    /\ consumed' = consumed + (Length(Head(buffers)) - firstPos)
    /\ firstPos' = 0
    /\ buffers' = Tail(buffers)
    /\ UNCHANGED <<pc, next, pos, view, appended>>

-----------------------------------------------------------------------------
\* append(data), where data may be empty.
AppendPiece(n) ==
    /\ pc = "idle"
    /\ appended + n <= MaxBytes /\ Len(buffers) < MaxPieces
    /\ buffers' = Append(buffers, [lo |-> appended, hi |-> appended + n])
    /\ size' = size + n
    /\ appended' = appended + n
    /\ UNCHANGED <<firstPos, pc, want, next, pos, view, consumed>>

\* peek(n) that needs no loop: nothing is buffered, or the first buffer has it
\* all.
PeekDirect(n) ==
    /\ pc = "idle"
    /\ \/ buffers = <<>> /\ pos' = 0 /\ view' = NoBytes
       \/ /\ buffers # <<>>
          /\ Length(Head(buffers)) - firstPos >= n
          /\ pos' = n
          /\ view' = [p \in 0 .. n - 1 |-> Head(buffers).lo + firstPos + p]
    /\ want' = n /\ pc' = "peeked"
    /\ UNCHANGED <<buffers, firstPos, size, next, appended, consumed>>

\* peek(n) that must join buffers.
PeekStart(n) ==
    /\ pc = "idle"
    /\ buffers # <<>> /\ Length(Head(buffers)) - firstPos < n
    /\ pc' = "peek" /\ want' = n /\ next' = 1 /\ pos' = 0 /\ view' = NoBytes
    /\ UNCHANGED <<buffers, firstPos, size, appended, consumed>>

\* One buffer of the loop.  As long as nothing was copied the code skips
\* _first_pos bytes, in whichever buffer it is.
PeekCopy ==
    /\ pc = "peek" /\ next <= Len(buffers) /\ pos # want
    /\ LET skip == IF pos = 0 THEN firstPos ELSE 0
           len  == IF Length(buffers[next]) < skip THEN 0 ELSE Length(buffers[next]) - skip
           clip == IF len > want - pos THEN want - pos ELSE len
       IN  view' = Copied(buffers[next].lo + skip, clip) /\ pos' = pos + clip
    /\ next' = next + 1
    /\ UNCHANGED <<buffers, firstPos, size, pc, want, appended, consumed>>

PeekEnd ==
    /\ pc = "peek" /\ (next > Len(buffers) \/ pos = want)
    /\ pc' = "peeked"
    /\ UNCHANGED <<buffers, firstPos, size, want, next, pos, view, appended, consumed>>

\* The caller is done with what peek() returned.
PeekReturn ==
    /\ pc = "peeked"
    /\ pc' = "idle" /\ want' = 0 /\ next' = 1 /\ pos' = 0 /\ view' = NoBytes
    /\ UNCHANGED <<buffers, firstPos, size, appended, consumed>>

\* advance(n), by no more than there is.
AdvanceStart(n) ==
    /\ pc = "idle" /\ n <= size
    /\ size' = size - n
    /\ pc' = "advance" /\ want' = n
    /\ UNCHANGED <<buffers, firstPos, next, pos, view, appended, consumed>>

\* The rest of the first buffer is used up.
AdvancePop ==
    /\ pc = "advance" /\ want > 0 /\ buffers # <<>>
    /\ Length(Head(buffers)) - firstPos <= want
    /\ want' = want - (Length(Head(buffers)) - firstPos)
    /\ consumed' = consumed + (Length(Head(buffers)) - firstPos)
    /\ firstPos' = 0
    /\ buffers' = Tail(buffers)
    /\ UNCHANGED <<size, pc, next, pos, view, appended>>

\* The position ends within the first buffer.
AdvanceMove ==
    /\ pc = "advance" /\ want > 0 /\ buffers # <<>>
    /\ Length(Head(buffers)) - firstPos > want
    /\ firstPos' = firstPos + want
    /\ consumed' = consumed + want
    /\ want' = 0
    /\ UNCHANGED <<buffers, size, pc, next, pos, view, appended>>

AdvanceEnd ==
    /\ pc = "advance" /\ (want = 0 \/ buffers = <<>>)
    /\ pc' = "idle" /\ want' = 0
    /\ UNCHANGED <<buffers, firstPos, size, next, pos, view, appended, consumed>>

Next ==
    \/ \E n \in 0 .. MaxBytes : AppendPiece(n) \/ PeekDirect(n) \/ PeekStart(n) \/ AdvanceStart(n)
    \/ PeekCopy \/ PeekEnd \/ PeekReturn
    \/ AdvancePop \/ AdvanceMove \/ AdvanceEnd

Spec == Init /\ [][Next]_vars

-----------------------------------------------------------------------------
TypeOK ==
    /\ buffers \in Seq(Piece)
    /\ firstPos \in Nat /\ size \in Nat /\ want \in Nat /\ next \in Nat \ {0}
    /\ pc \in {"idle", "peek", "peeked", "advance"}
    /\ appended \in Nat /\ consumed \in Nat
    /\ pos \in Nat /\ view \in [0 .. pos - 1 -> Nat]

\* peek(n) shows the next bytes of the stream, none missing, none twice, and
\* as many of them as it can: whatever the sizes of the pieces, empty ones
\* included, and wherever in a piece the position is.
PeekIsPrefix ==
    /\ pc \in {"peek", "peeked"} => \A p \in 0 .. pos - 1 : view[p] = consumed + p
    /\ pc = "peeked" =>
          pos = (IF want < appended - consumed THEN want ELSE appended - consumed)

\* len() is the number of bytes appended and not advanced over, and the deque
\* holds the bytes after the position and no others.
SizeExact ==
    pc # "advance" =>
        /\ size = appended - consumed
        /\ buffers # <<>> => /\ Head(buffers).lo + firstPos = consumed
                             /\ buffers[Len(buffers)].hi = appended

=============================================================================
