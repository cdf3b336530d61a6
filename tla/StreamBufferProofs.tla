------------------------ MODULE StreamBufferProofs -------------------------
(***************************************************************************)
(* Proofs about StreamBuffer, for every number and size of pieces.         *)
(***************************************************************************)
EXTENDS StreamBuffer, TLAPS

\* The pieces are intervals that follow each other and end where the stream
\* ends.
Contiguous ==
    /\ \A i \in 1 .. Len(buffers) : buffers[i].lo <= buffers[i].hi /\ buffers[i].hi <= appended
    /\ \A i \in 1 .. Len(buffers) - 1 : buffers[i].hi = buffers[i+1].lo
    /\ buffers # <<>> => buffers[Len(buffers)].hi = appended

\* The position is inside the first piece, or at its start.
Position ==
    /\ buffers = <<>> => firstPos = 0 /\ consumed = appended
    /\ buffers # <<>> => /\ buffers[1].lo + firstPos = consumed
                         /\ firstPos = 0 \/ firstPos < buffers[1].hi - buffers[1].lo

\* What advance() has taken off the size it has still to skip.
Skipped == size = appended - consumed - (IF pc = "advance" THEN want ELSE 0)

\* Where the piece that peek() comes to starts.
Start(k) == IF k <= Len(buffers) THEN buffers[k].lo ELSE appended

\* peek()'s loop has copied the bytes up to the start of the next piece, or all
\* that is wanted.  Only the first piece is entered with a nonzero position
\* and nothing copied.
Copying ==
    pc = "peek" =>
        /\ pos <= want /\ consumed + pos <= appended
        /\ want > 0 /\ buffers # <<>>
        /\ next = 1 => pos = 0
        /\ next > 1 => /\ pos = 0 => firstPos = 0
                       /\ pos < want => Start(next) = consumed + pos

IInv == TypeOK /\ Contiguous /\ Position /\ Skipped /\ Copying /\ PeekIsPrefix

\* What TypeOK says of the pieces, element by element.
LEMMA Pieces ==
    ASSUME IInv
    PROVE  /\ Len(buffers) \in Nat
           /\ buffers # <<>> => Len(buffers) >= 1
           /\ \A i \in 1 .. Len(buffers) : /\ buffers[i] \in Piece
                                          /\ buffers[i].lo \in Nat
                                          /\ buffers[i].hi \in Nat
                                          /\ buffers[i].lo <= buffers[i].hi
                                          /\ buffers[i].hi <= appended
<1>1. buffers \in Seq(Piece)
  BY DEF IInv, TypeOK
<1>2. Len(buffers) \in Nat /\ (buffers # <<>> => Len(buffers) >= 1)
  BY <1>1
<1>3. ASSUME NEW b \in Piece PROVE b.lo \in Nat /\ b.hi \in Nat
  BY DEF Piece
<1>4. \A i \in 1 .. Len(buffers) : buffers[i] \in Piece
  BY <1>1
<1> QED
  BY <1>2, <1>3, <1>4 DEF IInv, Contiguous

\* The numbers among the variables.
Numbers ==
    /\ firstPos \in Nat /\ size \in Nat /\ want \in Nat /\ next \in Nat \ {0}
    /\ appended \in Nat /\ consumed \in Nat /\ pos \in Nat

LEMMA NumbersTyped == IInv => Numbers
  BY DEF IInv, TypeOK, Numbers

LEMMA InitIInv == Init => IInv
<1> SUFFICES ASSUME Init PROVE IInv
  OBVIOUS
<1>1. TypeOK
  BY DEF Init, TypeOK, NoBytes
<1> QED
  BY <1>1 DEF Init, IInv, Contiguous, Position, Skipped, Copying, PeekIsPrefix

LEMMA AppendKeepsIInv == ASSUME IInv, NEW n \in 0 .. MaxBytes, AppendPiece(n) PROVE IInv'
<1>n. Numbers
  BY NumbersTyped
<1> DEFINE b == [lo |-> appended, hi |-> appended + n]
<1> USE StreamBufferAssumption
<1>1. /\ b \in Piece /\ buffers' = Append(buffers, b)
      /\ appended' = appended + n /\ size' = size + n /\ pc = "idle"
      /\ firstPos' = firstPos /\ pc' = pc /\ want' = want /\ next' = next
      /\ pos' = pos /\ view' = view /\ consumed' = consumed
      /\ n \in Nat
  BY DEF IInv, TypeOK, AppendPiece, Piece
<1>2. /\ Len(buffers') = Len(buffers) + 1
      /\ \A i \in 1 .. Len(buffers) : buffers'[i] = buffers[i]
      /\ buffers'[Len(buffers) + 1] = b
      /\ buffers' \in Seq(Piece) /\ buffers' # <<>>
  BY <1>1 DEF IInv, TypeOK
<1>3. TypeOK'
  BY <1>1, <1>2 DEF IInv, TypeOK
<1>4. Contiguous'
  <2>1. \A i \in 1 .. Len(buffers') :
           buffers'[i].lo <= buffers'[i].hi /\ buffers'[i].hi <= appended'
    <3>1. ASSUME NEW i \in 1 .. Len(buffers')
          PROVE  buffers'[i].lo <= buffers'[i].hi /\ buffers'[i].hi <= appended'
      <4>1. CASE i \in 1 .. Len(buffers)
        BY <4>1, <1>1, <1>2, Pieces, <1>n DEF Numbers
      <4>2. CASE i = Len(buffers) + 1
        BY <4>2, <1>1, <1>2, <1>n DEF Numbers
      <4> QED
        BY <4>1, <4>2, <1>2, Pieces
    <3> QED
      BY <3>1
  <2>2. ASSUME NEW i \in 1 .. Len(buffers') - 1 PROVE buffers'[i].hi = buffers'[i+1].lo
    <3>1. CASE i < Len(buffers)
      BY <3>1, <1>1, <1>2 DEF IInv, TypeOK, Contiguous
    <3>2. CASE i = Len(buffers)
      BY <3>2, <1>1, <1>2 DEF IInv, TypeOK, Contiguous
    <3> QED
      BY <3>1, <3>2, <1>2 DEF IInv, TypeOK
  <2> QED
    BY <2>1, <2>2, <1>1, <1>2 DEF Contiguous
<1>5. Position'
  <2>1. CASE buffers = <<>>
    BY <2>1, <1>1, <1>2 DEF IInv, TypeOK, Position
  <2>2. CASE buffers # <<>>
    BY <2>2, <1>1, <1>2 DEF IInv, TypeOK, Position
  <2> QED
    BY <2>1, <2>2
<1> QED
  BY <1>1, <1>3, <1>4, <1>5 DEF IInv, TypeOK, Skipped, Copying, PeekIsPrefix

LEMMA PeekDirectKeepsIInv == ASSUME IInv, NEW n \in 0 .. MaxBytes, PeekDirect(n) PROVE IInv'
<1>n. Numbers
  BY NumbersTyped
<1> USE StreamBufferAssumption
<1>0. /\ want' = n /\ pc' = "peeked" /\ pc = "idle" /\ n \in Nat
      /\ buffers' = buffers /\ firstPos' = firstPos /\ size' = size /\ next' = next
      /\ appended' = appended /\ consumed' = consumed
  BY DEF PeekDirect
<1>1. Contiguous' /\ Position' /\ Skipped' /\ Copying'
  BY <1>0 DEF IInv, Contiguous, Position, Skipped, Copying
<1>2. CASE buffers = <<>>
  <2>1. pos' = 0 /\ view' = NoBytes
    BY <1>2 DEF PeekDirect
  <2> QED
    BY <2>1, <1>0, <1>1, <1>2 DEF IInv, TypeOK, NoBytes, PeekIsPrefix, Position
<1>3. CASE buffers # <<>>
  <2>1. /\ pos' = n
        /\ view' = [p \in 0 .. n - 1 |-> buffers[1].lo + firstPos + p]
        /\ buffers[1].hi - buffers[1].lo - firstPos >= n
        /\ buffers[1] \in Piece
        /\ buffers[1].hi <= appended
        /\ buffers[1].lo + firstPos = consumed
    BY <1>3 DEF PeekDirect, IInv, TypeOK, Length, Contiguous, Position
  <2>2. TypeOK'
    <3>1. buffers[1].lo \in Nat
      BY <1>3, Pieces
    <3>2. view' \in [0 .. pos' - 1 -> Nat]
      BY <3>1, <2>1, <1>n DEF Numbers
    <3> QED
      BY <3>2, <2>1, <1>0 DEF IInv, TypeOK
  <2>3. PeekIsPrefix'
    <3>1. buffers[1].lo \in Nat /\ buffers[1].hi \in Nat
      BY <1>3, Pieces
    <3>2. ASSUME NEW p \in 0 .. pos' - 1 PROVE view'[p] = consumed' + p
      <4>1. p \in 0 .. n - 1 /\ view'[p] = buffers[1].lo + firstPos + p
        BY <2>1
      <4> QED
        BY <4>1, <2>1, <1>0, <3>1, <1>n DEF Numbers
    <3>3. consumed + n <= appended
      BY <3>1, <2>1, <1>0, <1>n DEF Numbers
    <3>4. pos' = IF want' < appended' - consumed' THEN want' ELSE appended' - consumed'
      BY <3>3, <2>1, <1>0, <1>n DEF Numbers
    <3> QED
      BY <3>2, <3>4 DEF PeekIsPrefix
  <2> QED
    BY <2>2, <2>3, <1>1 DEF IInv
<1> QED
  BY <1>2, <1>3

LEMMA PeekStartKeepsIInv == ASSUME IInv, NEW n \in 0 .. MaxBytes, PeekStart(n) PROVE IInv'
<1>n. Numbers
  BY NumbersTyped
<1> USE StreamBufferAssumption
<1>1. /\ pc = "idle" /\ pc' = "peek" /\ want' = n /\ next' = 1 /\ pos' = 0 /\ view' = NoBytes
      /\ buffers' = buffers /\ firstPos' = firstPos /\ size' = size
      /\ appended' = appended /\ consumed' = consumed
      /\ n \in Nat /\ buffers # <<>>
      /\ buffers[1] \in Piece /\ buffers[1].hi - buffers[1].lo - firstPos < n
  BY DEF PeekStart, IInv, TypeOK, Length
<1>2. TypeOK'
  BY <1>1 DEF IInv, TypeOK, NoBytes
<1>3. Contiguous' /\ Position' /\ Skipped'
  BY <1>1 DEF IInv, Contiguous, Position, Skipped
<1>4. n > 0 /\ consumed <= appended
  BY <1>1 DEF IInv, TypeOK, Contiguous, Position, Piece, Skipped
<1>5. Copying' /\ PeekIsPrefix'
  BY <1>1, <1>4 DEF Copying, PeekIsPrefix, IInv, TypeOK
<1> QED
  BY <1>2, <1>3, <1>5 DEF IInv

LEMMA PeekCopyKeepsIInv == ASSUME IInv, PeekCopy PROVE IInv'
<1>n. Numbers
  BY NumbersTyped
<1> DEFINE skip == IF pos = 0 THEN firstPos ELSE 0
           len  == IF Length(buffers[next]) < skip THEN 0 ELSE Length(buffers[next]) - skip
           clip == IF len > want - pos THEN want - pos ELSE len
           from == buffers[next].lo + skip
<1>1. /\ pc = "peek" /\ next \in 1 .. Len(buffers) /\ pos # want
      /\ view' = Copied(from, clip) /\ pos' = pos + clip /\ next' = next + 1
      /\ buffers' = buffers /\ firstPos' = firstPos /\ size' = size /\ pc' = pc
      /\ want' = want /\ appended' = appended /\ consumed' = consumed
  BY DEF PeekCopy, IInv, TypeOK
<1>2. /\ buffers[next] \in Piece /\ buffers[next].lo \in Nat /\ buffers[next].hi \in Nat
      /\ buffers[next].lo <= buffers[next].hi /\ buffers[next].hi <= appended
  BY <1>1, Pieces
<1>3. /\ from = consumed + pos
      /\ skip <= buffers[next].hi - buffers[next].lo
      /\ skip > 0 => skip < buffers[next].hi - buffers[next].lo
      /\ skip \in Nat
      /\ pos < want
  <2>1. CASE next = 1
    BY <2>1, <1>1, <1>2, <1>n DEF IInv, Numbers, Position, Copying
  <2>2. CASE next > 1
    BY <2>2, <1>1, <1>2, <1>n DEF IInv, Numbers, Copying, Start
  <2> QED
    BY <2>1, <2>2, <1>1, Pieces
<1>4. /\ len = buffers[next].hi - from /\ len \in Nat /\ clip \in Nat
      /\ clip <= len /\ clip <= want - pos /\ from \in Nat
      /\ clip < want - pos => clip = len
      /\ clip = 0 => len = 0
  <2>1. len = buffers[next].hi - from /\ len \in Nat /\ from \in Nat
    BY <1>2, <1>3, <1>n DEF Length, Numbers
  <2> QED
    BY <2>1, <1>3, <1>n DEF Numbers
<1> HIDE DEF skip, len, clip, from
<1>5. TypeOK'
  <2>1. Copied(from, clip) \in [0 .. pos + clip - 1 -> Nat]
    BY <1>4 DEF Copied, IInv, TypeOK
  <2> QED
    <3>1. view' \in [0 .. pos' - 1 -> Nat] /\ pos' \in Nat /\ next' \in Nat \ {0}
      BY <2>1, <1>1, <1>4, <1>n DEF Numbers
    <3> QED
      BY <3>1, <1>1 DEF IInv, TypeOK
<1>6. Contiguous' /\ Position' /\ Skipped'
  BY <1>1 DEF IInv, Contiguous, Position, Skipped
<1>7. PeekIsPrefix'
  <2>1. ASSUME NEW p \in 0 .. pos' - 1 PROVE view'[p] = consumed' + p
    <3>1. p \in 0 .. pos + clip - 1 /\ view'[p] = IF p < pos THEN view[p] ELSE from + p - pos
      <4>1. p \in 0 .. pos + clip - 1
        BY <1>1, <1>4, <1>n DEF Numbers
      <4> QED
        BY <4>1, <1>1 DEF Copied
    <3>2. CASE p < pos
      <4>1. p \in 0 .. pos - 1
        BY <3>1, <3>2, <1>4, <1>n DEF Numbers
      <4> QED
        BY <4>1, <3>1, <3>2, <1>1 DEF IInv, PeekIsPrefix
    <3>3. CASE ~(p < pos)
      BY <3>1, <3>3, <1>1, <1>3, <1>4, <1>n DEF Numbers
    <3> QED
      BY <3>2, <3>3
  <2> QED
    BY <2>1, <1>1 DEF PeekIsPrefix
<1>8. Copying'
  <2>1. pos' <= want' /\ consumed' + pos' <= appended' /\ want' > 0 /\ buffers' # <<>>
    BY <1>1, <1>2, <1>3, <1>4, <1>n DEF IInv, Numbers, Copying
  <2>2. pos' = 0 => firstPos' = 0
    <3>1. SUFFICES ASSUME pos = 0, clip = 0 PROVE firstPos = 0
      BY <1>1, <1>4, <1>n DEF Numbers
    <3>2. skip = firstPos /\ buffers[next].hi = buffers[next].lo + skip
      BY <3>1, <1>2, <1>3, <1>4, <1>n DEF Numbers, skip, from
    <3> QED
      BY <3>2, <1>2, <1>3, <1>n DEF Numbers
  <2>3. ASSUME pos' < want' PROVE Start(next)' = consumed' + pos'
    <3>1. consumed + pos' = buffers[next].hi
      <4>1. clip < want - pos
        BY <2>3, <1>1, <1>4, <1>n DEF Numbers
      <4>2. clip = buffers[next].hi - (consumed + pos)
        BY <4>1, <1>3, <1>4
      <4> QED
        BY <4>2, <1>1, <1>2, <1>n DEF Numbers
    <3>2. CASE next < Len(buffers)
      <4>1. buffers[next].hi = buffers[next + 1].lo
        BY <3>2, <1>1, Pieces DEF IInv, Contiguous
      <4>2. Start(next)' = buffers[next + 1].lo
        BY <3>2, <1>1, Pieces DEF Start
      <4> QED
        BY <4>1, <4>2, <3>1, <1>1
    <3>3. CASE next = Len(buffers)
      <4>1. buffers[next].hi = appended
        BY <3>3, <1>1, Pieces DEF IInv, Contiguous, Copying
      <4>2. Start(next)' = appended
        BY <3>3, <1>1, Pieces DEF Start
      <4> QED
        BY <4>1, <4>2, <3>1, <1>1
    <3> QED
      BY <3>2, <3>3, <1>1, Pieces
  <2>4. next' > 1
    BY <1>1, Pieces
  <2> QED
    BY <2>1, <2>2, <2>3, <2>4 DEF Copying
<1> QED
  BY <1>5, <1>6, <1>7, <1>8 DEF IInv

LEMMA AdvancePopKeepsIInv == ASSUME IInv, AdvancePop PROVE IInv'
<1>n. Numbers
  BY NumbersTyped
<1> DEFINE rest == buffers[1].hi - buffers[1].lo - firstPos
<1>1. /\ pc = "advance" /\ want > 0 /\ buffers # <<>> /\ rest <= want
      /\ want' = want - rest /\ consumed' = consumed + rest
      /\ firstPos' = 0 /\ buffers' = Tail(buffers)
      /\ size' = size /\ pc' = pc /\ next' = next /\ pos' = pos /\ view' = view
      /\ appended' = appended
  BY DEF AdvancePop, Length, IInv, TypeOK
<1>2. /\ buffers[1] \in Piece /\ buffers[1].lo \in Nat /\ buffers[1].hi \in Nat
      /\ buffers[1].hi <= appended /\ consumed + rest = buffers[1].hi
      /\ rest \in Nat
  <2>1. 1 \in 1 .. Len(buffers)
    BY <1>1, Pieces
  <2>2. buffers[1] \in Piece /\ buffers[1].lo \in Nat /\ buffers[1].hi \in Nat
        /\ buffers[1].hi <= appended /\ buffers[1].lo <= buffers[1].hi
    BY <2>1, Pieces
  <2>3. buffers[1].lo + firstPos = consumed /\ firstPos <= buffers[1].hi - buffers[1].lo
    BY <2>2, <1>1, <1>n DEF IInv, Numbers, Position
  <2> QED
    BY <2>2, <2>3, <1>n DEF Numbers
<1>3. /\ buffers' \in Seq(Piece) /\ Len(buffers') = Len(buffers) - 1
      /\ \A i \in 1 .. Len(buffers') : buffers'[i] = buffers[i+1]
      /\ Len(buffers) \in Nat \ {0}
  BY <1>1 DEF IInv, TypeOK
<1> HIDE DEF rest
<1>4. TypeOK'
  BY <1>1, <1>2, <1>3 DEF IInv, TypeOK
<1>5. Contiguous'
  <2>1. \A i \in 1 .. Len(buffers') :
           buffers'[i].lo <= buffers'[i].hi /\ buffers'[i].hi <= appended'
    <3>1. \A i \in 1 .. Len(buffers') : i + 1 \in 1 .. Len(buffers)
      BY <1>3
    <3> QED
      BY <3>1, <1>1, <1>3, Pieces
  <2>2. \A i \in 1 .. Len(buffers') - 1 : buffers'[i].hi = buffers'[i+1].lo
    BY <1>1, <1>3 DEF IInv, Contiguous
  <2>3. buffers' # <<>> => buffers'[Len(buffers')].hi = appended'
    BY <1>1, <1>3 DEF IInv, Contiguous
  <2> QED
    BY <2>1, <2>2, <2>3 DEF Contiguous
<1>6. Position'
  <2>1. CASE Len(buffers) = 1
    BY <2>1, <1>1, <1>2, <1>3 DEF IInv, Contiguous, Position
  <2>2. CASE Len(buffers) > 1
    <3>1. buffers[1].hi = buffers[2].lo /\ buffers'[1] = buffers[2] /\ buffers' # <<>>
      <4>1. 1 \in 1 .. Len(buffers) - 1 /\ 1 \in 1 .. Len(buffers')
        BY <2>2, <1>3
      <4> QED
        BY <4>1, <1>3 DEF IInv, Contiguous
    <3> QED
      BY <3>1, <1>1, <1>2 DEF Position
  <2> QED
    BY <2>1, <2>2, <1>3
<1> QED
  BY <1>1, <1>2, <1>4, <1>5, <1>6 DEF IInv, TypeOK, Skipped, Copying, PeekIsPrefix

LEMMA NextKeepsIInv == IInv /\ [Next]_vars => IInv'
<1> SUFFICES ASSUME IInv, [Next]_vars PROVE IInv'
  OBVIOUS
<1>n. Numbers
  BY NumbersTyped
<1> USE StreamBufferAssumption
<1>1. ASSUME NEW n \in 0 .. MaxBytes, AdvanceStart(n) PROVE IInv'
  <2>1. /\ pc = "idle" /\ n <= size /\ size' = size - n /\ pc' = "advance" /\ want' = n
        /\ buffers' = buffers /\ firstPos' = firstPos /\ next' = next /\ pos' = pos
        /\ view' = view /\ appended' = appended /\ consumed' = consumed
    BY <1>1 DEF AdvanceStart
  <2>2. size' \in Nat /\ want' \in Nat /\ size' = appended - consumed - n
    BY <2>1, <1>n DEF Numbers, IInv, Skipped
  <2>3. TypeOK'
    BY <2>1, <2>2 DEF IInv, TypeOK
  <2>4. Skipped' /\ Copying' /\ PeekIsPrefix'
    BY <2>1, <2>2 DEF Skipped, Copying, PeekIsPrefix
  <2>5. Contiguous' /\ Position'
    BY <2>1 DEF IInv, Contiguous, Position
  <2> QED
    BY <2>3, <2>4, <2>5 DEF IInv
<1>2. CASE PeekEnd
  <2>1. /\ pc = "peek" /\ pc' = "peeked" /\ (next > Len(buffers) \/ pos = want)
        /\ buffers' = buffers /\ firstPos' = firstPos /\ size' = size /\ want' = want
        /\ next' = next /\ pos' = pos /\ view' = view /\ appended' = appended
        /\ consumed' = consumed
    BY <1>2 DEF PeekEnd
  <2>2. pos = IF want < appended - consumed THEN want ELSE appended - consumed
    <3>1. CASE pos = want
      BY <3>1, <2>1 DEF IInv, TypeOK, Copying
    <3>2. CASE pos # want /\ next > Len(buffers)
      <4>1. next > 1
        BY <3>2, <2>1 DEF IInv, TypeOK, Copying
      <4> QED
        BY <3>2, <4>1, <2>1 DEF IInv, TypeOK, Copying, Start
    <3> QED
      BY <3>1, <3>2, <2>1
  <2> QED
    BY <2>1, <2>2 DEF IInv, TypeOK, Contiguous, Position, Skipped, Copying, PeekIsPrefix
<1>3. CASE PeekReturn
  <2>1. /\ pc = "peeked" /\ pc' = "idle" /\ want' = 0 /\ next' = 1 /\ pos' = 0
        /\ view' = NoBytes /\ buffers' = buffers /\ firstPos' = firstPos /\ size' = size
        /\ appended' = appended /\ consumed' = consumed
    BY <1>3 DEF PeekReturn
  <2>2. TypeOK'
    BY <2>1 DEF IInv, TypeOK, NoBytes
  <2>3. Contiguous' /\ Position' /\ Skipped' /\ Copying' /\ PeekIsPrefix'
    BY <2>1 DEF IInv, Contiguous, Position, Skipped, Copying, PeekIsPrefix
  <2> QED
    BY <2>2, <2>3 DEF IInv
<1>4. CASE AdvanceMove
  <2>1. /\ pc = "advance" /\ want > 0 /\ buffers # <<>> /\ pc' = pc
        /\ buffers[1].hi - buffers[1].lo - firstPos > want
        /\ firstPos' = firstPos + want /\ consumed' = consumed + want /\ want' = 0
        /\ buffers' = buffers /\ size' = size /\ next' = next /\ pos' = pos
        /\ view' = view /\ appended' = appended
        /\ buffers[1] \in Piece
    BY <1>4 DEF AdvanceMove, Length, IInv, TypeOK
  <2>2. Position' /\ Skipped'
    <3>1. buffers[1].lo \in Nat /\ buffers[1].hi \in Nat
      BY <2>1, Pieces
    <3>2. buffers[1].lo + firstPos = consumed /\ size = appended - consumed - want
      BY <2>1 DEF IInv, Position, Skipped
    <3>3. /\ buffers[1].lo + (firstPos + want) = consumed + want
          /\ firstPos + want < buffers[1].hi - buffers[1].lo
          /\ size = appended - (consumed + want) - 0
      BY <3>1, <3>2, <2>1, <1>n DEF Numbers
    <3> QED
      BY <3>3, <2>1 DEF Position, Skipped
  <2>3. TypeOK' /\ Contiguous' /\ Copying' /\ PeekIsPrefix'
    BY <2>1 DEF IInv, TypeOK, Contiguous, Copying, PeekIsPrefix
  <2> QED
    BY <2>2, <2>3 DEF IInv
<1>5. CASE AdvanceEnd
  <2>1. want = 0
    BY <1>5 DEF AdvanceEnd, IInv, TypeOK, Position, Skipped
  <2> QED
    BY <2>1, <1>5 DEF AdvanceEnd, IInv, TypeOK, Contiguous, Position, Skipped, Copying, PeekIsPrefix
<1>6. CASE UNCHANGED vars
  BY <1>6 DEF vars, IInv, TypeOK, Contiguous, Position, Skipped, Copying, Start, PeekIsPrefix
<1> QED
  BY <1>1, <1>2, <1>3, <1>4, <1>5, <1>6, AppendKeepsIInv, PeekDirectKeepsIInv,
     PeekStartKeepsIInv, PeekCopyKeepsIInv, AdvancePopKeepsIInv DEF Next

LEMMA Invariance == Spec => []IInv
  BY InitIInv, NextKeepsIInv, PTL DEF Spec

\* Every variable keeps its type; in particular the size is never negative
\* while nobody advances over more than there is.
THEOREM TypeCorrect == Spec => []TypeOK
<1>1. IInv => TypeOK
  BY DEF IInv
<1> QED
  BY <1>1, Invariance, PTL

\* peek() always returns the next bytes of the stream, and as many of them as
\* were asked for and are there, however the data was cut into pieces.
THEOREM PeekCorrect == Spec => []PeekIsPrefix
<1>1. IInv => PeekIsPrefix
  BY DEF IInv
<1> QED
  BY <1>1, Invariance, PTL

\* len() and the deque always describe exactly the bytes between the position
\* and the end of the stream.
THEOREM SizeIsExact == Spec => []SizeExact
<1>1. IInv => SizeExact
  BY DEF IInv, TypeOK, Contiguous, Position, Skipped, SizeExact
<1> QED
  BY <1>1, Invariance, PTL
=============================================================================
