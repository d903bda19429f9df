------------------------ MODULE FrameDecoder_proofs ------------------------
(***************************************************************************)
(* Proofs about FrameDecoder for every set of chunks, every FCS function,  *)
(* every table of words and every Morse link: argos and amsat neither lose *)
(* nor misplace a bit that they may have to search again, what amsat       *)
(* publishes is the corrected block behind a control symbol, the frames of *)
(* cw do not pile up, and the decoders implement the contract of the       *)
(* decoders.                                                               *)
(***************************************************************************)
EXTENDS FrameDecoder, SequenceTheorems, FiniteSetTheorems, DecoderLemmas, TLAPS

-----------------------------------------------------------------------------
(* The sample ranges of those frames that have one *)

\* As many elements of S as are not above n.
UpTo(S, n) == {m \in S : m <= n}

\* One number more is one element more, or none.
LEMMA UpToNext ==
  ASSUME NEW S, S \subseteq Nat, IsFiniteSet(S), NEW n \in Nat
  PROVE  /\ Cardinality(UpTo(S, n)) \in Nat
         /\ Cardinality(UpTo(S, n + 1)) =
              Cardinality(UpTo(S, n)) + (IF n + 1 \in S THEN 1 ELSE 0)
<1>1. IsFiniteSet(UpTo(S, n))
  BY FS_Subset DEF UpTo
<1>2. Cardinality(UpTo(S, n)) \in Nat
  BY <1>1, FS_CardinalityType
<1>3. \A m \in Nat : m <= n + 1 <=> m <= n \/ m = n + 1
  OBVIOUS
<1>4. \A m \in S : m \in Nat
  OBVIOUS
<1>5. CASE n + 1 \in S
  <2>1. UpTo(S, n + 1) = UpTo(S, n) \cup {n + 1}
    BY <1>3, <1>4, <1>5 DEF UpTo
  <2>2. n + 1 \notin UpTo(S, n)
    BY DEF UpTo
  <2>. QED
    BY <1>1, <1>2, <1>5, <2>1, <2>2, FS_AddElement
<1>6. CASE n + 1 \notin S
  <2>1. UpTo(S, n + 1) = UpTo(S, n)
    BY <1>3, <1>4, <1>6 DEF UpTo
  <2>. QED
    BY <1>2, <1>6, <2>1
<1>. QED
  BY <1>2, <1>5, <1>6

\* There is a j-th element, for every j up to the number of elements.
LEMMA NthProperties ==
  ASSUME NEW top \in Nat, NEW S, S \subseteq 1 .. top,
         NEW j \in 1 .. Cardinality(S)
  PROVE  Nth(S, j) \in S /\ Cardinality(UpTo(S, Nth(S, j))) = j
<1>1. IsFiniteSet(S) /\ S \subseteq Nat
  <2>1. IsFiniteSet(1 .. top)
    BY FS_Interval
  <2>2. IsFiniteSet(S)
    BY <2>1, FS_Subset
  <2>3. \A m \in 1 .. top : m \in Nat
    OBVIOUS
  <2>. QED
    BY <2>2, <2>3
<1>2. Cardinality(S) \in Nat
  BY <1>1, FS_CardinalityType
<1>. DEFINE T == {n \in Nat : Cardinality(UpTo(S, n)) >= j}
<1>3. top \in T
  <2>1. UpTo(S, top) = S
    <3>1. \A m \in S : m <= top
      OBVIOUS
    <3>. QED
      BY <3>1 DEF UpTo
  <2>. QED
    BY <1>2, <2>1
<1>4. PICK least \in T : \A n \in T : least <= n
  <2>1. T \subseteq Nat /\ T # {}
    BY <1>3
  <2>. HIDE DEF T
  <2>. QED
    BY <2>1, LeastNat
<1>5. least \in Nat /\ Cardinality(UpTo(S, least)) >= j
  BY <1>4
<1>6. least # 0
  <2>1. UpTo(S, 0) = {}
    <3>1. \A m \in S : ~ (m <= 0)
      OBVIOUS
    <3>. QED
      BY <3>1 DEF UpTo
  <2>2. Cardinality(UpTo(S, 0)) = 0
    BY <2>1, FS_EmptySet
  <2>. QED
    BY <1>2, <1>5, <2>2
<1>7. PICK n \in Nat : least = n + 1
  <2>1. least - 1 \in Nat /\ least = (least - 1) + 1
    BY <1>5, <1>6
  <2>. QED
    BY <2>1
<1>8. ~ (Cardinality(UpTo(S, n)) >= j)
  <2>1. n \notin T
    BY <1>4, <1>7
  <2>. QED
    BY <2>1
<1>9. /\ Cardinality(UpTo(S, n)) \in Nat
      /\ Cardinality(UpTo(S, n + 1)) =
           Cardinality(UpTo(S, n)) + (IF n + 1 \in S THEN 1 ELSE 0)
  BY <1>1, UpToNext
<1>10. Cardinality(UpTo(S, least)) >= j /\ j \in Nat
  BY <1>2, <1>5
<1>11. least \in S /\ Cardinality(UpTo(S, least)) = j
  BY <1>7, <1>8, <1>9, <1>10
<1>12. \E m \in S : Cardinality(UpTo(S, m)) = j
  BY <1>11
<1>. QED
  BY <1>12 DEF Nth, UpTo

\* And only one.
LEMMA NthUnique ==
  ASSUME NEW S, S \subseteq Nat, IsFiniteSet(S), NEW m \in S, NEW n \in S,
         Cardinality(UpTo(S, m)) = Cardinality(UpTo(S, n))
  PROVE  m = n
<1>1. ASSUME NEW a \in S, NEW b \in S, a < b,
             Cardinality(UpTo(S, a)) = Cardinality(UpTo(S, b))
      PROVE  FALSE
  <2>1. IsFiniteSet(UpTo(S, b))
    BY FS_Subset DEF UpTo
  <2>2. UpTo(S, a) \subseteq UpTo(S, b)
    <3>1. \A k \in Nat : k <= a => k <= b
      BY <1>1
    <3>. QED
      BY <3>1 DEF UpTo
  <2>3. b \in UpTo(S, b) /\ b \notin UpTo(S, a)
    BY <1>1 DEF UpTo
  <2>4. UpTo(S, a) = UpTo(S, b)
    BY <1>1, <2>1, <2>2, FS_Subset
  <2>. QED
    BY <2>3, <2>4
<1>2. m < n \/ n < m \/ m = n
  OBVIOUS
<1>. QED
  BY <1>1, <1>2

RangedIn(s) == {n \in 1 .. Len(s) : s[n].crcValid}

SpansOf(s) ==
  [j \in 1 .. Cardinality(RangedIn(s)) |-> RangeOf(s[Nth(RangedIn(s), j)])]

\* There is one range for each of these frames.
LEMMA SpansProperties ==
  ASSUME NEW s, IsSequence(s)
  PROVE  /\ Len(s) \in Nat
         /\ RangedIn(s) \subseteq 1 .. Len(s)
         /\ IsFiniteSet(RangedIn(s))
         /\ Cardinality(RangedIn(s)) \in Nat
         /\ IsSequence(SpansOf(s))
         /\ Len(SpansOf(s)) = Cardinality(RangedIn(s))
         /\ \A j \in 1 .. Cardinality(RangedIn(s)) :
              SpansOf(s)[j] = RangeOf(s[Nth(RangedIn(s), j)])
<1>1. Len(s) \in Nat
  BY LenProperties DEF IsSequence
<1>2. RangedIn(s) \subseteq 1 .. Len(s)
  BY DEF RangedIn
<1>3. IsFiniteSet(RangedIn(s))
  <2>1. IsFiniteSet(1 .. Len(s))
    BY <1>1, FS_Interval
  <2>. QED
    BY <1>2, <2>1, FS_Subset
<1>4. Cardinality(RangedIn(s)) \in Nat
  BY <1>3, FS_CardinalityType
<1>. DEFINE n == Cardinality(RangedIn(s))
            S == {RangeOf(s[Nth(RangedIn(s), j)]) : j \in 1 .. n}
            g == SpansOf(s)
<1>5. /\ g \in [1 .. n -> S]
      /\ \A j \in 1 .. n : g[j] = RangeOf(s[Nth(RangedIn(s), j)])
  BY DEF SpansOf
<1>. HIDE DEF S, g
<1>6. n \in Nat
  BY <1>4
<1>. HIDE DEF n
<1>7. g \in Seq(S) /\ Len(g) = n
  BY <1>5, <1>6, FunctionSequence
<1>8. IsSequence(g)
  BY <1>7, SequenceOver
<1>. QED
  BY <1>1, <1>2, <1>3, <1>4, <1>5, <1>7, <1>8 DEF g, n

\* A frame without a range adds none.
LEMMA SpansKept ==
  ASSUME NEW s, IsSequence(s), NEW f, ~ f.crcValid
  PROVE  SpansOf(Append(s, f)) = SpansOf(s)
<1>. DEFINE t == Append(s, f)
            n == Len(s)
            R == RangedIn(s)
<1>1. /\ n \in Nat /\ Len(t) = n + 1
      /\ \A k \in 1 .. n : t[k] = s[k]
      /\ t[n + 1] = f
  BY SequenceAppend
<1>. HIDE DEF t
<1>2. R = {k \in 1 .. n : s[k].crcValid} /\ R \subseteq 1 .. n
  BY DEF RangedIn
<1>. HIDE DEF n, R
<1>3. RangedIn(t) = R
  <2>1. RangedIn(t) = {k \in 1 .. n + 1 : t[k].crcValid}
    BY <1>1 DEF RangedIn
  <2>2. \A k : k \in 1 .. n + 1 <=> k \in 1 .. n \/ k = n + 1
    BY <1>1
  <2>. QED
    BY <1>1, <1>2, <2>1, <2>2
<1>4. ASSUME NEW j \in 1 .. Cardinality(R)
      PROVE  t[Nth(R, j)] = s[Nth(R, j)]
  <2>1. Nth(R, j) \in 1 .. n
    BY <1>1, <1>2, NthProperties
  <2>. QED
    BY <1>1, <2>1
<1>5. SpansOf(t) = [j \in 1 .. Cardinality(R) |-> RangeOf(s[Nth(R, j)])]
  BY <1>3, <1>4 DEF SpansOf
<1>6. SpansOf(s) = [j \in 1 .. Cardinality(R) |-> RangeOf(s[Nth(R, j)])]
  BY DEF SpansOf, R
<1>. QED
  BY <1>5, <1>6 DEF t

\* A frame with a range adds it behind those there are.
LEMMA SpansAppend ==
  ASSUME NEW s, IsSequence(s), NEW f, f.crcValid
  PROVE  SpansOf(Append(s, f)) = Append(SpansOf(s), RangeOf(f))
<1>. DEFINE t == Append(s, f)
            n == Len(s)
            R == RangedIn(s)
            c == Cardinality(R)
            g == SpansOf(t)
            h == Append(SpansOf(s), RangeOf(f))
<1>1. /\ n \in Nat /\ Len(t) = n + 1
      /\ \A k \in 1 .. n : t[k] = s[k]
      /\ t[n + 1] = f
      /\ IsSequence(t)
  BY SequenceAppend
<1>2. /\ R = {k \in 1 .. n : s[k].crcValid} /\ R \subseteq 1 .. n
      /\ IsFiniteSet(R) /\ c \in Nat
      /\ IsSequence(SpansOf(s)) /\ Len(SpansOf(s)) = c
      /\ \A j \in 1 .. c : SpansOf(s)[j] = RangeOf(s[Nth(R, j)])
  BY SpansProperties DEF RangedIn
<1>3. /\ IsSequence(h) /\ Len(h) = c + 1
      /\ \A j \in 1 .. c : h[j] = SpansOf(s)[j]
      /\ h[c + 1] = RangeOf(f)
  <2>. HIDE DEF c
  <2>. QED
    BY <1>2, SequenceAppend
<1>. HIDE DEF t, n, R, h
<1>4. RangedIn(t) = R \cup {n + 1}
  <2>1. RangedIn(t) = {k \in 1 .. n + 1 : t[k].crcValid}
    BY <1>1 DEF RangedIn
  <2>2. \A k : k \in 1 .. n + 1 <=> k \in 1 .. n \/ k = n + 1
    BY <1>1
  <2>. QED
    BY <1>1, <1>2, <2>1, <2>2
<1>. DEFINE W == R \cup {n + 1}
<1>5. n + 1 \notin R
  BY <1>1, <1>2
<1>6. IsFiniteSet(W) /\ Cardinality(W) = c + 1
  BY <1>2, <1>5, FS_AddElement
<1>7. IsSequence(g) /\ Len(g) = c + 1
      /\ \A j \in 1 .. c + 1 : g[j] = RangeOf(t[Nth(W, j)])
  BY <1>1, <1>4, <1>6, SpansProperties
<1>8. W \subseteq 1 .. n + 1 /\ W \subseteq Nat
  BY <1>1, <1>2
<1>9. /\ UpTo(W, n + 1) = W
      /\ \A m \in R : UpTo(W, m) = UpTo(R, m)
  BY <1>1, <1>2, <1>8 DEF UpTo
<1>10. \A j \in 1 .. c + 1 : Nth(W, j) \in W /\ Cardinality(UpTo(W, Nth(W, j))) = j
  BY <1>1, <1>6, <1>8, NthProperties
<1>11. \A a, b \in W :
         Cardinality(UpTo(W, a)) = Cardinality(UpTo(W, b)) => a = b
  BY <1>6, <1>8, NthUnique
<1>12. \A j \in 1 .. c : Nth(R, j) \in R /\ Cardinality(UpTo(R, Nth(R, j))) = j
  BY <1>1, <1>2, NthProperties
<1>. HIDE DEF c, W, g
<1>13. Nth(W, c + 1) = n + 1
  <2>1. c + 1 \in 1 .. c + 1 /\ n + 1 \in W
    BY <1>2 DEF W
  <2>. QED
    BY <1>6, <1>9, <1>10, <1>11, <2>1
<1>14. ASSUME NEW j \in 1 .. c
       PROVE  Nth(W, j) = Nth(R, j)
  <2>1. j \in 1 .. c + 1
    BY <1>2
  <2>2. Nth(R, j) \in R /\ Nth(R, j) \in W
    BY <1>12 DEF W
  <2>. QED
    BY <1>9, <1>10, <1>11, <1>12, <2>1, <2>2
<1>15. ASSUME NEW j \in 1 .. c + 1
       PROVE  g[j] = h[j]
  <2>1. CASE j \in 1 .. c
    <3>1. Nth(R, j) \in 1 .. n
      BY <1>2, <1>12, <2>1
    <3>. QED
      BY <1>1, <1>2, <1>3, <1>7, <1>14, <2>1, <3>1
  <2>2. CASE j = c + 1
    BY <1>1, <1>3, <1>7, <1>13, <2>2
  <2>. QED
    BY <1>2, <2>1, <2>2
<1>16. g = h
  BY <1>3, <1>7, <1>15, SeqEqual DEF IsSequence
<1>. QED
  BY <1>16 DEF g, h, t

-----------------------------------------------------------------------------
(***************************************************************************)
(* argos: the inductive invariant.  While flags or a frame are open the    *)
(* read cursor is where they begin; every range published ends behind it.  *)
(***************************************************************************)

ArgosTypeOK ==
  /\ decB \in Byte
  /\ frame \in Seq(Byte)
  /\ bitstream \in Seq(Bit)
  /\ rx \in Seq(Bit)
  /\ startIdx \in Nat
  /\ frameStart \in Nat
  /\ nitemsRead \in Nat
  /\ i \in Nat

\* d_bitstream and the line.
LineAccounted ==
  /\ nitemsRead <= Len(rx)
  /\ bitstream = Rest(rx, nitemsRead)

\* What decode() returns is one frame without a range at most, until a frame
\* with one takes its place.
StatusHasNoRange ==
  status = <<>> \/ \E f : status = <<f>> /\ ~ f.crcValid

\* The ranges published so far end where reading has come to.
SpansBehind(s, read) ==
  /\ IsSequence(s)
  /\ \A j \in 1 .. Len(SpansOf(s)) :
       /\ SpansOf(s)[j].start \in Nat /\ SpansOf(s)[j].cnt \in Nat
       /\ SpansOf(s)[j].start + SpansOf(s)[j].cnt <= read

ArgosInv ==
  /\ ArgosTypeOK
  /\ Argos!BufferAccounted
  /\ StatusHasNoRange
  /\ SpansBehind(out, nitemsRead)

\* The parts of BufferAccounted.
LEMMA AccountedParts ==
  Argos!BufferAccounted <=>
    /\ LineAccounted
    /\ i <= Len(bitstream)
    /\ state # "NO_SYNC" => frameStart = nitemsRead /\ startIdx <= Len(bitstream)
    /\ state # "DECODING" => frame = <<>>
    /\ Len(frame) < ArgosMaxFrameLen
BY DEF Argos!BufferAccounted, LineAccounted, Rest

\* The buffer is as long as what is handed over and not read.
LEMMA BufferLength ==
  ASSUME ArgosInv
  PROVE  /\ Len(rx) \in Nat /\ Len(bitstream) \in Nat
         /\ nitemsRead \in 0 .. Len(rx)
         /\ Len(bitstream) = Len(rx) - nitemsRead
<1>1. rx \in Seq(Bit) /\ nitemsRead \in Nat /\ LineAccounted
  BY AccountedParts DEF ArgosInv, ArgosTypeOK
<1>2. Len(rx) \in Nat /\ nitemsRead \in 0 .. Len(rx)
  BY <1>1, LenProperties DEF LineAccounted
<1>3. Len(bitstream) = Len(rx) - nitemsRead
  BY <1>1, <1>2, RestProperties DEF LineAccounted
<1>. QED
  BY <1>2, <1>3

\* Ranges that end somewhere end before anything behind it.
LEMMA SpansStayBehind ==
  ASSUME NEW s, NEW r \in Nat, NEW t \in Nat, r <= t, SpansBehind(s, r)
  PROVE  SpansBehind(s, t)
<1>1. \A a, b \in Nat : a + b <= r => a + b <= t
  OBVIOUS
<1>. QED
  BY <1>1 DEF SpansBehind

\* Publishing what the status holds adds no range.
LEMMA StatusPublished ==
  ASSUME StatusHasNoRange, NEW r \in Nat, SpansBehind(out, r)
  PROVE  /\ SpansBehind(out \o status, r)
         /\ SpansOf(out \o status) = SpansOf(out)
<1>1. IsSequence(out)
  BY DEF SpansBehind
<1>2. CASE status = <<>>
  <2>1. out \o <<>> = out
    BY <1>1, ConcatEmptySeq DEF IsSequence
  <2>. QED
    BY <1>2, <2>1
<1>3. CASE \E f : status = <<f>> /\ ~ f.crcValid
  <2>1. PICK f : status = <<f>> /\ ~ f.crcValid
    BY <1>3
  <2>2. out \o <<f>> = Append(out, f)
    BY <1>1, ConcatOne
  <2>3. IsSequence(Append(out, f)) /\ SpansOf(Append(out, f)) = SpansOf(out)
    BY <1>1, <2>1, SequenceAppend, SpansKept
  <2>. QED
    BY <2>1, <2>2, <2>3 DEF SpansBehind
<1>. QED
  BY <1>2, <1>3 DEF StatusHasNoRange

\* The decoder starts in the invariant.
LEMMA ArgosInitInv == Argos!Init => ArgosInv
<1>. SUFFICES ASSUME Argos!Init PROVE ArgosInv
  OBVIOUS
<1>1. <<>> \in Seq(Bit) /\ <<>> \in Seq(Byte) /\ Len(<<>>) = 0
  BY EmptySeq
<1>2. ArgosTypeOK
  BY <1>1 DEF Argos!Init, ArgosTypeOK, Byte
<1>3. IsSequence(<<>>)
  BY <1>1, SequenceOver
<1>4. SpansBehind(<<>>, 0)
  <2>1. RangedIn(<<>>) = {}
    BY <1>1 DEF RangedIn
  <2>2. Len(SpansOf(<<>>)) = 0
    BY <1>3, <2>1, SpansProperties, FS_EmptySet
  <2>. QED
    BY <1>3, <2>2 DEF SpansBehind
<1>5. Rest(<<>>, 0) = <<>>
  BY <1>1, RestNone
<1>6. Argos!BufferAccounted
  BY <1>1, <1>5, AccountedParts, StreamAssumption
  DEF Argos!Init, StreamAssumption, LineAccounted
<1>. QED
  BY <1>2, <1>4, <1>6 DEF ArgosInv, StatusHasNoRange, Argos!Init

\* A call of decode() appends the bits that were sent.
LEMMA ArgosDecodeInv ==
  ASSUME ArgosInv, NEW bits \in ArgosChunks, Argos!Decode(bits)
  PROVE  ArgosInv' /\ Len(rx') >= Len(rx)
<1>1. /\ ArgosTypeOK /\ LineAccounted
      /\ i <= Len(bitstream)
      /\ state # "NO_SYNC" => frameStart = nitemsRead /\ startIdx <= Len(bitstream)
      /\ state # "DECODING" => frame = <<>>
      /\ Len(frame) < ArgosMaxFrameLen
  BY AccountedParts DEF ArgosInv
<1>2. bits \in Seq(Bit)
  BY StreamAssumption DEF StreamAssumption, Bit
<1>3. /\ bitstream' = bitstream \o bits
      /\ rx' = rx \o bits
      /\ i' = IF state = "NO_SYNC" THEN 0 ELSE startIdx
      /\ UNCHANGED <<state, decB, frame, startIdx, frameStart, nitemsRead, status,
                     out>>
  BY DEF Argos!Decode, Argos!machine
<1>4. /\ bitstream \in Seq(Bit) /\ rx \in Seq(Bit)
      /\ Len(bitstream) \in Nat /\ Len(rx) \in Nat /\ Len(bits) \in Nat
      /\ nitemsRead \in 0 .. Len(rx) /\ startIdx \in Nat
  BY <1>1, <1>2, LenProperties, BufferLength DEF ArgosTypeOK
<1>5. /\ bitstream' \in Seq(Bit) /\ Len(bitstream') = Len(bitstream) + Len(bits)
      /\ rx' \in Seq(Bit) /\ Len(rx') = Len(rx) + Len(bits)
  BY <1>2, <1>3, <1>4, ConcatProperties
<1>6. i' \in Nat /\ i' <= Len(bitstream')
  BY <1>1, <1>3, <1>4, <1>5
<1>7. ArgosTypeOK'
  BY <1>1, <1>3, <1>5, <1>6 DEF ArgosTypeOK
<1>8. nitemsRead' <= Len(rx') /\ bitstream' = Rest(rx', nitemsRead')
  <2>1. Rest(rx \o bits, nitemsRead) = Rest(rx, nitemsRead) \o bits
    BY <1>2, <1>4, RestConcat
  <2>. QED
    BY <1>1, <1>3, <1>4, <1>5, <2>1 DEF LineAccounted
<1>9. startIdx <= Len(bitstream) => startIdx' <= Len(bitstream')
  BY <1>3, <1>4, <1>5
<1>10. Argos!BufferAccounted'
  BY <1>1, <1>3, <1>6, <1>8, <1>9 DEF Argos!BufferAccounted, Rest
<1>11. SpansBehind(out, nitemsRead)' /\ StatusHasNoRange'
  <2>1. StatusHasNoRange'
    BY <1>3 DEF ArgosInv, StatusHasNoRange
  <2>2. SpansBehind(out', nitemsRead')
    BY <1>3 DEF ArgosInv
  <2>3. SpansBehind(out, nitemsRead)'
    BY <2>2 DEF SpansBehind, SpansOf, RangedIn, IsSequence, Nth, RangeOf
  <2>. QED
    BY <2>1, <2>3
<1>. QED
  BY <1>4, <1>5, <1>7, <1>10, <1>11 DEF ArgosInv

\* A step that erases nothing and publishes no range.
LEMMA ArgosKept ==
  ASSUME ArgosInv,
         UNCHANGED <<bitstream, nitemsRead, frameStart, rx>>,
         out' = out \/ out' = out \o status,
         decB' \in Byte, frame' \in Seq(Byte), startIdx' \in Nat,
         i' \in Nat, i' <= Len(bitstream),
         state' # "NO_SYNC" => state # "NO_SYNC" /\ startIdx' <= Len(bitstream),
         state' # "DECODING" => frame' = <<>>,
         Len(frame') < ArgosMaxFrameLen,
         StatusHasNoRange'
  PROVE  ArgosInv' /\ SpansOf(out') = SpansOf(out)
<1>1. ArgosTypeOK'
  BY DEF ArgosInv, ArgosTypeOK
<1>2. /\ LineAccounted
      /\ (state # "NO_SYNC" => frameStart = nitemsRead)
  BY AccountedParts DEF ArgosInv
<1>3. Argos!BufferAccounted'
  BY <1>2 DEF LineAccounted, Rest, Argos!BufferAccounted
<1>4. SpansBehind(out', nitemsRead) /\ SpansOf(out') = SpansOf(out)
  BY StatusPublished DEF ArgosInv, ArgosTypeOK
<1>5. SpansBehind(out, nitemsRead)'
  BY <1>4 DEF SpansBehind, SpansOf, RangedIn, IsSequence, Nth, RangeOf
<1>. QED
  BY <1>1, <1>3, <1>4, <1>5 DEF ArgosInv

\* A message on the "reset" port keeps the buffered bits.
LEMMA ArgosResetInv ==
  ASSUME ArgosInv, Argos!Reset
  PROVE  ArgosInv' /\ SpansOf(out') = SpansOf(out)
<1>1. /\ UNCHANGED <<bitstream, startIdx, frameStart, nitemsRead, i, status, rx,
                     out>>
      /\ state' = "NO_SYNC" /\ decB' = 0 /\ frame' = <<>>
  BY DEF Argos!Reset, Argos!ClearedTo, Argos!buffer
<1>2. <<>> \in Seq(Byte) /\ Len(<<>>) = 0 /\ 0 < ArgosMaxFrameLen
  BY EmptySeq, StreamAssumption DEF StreamAssumption
<1>3. /\ decB' \in Byte /\ frame' \in Seq(Byte) /\ startIdx' \in Nat
      /\ i' \in Nat /\ i' <= Len(bitstream) /\ StatusHasNoRange'
      /\ Len(frame') < ArgosMaxFrameLen
  BY <1>1, <1>2, AccountedParts
  DEF ArgosInv, ArgosTypeOK, Byte, StatusHasNoRange
<1>. QED
  BY <1>1, <1>3, ArgosKept

\* Erasing n buffered bits and counting them keeps the accounting.
LEMMA EraseAccounts ==
  ASSUME ArgosInv, NEW n \in Nat, n <= Len(bitstream), Argos!Erase(n), rx' = rx
  PROVE  /\ bitstream' = Rest(rx', nitemsRead')
         /\ bitstream' \in Seq(Bit)
         /\ Len(bitstream') = Len(bitstream) - n
         /\ nitemsRead' = nitemsRead + n
         /\ nitemsRead' \in Nat /\ nitemsRead' <= Len(rx')
         /\ nitemsRead <= nitemsRead'
<1>1. /\ bitstream \in Seq(Bit) /\ rx \in Seq(Bit)
      /\ Len(bitstream) \in Nat /\ Len(rx) \in Nat /\ nitemsRead \in 0 .. Len(rx)
      /\ Len(bitstream) = Len(rx) - nitemsRead
      /\ bitstream = Rest(rx, nitemsRead)
  BY BufferLength, AccountedParts DEF ArgosInv, ArgosTypeOK, LineAccounted
<1>2. bitstream' = Rest(bitstream, n) /\ nitemsRead' = nitemsRead + n
  BY DEF Argos!Erase, Rest
<1>3. n \in 0 .. Len(bitstream) /\ n \in 0 .. Len(rx) - nitemsRead
  BY <1>1
<1>4. bitstream' \in Seq(Bit) /\ Len(bitstream') = Len(bitstream) - n
  BY <1>1, <1>2, <1>3, RestProperties
<1>5. bitstream' = Rest(rx, nitemsRead + n)
  BY <1>1, <1>2, <1>3, RestRest
<1>6. nitemsRead + n \in Nat /\ nitemsRead + n <= Len(rx)
      /\ nitemsRead <= nitemsRead + n
  BY <1>1, <1>3
<1>. QED
  BY <1>2, <1>4, <1>5, <1>6

\* A step that erases n bits and publishes ranges behind the read cursor only.
LEMMA ArgosErased ==
  ASSUME ArgosInv, NEW n \in Nat, n <= Len(bitstream), Argos!Erase(n), rx' = rx,
         SpansBehind(out', nitemsRead'), StatusHasNoRange',
         decB' \in Byte, frame' = <<>>, i' = 0, state' # "DECODING",
         startIdx' \in Nat, frameStart' \in Nat,
         state' # "NO_SYNC" => frameStart' = nitemsRead' /\ startIdx' = 0
  PROVE  ArgosInv'
<1>1. /\ bitstream' = Rest(rx', nitemsRead') /\ bitstream' \in Seq(Bit)
      /\ nitemsRead' \in Nat /\ nitemsRead' <= Len(rx')
  BY EraseAccounts
<1>2. Len(bitstream') \in Nat /\ <<>> \in Seq(Byte) /\ Len(<<>>) = 0
  BY <1>1, LenProperties, EmptySeq
<1>3. 0 < ArgosMaxFrameLen
  BY StreamAssumption DEF StreamAssumption
<1>4. ArgosTypeOK'
  BY <1>1, <1>2 DEF ArgosInv, ArgosTypeOK
<1>5. Argos!BufferAccounted'
  BY <1>1, <1>2, <1>3 DEF Argos!BufferAccounted, Rest
<1>6. SpansBehind(out, nitemsRead)'
  BY DEF SpansBehind, SpansOf, RangedIn, IsSequence, Nth, RangeOf
<1>. QED
  BY <1>4, <1>5, <1>6 DEF ArgosInv

\* The next bit of the buffer, and the octet it leaves in d_dec_b.
LEMMA NextDecBType ==
  ASSUME ArgosTypeOK, i < Len(bitstream)
  PROVE  Argos!NextDecB \in Byte
<1>1. i + 1 \in 1 .. Len(bitstream)
  BY LenProperties DEF ArgosTypeOK
<1>2. bitstream[i + 1] \in Bit
  BY <1>1, ElementOfSeq DEF ArgosTypeOK
<1>3. \A d \in Byte, b \in Bit : (2 * d + b) % 256 \in Byte
  BY DEF Byte, Bit
<1>. QED
  BY <1>2, <1>3 DEF Argos!NextDecB, ArgosTypeOK

\* The steps of the flag search.
LEMMA ArgosNoSyncInv ==
  ASSUME ArgosInv, Argos!NoSyncBit \/ Argos!NoSyncFlags \/ Argos!NoSyncEnd
  PROVE  /\ ArgosInv'
         /\ SpansOf(out') = SpansOf(out)
         /\ nitemsRead <= nitemsRead'
<1>1. /\ ArgosTypeOK /\ StatusHasNoRange /\ SpansBehind(out, nitemsRead)
      /\ Len(bitstream) \in Nat /\ i \in Nat /\ nitemsRead \in Nat
      /\ state = "NO_SYNC" /\ frame = <<>> /\ Len(frame) < ArgosMaxFrameLen
  BY AccountedParts, BufferLength
  DEF ArgosInv, ArgosTypeOK, Argos!NoSyncBit, Argos!NoSyncFlags,
      Argos!NoSyncEnd, Argos!Turn
<1>2. CASE Argos!NoSyncBit
  <2>1. /\ i < Len(bitstream)
        /\ UNCHANGED <<bitstream, nitemsRead, frameStart, rx, out, startIdx, state,
                       frame, status>>
        /\ decB' = Argos!NextDecB /\ i' = i + 1
    BY <1>2 DEF Argos!NoSyncBit, Argos!Turn, Argos!Shift, Argos!buffer, Argos!env
  <2>2. decB' \in Byte
    BY <1>1, <2>1, NextDecBType
  <2>3. /\ i' \in Nat /\ i' <= Len(bitstream) /\ StatusHasNoRange'
        /\ frame' \in Seq(Byte) /\ startIdx' \in Nat
        /\ nitemsRead <= nitemsRead'
    BY <1>1, <2>1 DEF StatusHasNoRange, ArgosTypeOK
  <2>. QED
    BY <1>1, <2>1, <2>2, <2>3, ArgosKept
<1>3. CASE Argos!NoSyncFlags
  <2>1. /\ Argos!Erase(i + 1) /\ i < Len(bitstream)
        /\ UNCHANGED <<rx, out, status>>
        /\ decB' = 0 /\ frame' = <<>> /\ i' = 0 /\ startIdx' = 0
        /\ state' = "IN_SYNC" /\ frameStart' = nitemsRead'
    BY <1>3 DEF Argos!NoSyncFlags, Argos!Turn, Argos!ClearedTo, Argos!env
  <2>. DEFINE n == i + 1
  <2>2. n \in Nat /\ n <= Len(bitstream) /\ Argos!Erase(n)
    BY <1>1, <2>1
  <2>. HIDE DEF n
  <2>3. nitemsRead' \in Nat /\ nitemsRead <= nitemsRead'
    BY <2>1, <2>2, EraseAccounts
  <2>4. SpansBehind(out', nitemsRead')
    BY <1>1, <2>1, <2>3, SpansStayBehind
  <2>5. StatusHasNoRange' /\ decB' \in Byte /\ startIdx' \in Nat
    BY <1>1, <2>1 DEF StatusHasNoRange, Byte
  <2>6. ArgosInv'
    BY <2>1, <2>2, <2>3, <2>4, <2>5, ArgosErased
  <2>. QED
    BY <2>1, <2>3, <2>6
<1>4. CASE Argos!NoSyncEnd
  <2>. DEFINE n == Len(bitstream)
  <2>1. /\ Argos!Erase(n) /\ n \in Nat /\ n <= Len(bitstream)
        /\ UNCHANGED <<rx, decB, frame, state, startIdx, frameStart>>
        /\ out' = out \o status /\ status' = <<>> /\ i' = 0
    BY <1>1, <1>4 DEF Argos!NoSyncEnd, Argos!Return, Argos!machine, Argos!env
  <2>. HIDE DEF n
  <2>2. nitemsRead' \in Nat /\ nitemsRead <= nitemsRead'
    BY <2>1, EraseAccounts
  <2>3. SpansBehind(out', nitemsRead) /\ SpansOf(out') = SpansOf(out)
    BY <1>1, <2>1, StatusPublished
  <2>4. SpansBehind(out', nitemsRead')
    BY <1>1, <2>2, <2>3, SpansStayBehind
  <2>5. /\ StatusHasNoRange' /\ decB' \in Byte /\ startIdx' \in Nat
        /\ frameStart' \in Nat /\ frame' = <<>> /\ state' = "NO_SYNC"
    BY <1>1, <2>1 DEF StatusHasNoRange, ArgosTypeOK
  <2>6. ArgosInv'
    BY <2>1, <2>4, <2>5, ArgosErased
  <2>. QED
    BY <2>2, <2>3, <2>6
<1>. QED
  BY <1>2, <1>3, <1>4

\* The steps of a decoder that is inside flags or a frame, but for the one that
\* publishes a range.
LEMMA ArgosInFrameInv ==
  ASSUME ArgosInv,
         \/ Argos!InSyncBit \/ Argos!InSyncData \/ Argos!OutOfBits
         \/ Argos!TooShort \/ Argos!FrameUnchecked \/ Argos!FrameCrcWrong
         \/ Argos!StuffedBit \/ Argos!DataBit \/ Argos!WrongSize
         \/ Argos!SevenOnes
  PROVE  /\ ArgosInv'
         /\ SpansOf(out') = SpansOf(out)
         /\ UNCHANGED <<nitemsRead, rx>>
<1>1. /\ ArgosTypeOK /\ StatusHasNoRange
      /\ Len(bitstream) \in Nat /\ i \in Nat /\ i <= Len(bitstream)
      /\ state # "NO_SYNC" => startIdx <= Len(bitstream)
      /\ state # "DECODING" => frame = <<>>
      /\ Len(frame) < ArgosMaxFrameLen
      /\ ArgosMaxFrameLen \in Nat /\ ArgosMaxFrameLen >= 2
  BY AccountedParts, BufferLength, StreamAssumption
  DEF ArgosInv, ArgosTypeOK, StreamAssumption
<1>2. decB \in Byte /\ frame \in Seq(Byte) /\ startIdx \in Nat
  BY <1>1 DEF ArgosTypeOK
<1>3. <<>> \in Seq(Byte) /\ Len(<<>>) = 0 /\ Len(<<>>) < ArgosMaxFrameLen
  BY <1>1, EmptySeq
<1>4. i < Len(bitstream) =>
        /\ Argos!NextDecB \in Byte /\ Argos!NextDecB \div 2 \in Byte
        /\ i + 1 \in Nat /\ i + 1 <= Len(bitstream)
  <2>1. \A d \in Byte : d \div 2 \in Byte
    BY DEF Byte
  <2>. QED
    BY <1>1, <2>1, NextDecBType
<1>5. status' = status => StatusHasNoRange'
  BY <1>1 DEF StatusHasNoRange
<1>. DEFINE Same == UNCHANGED <<bitstream, nitemsRead, frameStart, rx>>
<1>6. CASE Argos!InSyncBit
  <2>1. /\ Same /\ UNCHANGED <<state, frame, startIdx, status, out>>
        /\ i < Len(bitstream) /\ state = "IN_SYNC"
        /\ decB' = Argos!NextDecB /\ i' = i + 1
    BY <1>6 DEF Argos!InSyncBit, Argos!Turn, Argos!Shift, Argos!buffer, Argos!env
  <2>. QED
    BY <1>1, <1>2, <1>4, <1>5, <2>1, ArgosKept
<1>7. CASE Argos!InSyncData
  <2>1. /\ Same /\ UNCHANGED <<status, out>>
        /\ i < Len(bitstream) /\ state = "IN_SYNC" /\ state' = "DECODING"
        /\ startIdx' = i + 1 /\ i' = i + 1
        /\ \/ decB' = Argos!NextDecB \div 2 /\ frame' = <<>>
           \/ decB' = Argos!NextDecB /\ frame' = <<Argos!NextDecB>>
    BY <1>7 DEF Argos!InSyncData, Argos!Turn, Argos!env
  <2>2. frame' \in Seq(Byte) /\ Len(frame') < ArgosMaxFrameLen /\ decB' \in Byte
    <3>1. /\ <<Argos!NextDecB>> \in Seq(Byte)
          /\ Len(<<Argos!NextDecB>>) = 1
      BY <1>4, <2>1
    <3>2. 1 < ArgosMaxFrameLen
      BY <1>1
    <3>3. CASE decB' = Argos!NextDecB \div 2 /\ frame' = <<>>
      BY <1>3, <1>4, <2>1, <3>3
    <3>4. CASE decB' = Argos!NextDecB /\ frame' = <<Argos!NextDecB>>
      BY <1>4, <2>1, <3>1, <3>2, <3>4
    <3>. QED
      BY <2>1, <3>3, <3>4
  <2>. QED
    BY <1>1, <1>4, <1>5, <2>1, <2>2, ArgosKept
<1>8. CASE Argos!OutOfBits
  <2>1. /\ Same /\ UNCHANGED <<state, decB, frame>>
        /\ state # "NO_SYNC"
        /\ out' = out \o status /\ status' = <<>>
        /\ startIdx' = Len(bitstream) /\ i' = 0
    BY <1>8 DEF Argos!OutOfBits, Argos!Return, Argos!machine, Argos!env
  <2>2. StatusHasNoRange' /\ i' \in Nat /\ i' <= Len(bitstream)
        /\ startIdx' <= Len(bitstream) /\ startIdx' \in Nat
    BY <1>1, <2>1 DEF StatusHasNoRange
  <2>. QED
    BY <1>1, <1>2, <2>1, <2>2, ArgosKept
<1>9. ASSUME Argos!Restart, StatusHasNoRange'
      PROVE  /\ ArgosInv'
             /\ SpansOf(out') = SpansOf(out)
             /\ UNCHANGED <<nitemsRead, rx>>
  <2>1. /\ Same /\ UNCHANGED <<startIdx, out>>
        /\ state' = "NO_SYNC" /\ decB' = 0 /\ frame' = <<>> /\ i' = 0
    BY <1>9 DEF Argos!Restart, Argos!ClearedTo, Argos!buffer, Argos!env
  <2>2. /\ decB' \in Byte /\ i' \in Nat /\ i' <= Len(bitstream)
        /\ frame' \in Seq(Byte) /\ Len(frame') < ArgosMaxFrameLen
    BY <1>1, <1>3, <2>1 DEF Byte
  <2>. QED
    BY <1>2, <1>9, <2>1, <2>2, ArgosKept
<1>10. CASE Argos!TooShort \/ Argos!WrongSize \/ Argos!SevenOnes
  <2>1. Argos!Restart /\ status' = status
    BY <1>10 DEF Argos!TooShort, Argos!WrongSize, Argos!SevenOnes
  <2>. QED
    BY <1>5, <1>9, <2>1
<1>11. CASE Argos!FrameUnchecked
  <2>1. /\ Argos!Restart
        /\ status' = <<[pdu |-> Argos!Pdu, crcValid |-> FALSE, start |-> 0,
                        cnt |-> 0]>>
    BY <1>11 DEF Argos!FrameUnchecked
  <2>2. StatusHasNoRange'
    <3>. DEFINE f == [pdu |-> Argos!Pdu, crcValid |-> FALSE, start |-> 0, cnt |-> 0]
    <3>1. status' = <<f>> /\ ~ f.crcValid
      BY <2>1
    <3>. HIDE DEF f
    <3>. QED
      BY <3>1 DEF StatusHasNoRange
  <2>. QED
    BY <1>9, <2>1, <2>2
<1>12. CASE Argos!FrameCrcWrong
  <2>1. /\ Same /\ UNCHANGED <<state, frame, startIdx, status, out>>
        /\ i < Len(bitstream) /\ state = "DECODING"
        /\ decB' = Argos!NextDecB /\ i' = startIdx
    BY <1>12 DEF Argos!FrameCrcWrong, Argos!AtFlag, Argos!Turn, Argos!buffer,
                 Argos!env
  <2>. QED
    BY <1>1, <1>2, <1>4, <1>5, <2>1, ArgosKept
<1>13. CASE Argos!StuffedBit
  <2>1. /\ Same /\ UNCHANGED <<state, frame, startIdx, status, out>>
        /\ i < Len(bitstream) /\ state = "DECODING"
        /\ decB' = Argos!NextDecB \div 2 /\ i' = i + 1
    BY <1>13 DEF Argos!StuffedBit, Argos!Turn, Argos!Shift, Argos!buffer, Argos!env
  <2>. QED
    BY <1>1, <1>2, <1>4, <1>5, <2>1, ArgosKept
<1>14. CASE Argos!DataBit
  <2>1. /\ Same /\ UNCHANGED <<state, startIdx, status, out>>
        /\ i < Len(bitstream) /\ state = "DECODING"
        /\ decB' = Argos!NextDecB /\ i' = i + 1
        /\ \/ frame' = frame
           \/ /\ frame' = Append(frame, Argos!NextDecB)
              /\ Len(frame) + 1 < ArgosMaxFrameLen
    BY <1>14 DEF Argos!DataBit, Argos!DataTurn, Argos!Turn, Argos!Shift,
                 Argos!buffer, Argos!env
  <2>2. frame' \in Seq(Byte) /\ Len(frame') < ArgosMaxFrameLen
    <3>1. /\ Append(frame, Argos!NextDecB) \in Seq(Byte)
          /\ Len(Append(frame, Argos!NextDecB)) = Len(frame) + 1
      BY <1>2, <1>4, <2>1, AppendProperties
    <3>. QED
      BY <1>1, <1>2, <2>1, <3>1
  <2>. QED
    BY <1>1, <1>2, <1>4, <1>5, <2>1, <2>2, ArgosKept
<1>. QED
  BY <1>6, <1>7, <1>8, <1>10, <1>11, <1>12, <1>13, <1>14

\* A frame with a valid FCS: its range begins at the read cursor and ends
\* before the closing flag does, and the cursor goes behind that.
LEMMA ArgosFrameEnds ==
  ASSUME ArgosInv, Argos!FrameEnd
  PROVE  /\ ArgosInv'
         /\ nitemsRead <= nitemsRead'
         /\ rx' = rx
         /\ \E span : /\ SpansOf(out') = Append(SpansOf(out), span)
                      /\ span.start = nitemsRead
                      /\ span.cnt \in Nat
                      /\ span.start + span.cnt <= Len(rx)
<1>1. /\ ArgosTypeOK /\ SpansBehind(out, nitemsRead)
      /\ Len(bitstream) \in Nat /\ i \in Nat /\ nitemsRead \in Nat
      /\ Len(rx) \in Nat /\ Len(bitstream) = Len(rx) - nitemsRead
      /\ i < Len(bitstream) /\ frameStart = nitemsRead
  BY AccountedParts, BufferLength
  DEF ArgosInv, ArgosTypeOK, Argos!FrameEnd, Argos!AtFlag, Argos!Turn
<1>. DEFINE f == [pdu |-> Argos!Pdu, crcValid |-> TRUE, start |-> frameStart,
                  cnt |-> nitemsRead + i - frameStart]
            n == i + 1
<1>2. /\ Argos!Erase(n) /\ UNCHANGED <<rx, frameStart>>
      /\ out' = out \o <<f>> /\ status' = <<>>
      /\ state' = "NO_SYNC" /\ decB' = 0 /\ frame' = <<>> /\ i' = 0
      /\ startIdx' = Len(bitstream')
  BY DEF Argos!FrameEnd, Argos!ClearedTo, Argos!Return, Argos!env
<1>3. f.crcValid /\ f.start = nitemsRead /\ f.cnt = i
  BY <1>1
<1>4. n \in Nat /\ n <= Len(bitstream) /\ nitemsRead + i <= Len(rx)
  BY <1>1
<1>5. nitemsRead + n = (nitemsRead + i) + 1
  BY <1>1
<1>. HIDE DEF f, n
<1>6. /\ nitemsRead' \in Nat /\ nitemsRead' = nitemsRead + n
      /\ nitemsRead <= nitemsRead'
      /\ bitstream' \in Seq(Bit)
  BY <1>2, <1>4, EraseAccounts
<1>7. IsSequence(out)
  BY <1>1 DEF SpansBehind
<1>8. out' = Append(out, f) /\ IsSequence(out')
  <2>1. out \o <<f>> = Append(out, f)
    BY <1>7, ConcatOne
  <2>2. IsSequence(Append(out, f))
    BY <1>7, SequenceAppend
  <2>. QED
    BY <1>2, <2>1, <2>2
<1>9. SpansOf(out') = Append(SpansOf(out), RangeOf(f))
  BY <1>3, <1>7, <1>8, SpansAppend
<1>10. RangeOf(f).start = nitemsRead /\ RangeOf(f).cnt = i
  BY <1>3 DEF RangeOf
<1>11. SpansBehind(out', nitemsRead')
  <2>. DEFINE g == SpansOf(out)
              h == SpansOf(out')
  <2>1. IsSequence(g)
    BY <1>7, SpansProperties
  <2>2. /\ Len(g) \in Nat /\ Len(h) = Len(g) + 1
        /\ \A j \in 1 .. Len(g) : h[j] = g[j]
        /\ h[Len(g) + 1] = RangeOf(f)
    BY <1>9, <2>1, SequenceAppend
  <2>3. \A j \in 1 .. Len(g) :
          /\ g[j].start \in Nat /\ g[j].cnt \in Nat
          /\ g[j].start + g[j].cnt <= nitemsRead'
    <3>1. SpansBehind(out, nitemsRead')
      BY <1>1, <1>6, SpansStayBehind
    <3>. QED
      BY <3>1 DEF SpansBehind
  <2>. HIDE DEF g, h
  <2>4. /\ RangeOf(f).start \in Nat /\ RangeOf(f).cnt \in Nat
        /\ RangeOf(f).start + RangeOf(f).cnt <= nitemsRead'
    BY <1>1, <1>5, <1>6, <1>10
  <2>5. \A j \in 1 .. Len(h) : j \in 1 .. Len(g) \/ j = Len(g) + 1
    BY <2>2
  <2>6. \A j \in 1 .. Len(h) :
          /\ h[j].start \in Nat /\ h[j].cnt \in Nat
          /\ h[j].start + h[j].cnt <= nitemsRead'
    BY <2>2, <2>3, <2>4, <2>5
  <2>. QED
    BY <1>8, <2>6 DEF SpansBehind, h
<1>12. /\ StatusHasNoRange' /\ decB' \in Byte /\ startIdx' \in Nat
       /\ frameStart' \in Nat
  BY <1>1, <1>2, <1>6, LenProperties DEF StatusHasNoRange, Byte, ArgosTypeOK
<1>13. ArgosInv'
  BY <1>2, <1>4, <1>11, <1>12, ArgosErased
<1>. QED
  BY <1>1, <1>2, <1>4, <1>6, <1>9, <1>10, <1>13

\* Every step of argos keeps its invariant.
LEMMA ArgosNextInv ==
  ASSUME ArgosInv, Argos!Next
  PROVE  ArgosInv'
<1>1. CASE \E bits \in ArgosChunks : Argos!Decode(bits)
  BY <1>1, ArgosDecodeInv
<1>2. CASE Argos!Reset
  BY <1>2, ArgosResetInv
<1>3. CASE Argos!Scan
  BY <1>3, ArgosNoSyncInv, ArgosInFrameInv, ArgosFrameEnds DEF Argos!Scan
<1>. QED
  BY <1>1, <1>2, <1>3 DEF Argos!Next

-----------------------------------------------------------------------------
(* amsat: words and control symbols of the line *)

\* A piece of what is left of a sequence is a piece of the sequence.
LEMMA PieceOfRest ==
  ASSUME NEW s \in Seq(Bit), NEW n \in 0 .. Len(s),
         NEW from \in Nat, NEW to \in Nat,
         from >= 1, from <= to + 1, to <= Len(s) - n
  PROVE  SubSeq(Rest(s, n), from, to) = SubSeq(s, n + from, n + to)
<1>. DEFINE d == Rest(s, n)
            e == SubSeq(d, from, to)
            f == SubSeq(s, n + from, n + to)
<1>1. Len(s) \in Nat
  BY LenProperties
<1>2. /\ d \in Seq(Bit) /\ Len(d) = Len(s) - n
      /\ \A k \in 1 .. Len(s) - n : d[k] = s[k + n]
  BY RestProperties
<1>. HIDE DEF d
<1>3. /\ e \in Seq(Bit) /\ Len(e) = to - from + 1
      /\ \A k \in 1 .. to - from + 1 : e[k] = d[from + k - 1]
  BY <1>2, PieceProperties
<1>4. /\ n + from \in Nat /\ n + to \in Nat /\ n + from >= 1
      /\ n + from <= (n + to) + 1 /\ n + to <= Len(s)
      /\ (n + to) - (n + from) + 1 = to - from + 1
  BY <1>1
<1>5. /\ f \in Seq(Bit) /\ Len(f) = (n + to) - (n + from) + 1
      /\ \A k \in 1 .. (n + to) - (n + from) + 1 : f[k] = s[(n + from) + k - 1]
  BY <1>4, PieceProperties
<1>. HIDE DEF e, f
<1>6. ASSUME NEW k \in 1 .. Len(e)
      PROVE  e[k] = f[k]
  <2>1. /\ from + k - 1 \in 1 .. Len(s) - n
        /\ (from + k - 1) + n = (n + from) + k - 1
        /\ k \in 1 .. to - from + 1
    BY <1>1, <1>3
  <2>. QED
    BY <1>2, <1>3, <1>4, <1>5, <2>1
<1>7. e = f
  BY <1>3, <1>4, <1>5, <1>6, SeqEqual
<1>. QED
  BY <1>7 DEF d, e, f

\* A piece of a sequence stays where it is when the sequence grows.
LEMMA PieceStays ==
  ASSUME NEW s \in Seq(Bit), NEW t \in Seq(Bit),
         NEW from \in Nat, NEW to \in Nat,
         from >= 1, from <= to + 1, to <= Len(s)
  PROVE  SubSeq(s \o t, from, to) = SubSeq(s, from, to)
<1>. DEFINE c == s \o t
            e == SubSeq(c, from, to)
            f == SubSeq(s, from, to)
<1>1. Len(s) \in Nat /\ Len(t) \in Nat
  BY LenProperties
<1>2. /\ c \in Seq(Bit) /\ Len(c) = Len(s) + Len(t)
      /\ \A k \in 1 .. Len(s) + Len(t) :
           c[k] = IF k <= Len(s) THEN s[k] ELSE t[k - Len(s)]
  BY ConcatProperties
<1>. HIDE DEF c
<1>3. to <= Len(c)
  BY <1>1, <1>2
<1>4. /\ e \in Seq(Bit) /\ Len(e) = to - from + 1
      /\ \A k \in 1 .. to - from + 1 : e[k] = c[from + k - 1]
  BY <1>2, <1>3, PieceProperties
<1>5. /\ f \in Seq(Bit) /\ Len(f) = to - from + 1
      /\ \A k \in 1 .. to - from + 1 : f[k] = s[from + k - 1]
  BY PieceProperties
<1>. HIDE DEF e, f
<1>6. ASSUME NEW k \in 1 .. Len(e)
      PROVE  e[k] = f[k]
  <2>1. /\ from + k - 1 \in 1 .. Len(s) + Len(t) /\ from + k - 1 <= Len(s)
        /\ k \in 1 .. to - from + 1
    BY <1>1, <1>4
  <2>. QED
    BY <1>2, <1>4, <1>5, <2>1
<1>7. e = f
  BY <1>4, <1>5, <1>6, SeqEqual
<1>. QED
  BY <1>7 DEF c, e, f

WordAt(s, idx, k) ==
  SubSeq(s, idx + Amsat!WordLen * (k - 1) + 1, idx + Amsat!WordLen * k)

ValuesIn(s, idx, n) == Amsat!Values(Amsat!Packed(s, idx, n))
InexactIn(s, idx, n) == Amsat!Inexact(Amsat!Packed(s, idx, n))

\* The numbers of words that come behind m others.
Behind(m, S) == {m + k : k \in S}

\* The values of n words, and those of them that are in neither table.
LEMMA WordsProperties ==
  ASSUME NEW s, NEW idx, NEW n \in Nat
  PROVE  /\ IsSequence(ValuesIn(s, idx, n))
         /\ Len(ValuesIn(s, idx, n)) = n
         /\ \A k \in 1 .. n :
              ValuesIn(s, idx, n)[k] = Amsat!Lookup[WordAt(s, idx, k)].value
         /\ InexactIn(s, idx, n) =
              {k \in 1 .. n : ~ Amsat!Lookup[WordAt(s, idx, k)].exact}
<1>. DEFINE W == {WordAt(s, idx, k) : k \in 1 .. n}
            p == Amsat!Packed(s, idx, n)
            v == ValuesIn(s, idx, n)
            V == {Amsat!Lookup[p[k]].value : k \in 1 .. n}
<1>1. p \in [1 .. n -> W] /\ \A k \in 1 .. n : p[k] = WordAt(s, idx, k)
  BY DEF Amsat!Packed, WordAt
<1>. HIDE DEF W
<1>2. Len(p) = n
  <2>. HIDE DEF p
  <2>. QED
    BY <1>1, FunctionSequence
<1>3. v = [k \in 1 .. n |-> Amsat!Lookup[p[k]].value]
  BY <1>2 DEF ValuesIn, Amsat!Values
<1>4. InexactIn(s, idx, n) = {k \in 1 .. n : ~ Amsat!Lookup[p[k]].exact}
  BY <1>2 DEF InexactIn, Amsat!Inexact
<1>. HIDE DEF p, v
<1>5. v \in [1 .. n -> V]
  BY <1>3
<1>. HIDE DEF V
<1>6. v \in Seq(V) /\ Len(v) = n
  BY <1>5, FunctionSequence
<1>7. IsSequence(v)
  BY <1>6, SequenceOver
<1>8. \A k \in 1 .. n : v[k] = Amsat!Lookup[WordAt(s, idx, k)].value
  BY <1>1, <1>3
<1>9. InexactIn(s, idx, n)
        = {k \in 1 .. n : ~ Amsat!Lookup[WordAt(s, idx, k)].exact}
  BY <1>1, <1>4
<1>. QED
  BY <1>6, <1>7, <1>8, <1>9 DEF v

\* Where the n words from an index on are.
LEMMA WordBounds ==
  ASSUME NEW idx \in Nat, NEW n \in Nat, NEW k \in 1 .. n
  PROVE  /\ idx + Amsat!WordLen * (k - 1) + 1 \in Nat
         /\ idx + Amsat!WordLen * k \in Nat
         /\ idx + Amsat!WordLen * (k - 1) + 1 >= 1
         /\ idx + Amsat!WordLen * (k - 1) + 1 <= idx + Amsat!WordLen * k + 1
         /\ idx + Amsat!WordLen * k <= idx + Amsat!WordLen * n
BY DEF Amsat!WordLen

\* Words stay when the line grows.
LEMMA WordsGrow ==
  ASSUME NEW s \in Seq(Bit), NEW t \in Seq(Bit), NEW idx \in Nat, NEW n \in Nat,
         idx + Amsat!WordLen * n <= Len(s)
  PROVE  /\ ValuesIn(s \o t, idx, n) = ValuesIn(s, idx, n)
         /\ InexactIn(s \o t, idx, n) = InexactIn(s, idx, n)
<1>1. ASSUME NEW k \in 1 .. n
      PROVE  WordAt(s \o t, idx, k) = WordAt(s, idx, k)
  <2>. DEFINE from == idx + Amsat!WordLen * (k - 1) + 1
              to == idx + Amsat!WordLen * k
  <2>1. from \in Nat /\ to \in Nat /\ from >= 1 /\ from <= to + 1
        /\ to <= idx + Amsat!WordLen * n /\ idx + Amsat!WordLen * n \in Nat
    BY WordBounds DEF Amsat!WordLen
  <2>2. Len(s) \in Nat
    BY LenProperties
  <2>. HIDE DEF from, to
  <2>3. to <= Len(s)
    BY <2>1, <2>2
  <2>4. SubSeq(s \o t, from, to) = SubSeq(s, from, to)
    BY <2>1, <2>3, PieceStays
  <2>. QED
    BY <2>4 DEF WordAt, from, to
<1>2. Amsat!Packed(s \o t, idx, n) = Amsat!Packed(s, idx, n)
  BY <1>1 DEF Amsat!Packed, WordAt
<1>. QED
  BY <1>2 DEF ValuesIn, InexactIn

\* The words of the buffer are words of the line.
LEMMA WordsOfRest ==
  ASSUME NEW s \in Seq(Bit), NEW m \in 0 .. Len(s), NEW idx \in Nat,
         NEW n \in Nat, idx + Amsat!WordLen * n <= Len(s) - m
  PROVE  /\ ValuesIn(Rest(s, m), idx, n) = ValuesIn(s, m + idx, n)
         /\ InexactIn(Rest(s, m), idx, n) = InexactIn(s, m + idx, n)
<1>1. ASSUME NEW k \in 1 .. n
      PROVE  WordAt(Rest(s, m), idx, k) = WordAt(s, m + idx, k)
  <2>. DEFINE from == idx + Amsat!WordLen * (k - 1) + 1
              to == idx + Amsat!WordLen * k
  <2>1. from \in Nat /\ to \in Nat /\ from >= 1 /\ from <= to + 1
        /\ to <= idx + Amsat!WordLen * n /\ idx + Amsat!WordLen * n \in Nat
    BY WordBounds DEF Amsat!WordLen
  <2>2. Len(s) \in Nat
    BY LenProperties
  <2>3. /\ m + from = m + idx + Amsat!WordLen * (k - 1) + 1
        /\ m + to = m + idx + Amsat!WordLen * k
    BY DEF Amsat!WordLen
  <2>. HIDE DEF from, to
  <2>4. to <= Len(s) - m
    BY <2>1, <2>2
  <2>5. SubSeq(Rest(s, m), from, to) = SubSeq(s, m + from, m + to)
    BY <2>1, <2>4, PieceOfRest
  <2>. QED
    BY <2>3, <2>5 DEF WordAt, from, to
<1>2. Amsat!Packed(Rest(s, m), idx, n) = Amsat!Packed(s, m + idx, n)
  BY <1>1 DEF Amsat!Packed, WordAt
<1>. QED
  BY <1>2 DEF ValuesIn, InexactIn

\* The words of two calls are the words of one.
LEMMA WordsAppend ==
  ASSUME NEW s, NEW idx \in Nat, NEW m \in Nat, NEW n \in Nat,
         NEW there \in Nat, NEW all \in Nat,
         there = idx + Amsat!WordLen * m, all = m + n
  PROVE  /\ ValuesIn(s, idx, all)
              = Joined(ValuesIn(s, idx, m), ValuesIn(s, there, n))
         /\ InexactIn(s, idx, all)
              = InexactIn(s, idx, m) \cup Behind(m, InexactIn(s, there, n))
<1>. DEFINE a == ValuesIn(s, idx, m)
            b == ValuesIn(s, there, n)
            c == ValuesIn(s, idx, m + n)
<1>1. m + n \in Nat
  OBVIOUS
<1>2. /\ IsSequence(a) /\ Len(a) = m
      /\ \A k \in 1 .. m : a[k] = Amsat!Lookup[WordAt(s, idx, k)].value
      /\ InexactIn(s, idx, m)
           = {k \in 1 .. m : ~ Amsat!Lookup[WordAt(s, idx, k)].exact}
  BY WordsProperties
<1>3. /\ IsSequence(b) /\ Len(b) = n
      /\ \A k \in 1 .. n : b[k] = Amsat!Lookup[WordAt(s, there, k)].value
      /\ InexactIn(s, there, n)
           = {k \in 1 .. n : ~ Amsat!Lookup[WordAt(s, there, k)].exact}
  BY WordsProperties
<1>4. /\ IsSequence(c) /\ Len(c) = m + n
      /\ \A k \in 1 .. m + n : c[k] = Amsat!Lookup[WordAt(s, idx, k)].value
      /\ InexactIn(s, idx, m + n)
           = {k \in 1 .. m + n : ~ Amsat!Lookup[WordAt(s, idx, k)].exact}
  BY <1>1, WordsProperties
<1>5. ASSUME NEW k \in 1 .. n
      PROVE  WordAt(s, there, k) = WordAt(s, idx, m + k)
  <2>1. /\ there + Amsat!WordLen * (k - 1) + 1
             = idx + Amsat!WordLen * ((m + k) - 1) + 1
        /\ there + Amsat!WordLen * k = idx + Amsat!WordLen * (m + k)
    BY DEF Amsat!WordLen
  <2>. QED
    BY <2>1 DEF WordAt
<1>. HIDE DEF a, b, c
<1>6. /\ IsSequence(a \o b) /\ Len(a \o b) = m + n
      /\ \A k \in 1 .. m + n : (a \o b)[k] = IF k <= m THEN a[k] ELSE b[k - m]
  BY <1>2, <1>3, SequenceConcat
<1>7. ASSUME NEW k \in 1 .. m + n
      PROVE  c[k] = (a \o b)[k]
  <2>1. CASE k <= m
    <3>1. k \in 1 .. m
      BY <2>1
    <3>. QED
      BY <1>2, <1>4, <1>6, <2>1, <3>1
  <2>2. CASE ~ (k <= m)
    <3>1. k - m \in 1 .. n /\ m + (k - m) = k
      BY <2>2
    <3>2. WordAt(s, there, k - m) = WordAt(s, idx, k)
      BY <1>5, <3>1
    <3>. QED
      BY <1>3, <1>4, <1>6, <2>2, <3>1, <3>2
  <2>. QED
    BY <2>1, <2>2
<1>8. c = a \o b
  <2>. DEFINE d == a \o b
  <2>1. IsSequence(d) /\ Len(d) = Len(c) /\ \A k \in 1 .. Len(c) : c[k] = d[k]
    BY <1>4, <1>6, <1>7
  <2>. HIDE DEF d
  <2>2. {c[k] : k \in 1 .. Len(c)} = {d[k] : k \in 1 .. Len(d)}
    BY <2>1
  <2>3. c = d
    BY <1>4, <2>1, <2>2, SeqEqual DEF IsSequence
  <2>. QED
    BY <2>3 DEF d
<1>9. InexactIn(s, idx, m + n)
        = InexactIn(s, idx, m) \cup Behind(m, InexactIn(s, there, n))
  <2>. DEFINE Wrong(k) == ~ Amsat!Lookup[WordAt(s, idx, k)].exact
  <2>1. InexactIn(s, there, n) = {k \in 1 .. n : Wrong(m + k)}
    BY <1>3, <1>5
  <2>2. InexactIn(s, idx, m) = {k \in 1 .. m : Wrong(k)}
    BY <1>2
  <2>3. InexactIn(s, idx, m + n) = {k \in 1 .. m + n : Wrong(k)}
    BY <1>4
  <2>. HIDE DEF Wrong
  <2>4. \A k \in 1 .. m + n : k \in 1 .. m \/ (k - m \in 1 .. n /\ k = m + (k - m))
    OBVIOUS
  <2>5. \A k \in 1 .. m : k \in 1 .. m + n
    OBVIOUS
  <2>6. \A k \in 1 .. n : m + k \in 1 .. m + n
    OBVIOUS
  <2>7. ASSUME NEW k \in InexactIn(s, idx, m + n)
        PROVE  k \in InexactIn(s, idx, m) \cup Behind(m, InexactIn(s, there, n))
    <3>1. k \in 1 .. m + n /\ Wrong(k)
      BY <2>3
    <3>2. CASE k \in 1 .. m
      BY <2>2, <3>1, <3>2
    <3>3. CASE k - m \in 1 .. n /\ k = m + (k - m)
      <4>1. k - m \in InexactIn(s, there, n)
        BY <2>1, <3>1, <3>3
      <4>. QED
        BY <3>3, <4>1 DEF Behind
    <3>. QED
      BY <2>4, <3>1, <3>2, <3>3
  <2>8. InexactIn(s, idx, m) \subseteq InexactIn(s, idx, m + n)
    BY <2>2, <2>3, <2>5
  <2>9. \A k \in InexactIn(s, there, n) : m + k \in InexactIn(s, idx, m + n)
    BY <2>1, <2>3, <2>6
  <2>. QED
    BY <2>7, <2>8, <2>9 DEF Behind
<1>. QED
  BY <1>8, <1>9 DEF a, b, c, Joined

\* A control symbol ends before this index of s, its leading zeros left out.
ControlIn(s, idx) ==
  \E c \in {Control, Amsat!Inverted}, zeros \in 0 .. Amsat!WordLen - 1 :
    /\ idx >= Amsat!WordLen - zeros
    /\ \A k \in 1 .. zeros : c[k] = 0
    /\ SubSeq(s, idx - (Amsat!WordLen - zeros) + 1,
              idx - (Amsat!WordLen - zeros) + (Amsat!WordLen - zeros))
         = SubSeq(c, zeros + 1, Amsat!WordLen)

\* With r = resets.
ResetIn(r, first, last) == \E n \in 1 .. Len(r) : r[n] \in first .. last

\* Words may begin at this index.
Begins(s, r, idx) == ControlIn(s, idx) \/ ResetIn(r, idx - Amsat!WordLen + 1, idx)

\* They may when the line has grown, too.
LEMMA BeginsStays ==
  ASSUME NEW s \in Seq(Bit), NEW t \in Seq(Bit), NEW r, NEW idx \in Nat,
         idx <= Len(s), Begins(s, r, idx)
  PROVE  Begins(s \o t, r, idx)
<1>1. Len(s) \in Nat
  BY LenProperties
<1>2. CASE ControlIn(s, idx)
  <2>1. PICK c \in {Control, Amsat!Inverted}, zeros \in 0 .. Amsat!WordLen - 1 :
          /\ idx >= Amsat!WordLen - zeros
          /\ \A k \in 1 .. zeros : c[k] = 0
          /\ SubSeq(s, idx - (Amsat!WordLen - zeros) + 1,
                    idx - (Amsat!WordLen - zeros) + (Amsat!WordLen - zeros))
               = SubSeq(c, zeros + 1, Amsat!WordLen)
    BY <1>2 DEF ControlIn
  <2>. DEFINE from == idx - (Amsat!WordLen - zeros) + 1
              to == idx - (Amsat!WordLen - zeros) + (Amsat!WordLen - zeros)
  <2>2. from \in Nat /\ to \in Nat /\ from >= 1 /\ from <= to + 1 /\ to <= Len(s)
    BY <1>1, <2>1 DEF Amsat!WordLen
  <2>. HIDE DEF from, to
  <2>3. SubSeq(s \o t, from, to) = SubSeq(s, from, to)
    BY <2>2, PieceStays
  <2>4. ControlIn(s \o t, idx)
    BY <2>1, <2>3 DEF ControlIn, from, to
  <2>. QED
    BY <2>4 DEF Begins
<1>3. CASE ResetIn(r, idx - Amsat!WordLen + 1, idx)
  BY <1>3 DEF Begins
<1>. QED
  BY <1>2, <1>3 DEF Begins

\* And after one more reset.
LEMMA BeginsAfterReset ==
  ASSUME NEW s, NEW r, IsSequence(r), NEW e, NEW idx \in Nat, Begins(s, r, idx)
  PROVE  Begins(s, Append(r, e), idx)
<1>. DEFINE t == Append(r, e)
<1>1. /\ Len(r) \in Nat /\ Len(t) = Len(r) + 1
      /\ \A n \in 1 .. Len(r) : t[n] = r[n]
  BY SequenceAppend
<1>. HIDE DEF t
<1>2. \A n \in 1 .. Len(r) : n \in 1 .. Len(t)
  BY <1>1
<1>3. \A first, last : ResetIn(r, first, last) => ResetIn(t, first, last)
  BY <1>1, <1>2 DEF ResetIn
<1>. QED
  BY <1>3 DEF Begins, t

(***************************************************************************)
(* amsat: the inductive invariant.  While it searches, the shift register  *)
(* is empty, or holds the bits of the line in front of the buffer, or was  *)
(* kept by a reset.                                                        *)
(***************************************************************************)

RegisterOf(s, r, b, reg) ==
  \/ reg = Amsat!ZeroReg
  \/ b >= Amsat!WordLen /\ reg = SubSeq(s, b - Amsat!WordLen + 1, b)
  \/ ResetIn(r, b, b)

\* The words w and erasures e of a frame that begins at this index.
OpenFrame(s, r, w, e, first) ==
  /\ IsSequence(w) /\ Len(w) <= FrameWords
  /\ first \in Nat /\ first + Amsat!WordLen * Len(w) <= Len(s)
  /\ Begins(s, r, first)
  /\ w = ValuesIn(s, first, Len(w))
  /\ e = InexactIn(s, first, Len(w))

\* A published frame is the block behind a control symbol, corrected.
FrameIn(s, r, f) ==
  /\ f.at \in Nat /\ f.at + Amsat!WordLen * FrameWords <= Len(s)
  /\ f.erasures < AmsatParity =>
       /\ Begins(s, r, f.at)
       /\ \E c \in Amsat!Correctable(ValuesIn(s, f.at, FrameWords),
                                     InexactIn(s, f.at, FrameWords)) :
            f.pdu = SubSeq(c, 1, FrameWords - AmsatParity)

FramesOnLine(s, r, o) ==
  /\ IsSequence(o)
  /\ \A n \in 1 .. Len(o) : FrameIn(s, r, o[n])

AmsatTypeOK ==
  /\ dataReg \in Seq(Bit) /\ Len(dataReg) = Amsat!WordLen
  /\ bitstream \in Seq(Bit)
  /\ rx \in Seq(Bit)
  /\ IsSequence(resets)

AmsatInv ==
  /\ AmsatTypeOK
  /\ Len(bitstream) <= Len(rx) /\ bitstream = Rest(rx, Amsat!Base)
  /\ state = "SEARCH_SYNC" => RegisterOf(rx, resets, Amsat!Base, dataReg)
  /\ state = "DECODING" =>
       /\ bitstreamIdx \in Nat /\ bitstreamIdx <= Len(bitstream)
       /\ OpenFrame(rx, resets, words, erasures,
                    Amsat!Base + bitstreamIdx - Amsat!WordLen * Len(words))
  /\ FramesOnLine(rx, resets, out)

\* A line that grows keeps all of that.
LEMMA OpenFrameStays ==
  ASSUME NEW s \in Seq(Bit), NEW t \in Seq(Bit), NEW r, NEW w, NEW e, NEW first,
         OpenFrame(s, r, w, e, first)
  PROVE  OpenFrame(s \o t, r, w, e, first)
<1>1. /\ IsSequence(w) /\ Len(w) <= FrameWords
      /\ first \in Nat /\ first + Amsat!WordLen * Len(w) <= Len(s)
      /\ Begins(s, r, first)
      /\ w = ValuesIn(s, first, Len(w))
      /\ e = InexactIn(s, first, Len(w))
  BY DEF OpenFrame
<1>2. /\ Len(w) \in Nat /\ Len(s) \in Nat /\ Len(t) \in Nat
      /\ Len(s \o t) = Len(s) + Len(t)
  BY <1>1, LenProperties, ConcatProperties DEF IsSequence
<1>3. first <= Len(s) /\ first + Amsat!WordLen * Len(w) <= Len(s \o t)
  BY <1>1, <1>2 DEF Amsat!WordLen
<1>4. Begins(s \o t, r, first)
  BY <1>1, <1>3, BeginsStays
<1>5. /\ ValuesIn(s \o t, first, Len(w)) = ValuesIn(s, first, Len(w))
      /\ InexactIn(s \o t, first, Len(w)) = InexactIn(s, first, Len(w))
  BY <1>1, <1>2, WordsGrow
<1>. QED
  BY <1>1, <1>3, <1>4, <1>5 DEF OpenFrame

LEMMA FramesStay ==
  ASSUME NEW s \in Seq(Bit), NEW t \in Seq(Bit), NEW r, NEW o, FramesOnLine(s, r, o)
  PROVE  FramesOnLine(s \o t, r, o)
<1>1. /\ Len(s) \in Nat /\ Len(t) \in Nat /\ Len(s \o t) = Len(s) + Len(t)
      /\ FrameWords \in Nat
  BY LenProperties, ConcatProperties, StreamAssumption DEF StreamAssumption
<1>2. ASSUME NEW n \in 1 .. Len(o)
      PROVE  FrameIn(s \o t, r, o[n])
  <2>. DEFINE f == o[n]
  <2>1. FrameIn(s, r, f)
    BY DEF FramesOnLine
  <2>. HIDE DEF f
  <2>2. f.at \in Nat /\ f.at + Amsat!WordLen * FrameWords <= Len(s)
    BY <2>1 DEF FrameIn
  <2>3. f.at <= Len(s) /\ f.at + Amsat!WordLen * FrameWords <= Len(s \o t)
    BY <1>1, <2>2 DEF Amsat!WordLen
  <2>4. Begins(s, r, f.at) => Begins(s \o t, r, f.at)
    BY <2>2, <2>3, BeginsStays
  <2>5. /\ ValuesIn(s \o t, f.at, FrameWords) = ValuesIn(s, f.at, FrameWords)
        /\ InexactIn(s \o t, f.at, FrameWords) = InexactIn(s, f.at, FrameWords)
    BY <1>1, <2>2, WordsGrow
  <2>6. FrameIn(s \o t, r, f)
    BY <2>1, <2>2, <2>3, <2>4, <2>5 DEF FrameIn
  <2>. QED
    BY <2>6 DEF f
<1>. QED
  BY <1>2 DEF FramesOnLine

LEMMA FramesAfterReset ==
  ASSUME NEW s, NEW r, IsSequence(r), NEW e, NEW o, FramesOnLine(s, r, o)
  PROVE  FramesOnLine(s, Append(r, e), o)
<1>1. ASSUME NEW n \in 1 .. Len(o)
      PROVE  FrameIn(s, Append(r, e), o[n])
  <2>1. FrameIn(s, r, o[n]) /\ o[n].at \in Nat
    BY DEF FramesOnLine, FrameIn
  <2>2. Begins(s, r, o[n].at) => Begins(s, Append(r, e), o[n].at)
    BY <2>1, BeginsAfterReset
  <2>. QED
    BY <2>1, <2>2 DEF FrameIn
<1>. QED
  BY <1>1 DEF FramesOnLine

\* The register without a bit in it.
LEMMA ZeroRegType ==
  Amsat!ZeroReg \in Seq(Bit) /\ Len(Amsat!ZeroReg) = Amsat!WordLen
<1>. DEFINE z == Amsat!ZeroReg
            n == Amsat!WordLen
<1>1. z \in [1 .. n -> Bit] /\ n \in Nat
  BY DEF Amsat!ZeroReg, Amsat!WordLen, Bit
<1>. HIDE DEF z, n
<1>2. z \in Seq(Bit) /\ Len(z) = n
  BY <1>1, FunctionSequence
<1>. QED
  BY <1>2 DEF z, n

\* The decoder starts in the invariant.
LEMMA AmsatInitInv == Amsat!Init => AmsatInv
<1>. SUFFICES ASSUME Amsat!Init PROVE AmsatInv
  OBVIOUS
<1>1. /\ state = "SEARCH_SYNC" /\ dataReg = Amsat!ZeroReg
      /\ bitstream = <<>> /\ rx = <<>> /\ resets = <<>> /\ out = <<>>
  BY DEF Amsat!Init
<1>2. <<>> \in Seq(Bit) /\ Len(<<>>) = 0
  BY EmptySeq
<1>3. IsSequence(<<>>)
  BY <1>2, SequenceOver
<1>4. Amsat!ZeroReg \in Seq(Bit) /\ Len(Amsat!ZeroReg) = Amsat!WordLen
  BY ZeroRegType
<1>5. AmsatTypeOK
  BY <1>1, <1>2, <1>3, <1>4 DEF AmsatTypeOK
<1>6. Amsat!Base = 0 /\ Rest(<<>>, 0) = <<>>
  <2>1. Rest(<<>>, 0) = <<>>
    BY <1>2, RestNone
  <2>. QED
    BY <1>1, <1>2, <2>1 DEF Amsat!Base
<1>7. FramesOnLine(rx, resets, out)
  BY <1>1, <1>2, <1>3 DEF FramesOnLine
<1>8. RegisterOf(rx, resets, Amsat!Base, dataReg)
  BY <1>1 DEF RegisterOf
<1>. QED
  BY <1>1, <1>2, <1>5, <1>6, <1>7, <1>8 DEF AmsatInv

\* What the proofs about the steps use of the invariant.
LEMMA AmsatBuffer ==
  ASSUME AmsatInv
  PROVE  /\ Len(rx) \in Nat /\ Len(bitstream) \in Nat
         /\ Amsat!Base \in Nat /\ Amsat!Base \in 0 .. Len(rx)
         /\ Amsat!Base + Len(bitstream) = Len(rx)
         /\ bitstream = Rest(rx, Amsat!Base)
<1>1. /\ Len(rx) \in Nat /\ Len(bitstream) \in Nat /\ Len(bitstream) <= Len(rx)
      /\ bitstream = Rest(rx, Amsat!Base)
  BY LenProperties DEF AmsatInv, AmsatTypeOK
<1>2. Amsat!Base = Len(rx) - Len(bitstream)
  BY DEF Amsat!Base
<1>. QED
  BY <1>1, <1>2

\* A call of decode() appends the bits that were sent.
LEMMA AmsatDecodeInv ==
  ASSUME AmsatInv, NEW bits \in AmsatChunks, Amsat!Decode(bits)
  PROVE  AmsatInv' /\ Len(rx') >= Len(rx)
<1>1. /\ bitstream' = bitstream \o bits /\ rx' = rx \o bits
      /\ UNCHANGED <<state, dataReg, words, erasures, bitstreamIdx, resets, out>>
  BY DEF Amsat!Decode
<1>2. bits \in Seq(Bit) /\ Len(bits) \in Nat
  BY StreamAssumption, LenProperties DEF StreamAssumption, Bit
<1>3. /\ Len(rx) \in Nat /\ Len(bitstream) \in Nat
      /\ Amsat!Base \in 0 .. Len(rx) /\ Amsat!Base + Len(bitstream) = Len(rx)
      /\ bitstream = Rest(rx, Amsat!Base)
  BY AmsatBuffer
<1>4. bitstream \in Seq(Bit) /\ rx \in Seq(Bit)
  BY DEF AmsatInv, AmsatTypeOK
<1>5. /\ bitstream' \in Seq(Bit) /\ Len(bitstream') = Len(bitstream) + Len(bits)
      /\ rx' \in Seq(Bit) /\ Len(rx') = Len(rx) + Len(bits)
  BY <1>1, <1>2, <1>4, ConcatProperties
<1>6. PICK base \in 0 .. Len(rx) : base = Amsat!Base
  BY <1>3
<1>7. Amsat!Base' = base
  BY <1>2, <1>3, <1>5, <1>6 DEF Amsat!Base
<1>8. bitstream' = Rest(rx', base)
  BY <1>1, <1>2, <1>3, <1>4, <1>6, RestConcat
<1>9. AmsatTypeOK'
  <2>1. AmsatTypeOK
    BY DEF AmsatInv
  <2>. QED
    BY <1>1, <1>5, <2>1 DEF AmsatTypeOK, IsSequence
<1>10. ASSUME RegisterOf(rx, resets, base, dataReg)
       PROVE  RegisterOf(rx', resets', base, dataReg')
  <2>1. CASE base >= Amsat!WordLen
             /\ dataReg = SubSeq(rx, base - Amsat!WordLen + 1, base)
    <3>. DEFINE from == base - Amsat!WordLen + 1
    <3>1. from \in Nat /\ from >= 1 /\ from <= base + 1 /\ base <= Len(rx)
          /\ base \in Nat
      BY <1>3, <2>1 DEF Amsat!WordLen
    <3>. HIDE DEF from
    <3>2. SubSeq(rx \o bits, from, base) = SubSeq(rx, from, base)
      BY <1>2, <1>4, <3>1, PieceStays
    <3>. QED
      BY <1>1, <2>1, <3>2 DEF RegisterOf, from
  <2>. QED
    BY <1>1, <1>10, <2>1 DEF RegisterOf, ResetIn
<1>11. ASSUME NEW first, OpenFrame(rx, resets, words, erasures, first)
       PROVE  OpenFrame(rx', resets', words', erasures', first)
  BY <1>1, <1>2, <1>4, <1>11, OpenFrameStays
<1>12. FramesOnLine(rx', resets', out')
  BY <1>1, <1>2, <1>4, FramesStay DEF AmsatInv
<1>13. Len(bitstream') <= Len(rx')
  BY <1>2, <1>3, <1>5
<1>14. state' = "SEARCH_SYNC" => RegisterOf(rx', resets', base, dataReg')
  BY <1>1, <1>6, <1>10 DEF AmsatInv
<1>15. ASSUME state' = "DECODING"
       PROVE  /\ bitstreamIdx' \in Nat /\ bitstreamIdx' <= Len(bitstream')
              /\ OpenFrame(rx', resets', words', erasures',
                           base + bitstreamIdx' - Amsat!WordLen * Len(words'))
  <2>1. /\ bitstreamIdx \in Nat /\ bitstreamIdx <= Len(bitstream)
        /\ OpenFrame(rx, resets, words, erasures,
                     base + bitstreamIdx - Amsat!WordLen * Len(words))
    BY <1>1, <1>6, <1>15 DEF AmsatInv
  <2>2. bitstreamIdx' <= Len(bitstream')
    BY <1>1, <1>2, <1>3, <1>5, <2>1
  <2>3. OpenFrame(rx', resets', words', erasures',
                  base + bitstreamIdx - Amsat!WordLen * Len(words))
    BY <1>11, <2>1
  <2>. QED
    BY <1>1, <2>1, <2>2, <2>3
<1>16. AmsatInv'
  BY <1>7, <1>8, <1>9, <1>12, <1>13, <1>14, <1>15 DEF AmsatInv
<1>. QED
  BY <1>2, <1>3, <1>5, <1>16

\* Taking everything.
LEMMA RestAll ==
  ASSUME NEW s \in Seq(Bit)
  PROVE  Rest(s, Len(s)) = <<>>
<1>. DEFINE n == Len(s)
            d == Rest(s, n)
<1>1. n \in Nat /\ n \in 0 .. Len(s)
  BY LenProperties
<1>2. d \in Seq(Bit) /\ Len(d) = Len(s) - n
  <2>. HIDE DEF n
  <2>. QED
    BY <1>1, RestProperties
<1>3. Len(d) = 0
  BY <1>1, <1>2
<1>. HIDE DEF d
<1>4. d = <<>>
  BY <1>2, <1>3, EmptySeq
<1>. QED
  BY <1>4 DEF d

\* The buffer behind the first n bits is behind n more bits of the line.
LEMMA AmsatErased ==
  ASSUME AmsatInv, NEW n \in 0 .. Len(bitstream),
         bitstream' = Rest(bitstream, n), rx' = rx
  PROVE  /\ Amsat!Base' = Amsat!Base + n
         /\ bitstream' \in Seq(Bit)
         /\ Len(bitstream') = Len(bitstream) - n
         /\ Len(bitstream') <= Len(rx')
         /\ bitstream' = Rest(rx', Amsat!Base')
<1>1. /\ Len(rx) \in Nat /\ Len(bitstream) \in Nat
      /\ Amsat!Base \in 0 .. Len(rx) /\ Amsat!Base + Len(bitstream) = Len(rx)
      /\ bitstream = Rest(rx, Amsat!Base)
      /\ bitstream \in Seq(Bit) /\ rx \in Seq(Bit)
  BY AmsatBuffer DEF AmsatInv, AmsatTypeOK
<1>2. PICK base \in 0 .. Len(rx) : base = Amsat!Base
  BY <1>1
<1>3. bitstream' \in Seq(Bit) /\ Len(bitstream') = Len(bitstream) - n
  BY <1>1, RestProperties
<1>4. Amsat!Base' = base + n
  BY <1>1, <1>2, <1>3 DEF Amsat!Base
<1>5. n \in 0 .. Len(rx) - base
  BY <1>1, <1>2
<1>6. Rest(Rest(rx, base), n) = Rest(rx, base + n)
  BY <1>1, <1>5, RestRest
<1>7. Len(bitstream') <= Len(rx')
  BY <1>1, <1>3
<1>. QED
  BY <1>1, <1>2, <1>3, <1>4, <1>6, <1>7

\* A message on the "reset" port empties the buffer and keeps the register.
LEMMA AmsatResetInv ==
  ASSUME AmsatInv, Amsat!Reset
  PROVE  AmsatInv' /\ rx' = rx
<1>1. /\ state' = "SEARCH_SYNC" /\ bitstream' = <<>>
      /\ resets' = Append(resets, Len(rx))
      /\ UNCHANGED <<dataReg, rx, out>>
  BY DEF Amsat!Reset
<1>2. /\ AmsatTypeOK /\ FramesOnLine(rx, resets, out)
      /\ bitstream \in Seq(Bit) /\ IsSequence(resets)
      /\ Len(bitstream) \in Nat /\ Len(bitstream) \in 0 .. Len(bitstream)
  BY LenProperties DEF AmsatInv, AmsatTypeOK
<1>3. bitstream' = Rest(bitstream, Len(bitstream))
  BY <1>1, <1>2, RestAll
<1>4. PICK n \in 0 .. Len(bitstream) : n = Len(bitstream)
  BY <1>2
<1>5. /\ Amsat!Base' = Amsat!Base + n
      /\ bitstream' \in Seq(Bit)
      /\ Len(bitstream') <= Len(rx')
      /\ bitstream' = Rest(rx', Amsat!Base')
  BY <1>1, <1>3, <1>4, AmsatErased
<1>6. Amsat!Base' = Len(rx)
  BY <1>4, <1>5, AmsatBuffer
<1>7. /\ IsSequence(resets') /\ Len(resets) \in Nat
      /\ Len(resets') = Len(resets) + 1
      /\ resets'[Len(resets) + 1] = Len(rx)
  BY <1>1, <1>2, SequenceAppend
<1>8. ResetIn(resets', Len(rx), Len(rx))
  <2>1. Len(resets) + 1 \in 1 .. Len(resets') /\ Len(rx) \in Len(rx) .. Len(rx)
    BY <1>7, AmsatBuffer
  <2>. QED
    BY <1>7, <2>1 DEF ResetIn
<1>9. RegisterOf(rx', resets', Amsat!Base', dataReg')
  BY <1>6, <1>8 DEF RegisterOf
<1>10. FramesOnLine(rx', resets', out')
  BY <1>1, <1>2, FramesAfterReset
<1>11. AmsatTypeOK'
  <2>1. IsSequence(resets)'
    BY <1>7 DEF IsSequence
  <2>. QED
    BY <1>1, <1>2, <1>5, <2>1 DEF AmsatTypeOK
<1>. QED
  BY <1>1, <1>5, <1>9, <1>10, <1>11 DEF AmsatInv

\* The register when p bits of the buffer are shifted in: what is left of its
\* old bits, and the bits of the line.
LEMMA RegAfterProperties ==
  ASSUME AmsatInv, NEW p \in 1 .. Len(bitstream)
  PROVE  /\ Amsat!RegAfter(p) \in Seq(Bit)
         /\ Len(Amsat!RegAfter(p)) = Amsat!WordLen
         /\ \A k \in 1 .. Amsat!WordLen :
              Amsat!RegAfter(p)[k] =
                IF p + k <= Amsat!WordLen THEN dataReg[p + k]
                                          ELSE rx[Amsat!Base + p + k - Amsat!WordLen]
<1>. DEFINE c == dataReg \o bitstream
            d == Amsat!RegAfter(p)
<1>1. /\ dataReg \in Seq(Bit) /\ bitstream \in Seq(Bit) /\ rx \in Seq(Bit)
      /\ Len(dataReg) = 10 /\ Len(bitstream) \in Nat /\ Len(rx) \in Nat
      /\ Amsat!Base \in 0 .. Len(rx) /\ Amsat!Base + Len(bitstream) = Len(rx)
      /\ bitstream = Rest(rx, Amsat!Base)
  BY AmsatBuffer DEF AmsatInv, AmsatTypeOK, Amsat!WordLen
<1>2. PICK base \in 0 .. Len(rx) : base = Amsat!Base
  BY <1>1
<1>3. /\ c \in Seq(Bit) /\ Len(c) = 10 + Len(bitstream)
      /\ \A k \in 1 .. 10 + Len(bitstream) :
           c[k] = IF k <= 10 THEN dataReg[k] ELSE bitstream[k - 10]
  <2>1. /\ c \in Seq(Bit) /\ Len(c) = Len(dataReg) + Len(bitstream)
        /\ \A k \in 1 .. Len(dataReg) + Len(bitstream) :
             c[k] = IF k <= Len(dataReg) THEN dataReg[k]
                                         ELSE bitstream[k - Len(dataReg)]
    <3>1. dataReg \in Seq(Bit) /\ bitstream \in Seq(Bit)
      BY <1>1
    <3>. QED
      BY <3>1, ConcatProperties
  <2>. HIDE DEF c
  <2>. QED
    BY <1>1, <2>1
<1>4. \A k \in 1 .. Len(rx) - base : bitstream[k] = rx[k + base]
  BY <1>1, <1>2, RestProperties
<1>5. d = SubSeq(c, p + 1, p + 10)
  BY DEF Amsat!RegAfter, Amsat!WordLen
<1>. HIDE DEF c, d
<1>6. /\ p + 1 \in Nat /\ p + 10 \in Nat /\ p + 1 >= 1 /\ p + 1 <= (p + 10) + 1
      /\ p + 10 <= Len(c) /\ (p + 10) - (p + 1) + 1 = 10
  BY <1>1, <1>3
<1>7. /\ d \in Seq(Bit) /\ Len(d) = 10
      /\ \A k \in 1 .. 10 : d[k] = c[(p + 1) + k - 1]
  BY <1>3, <1>5, <1>6, PieceProperties
<1>8. ASSUME NEW k \in 1 .. 10
      PROVE  d[k] = IF p + k <= 10 THEN dataReg[p + k] ELSE rx[base + p + k - 10]
  <2>1. (p + 1) + k - 1 = p + k /\ p + k \in 1 .. 10 + Len(bitstream)
    BY <1>1
  <2>2. d[k] = IF p + k <= 10 THEN dataReg[p + k] ELSE bitstream[p + k - 10]
    <3>1. d[k] = c[p + k]
      BY <1>7, <2>1
    <3>. DEFINE j == p + k
    <3>2. j \in 1 .. 10 + Len(bitstream)
      BY <2>1
    <3>. HIDE DEF j
    <3>3. c[j] = IF j <= 10 THEN dataReg[j] ELSE bitstream[j - 10]
      BY <1>3, <3>2
    <3>. QED
      BY <3>1, <3>3 DEF j
  <2>3. CASE ~ (p + k <= 10)
    <3>1. p + k - 10 \in 1 .. Len(rx) - base
          /\ (p + k - 10) + base = base + p + k - 10
      BY <1>1, <1>2, <2>3
    <3>. QED
      BY <1>4, <2>2, <2>3, <3>1
  <2>. QED
    BY <2>2, <2>3
<1>. QED
  BY <1>2, <1>7, <1>8 DEF d, Amsat!WordLen

\* Ten bits of the line in the register are a piece of the line.
LEMMA RegisterIsPiece ==
  ASSUME AmsatInv, NEW c \in Seq(Bit), Len(c) = Amsat!WordLen,
         NEW at \in Nat, at >= Amsat!WordLen, at <= Len(rx),
         \A k \in 1 .. Amsat!WordLen : c[k] = rx[at + k - Amsat!WordLen]
  PROVE  c = SubSeq(rx, at - Amsat!WordLen + 1, at)
<1>. DEFINE n == Amsat!WordLen
            from == at - n + 1
            d == SubSeq(rx, from, at)
<1>1. /\ from \in Nat /\ from >= 1 /\ from <= at + 1 /\ at - from + 1 = n
      /\ rx \in Seq(Bit)
  BY DEF AmsatInv, AmsatTypeOK, Amsat!WordLen
<1>2. \A k \in 1 .. n : from + k - 1 = at + k - n
  BY DEF Amsat!WordLen
<1>3. n \in Nat
  BY DEF Amsat!WordLen
<1>. HIDE DEF n, from
<1>4. /\ d \in Seq(Bit) /\ Len(d) = n
      /\ \A k \in 1 .. n : d[k] = rx[from + k - 1]
  BY <1>1, PieceProperties
<1>. HIDE DEF d
<1>5. ASSUME NEW k \in 1 .. Len(c)
      PROVE  c[k] = d[k]
  <2>1. k \in 1 .. n
    BY DEF n
  <2>. QED
    BY <1>2, <1>4, <2>1 DEF n
<1>6. c = d
  BY <1>4, <1>5, SeqEqual DEF n
<1>. QED
  BY <1>6 DEF d, from, n

\* What the search takes for a control symbol is one of the line, or began with
\* zeros that were in the register, or with bits from before a reset.
LEMMA ControlBehind ==
  ASSUME AmsatInv, state = "SEARCH_SYNC", NEW p \in 1 .. Len(bitstream),
         Amsat!RegAfter(p) \in {Control, Amsat!Inverted}
  PROVE  Begins(rx, resets, Amsat!Base + p)
<1>. DEFINE c == Amsat!RegAfter(p)
<1>1. /\ Len(rx) \in Nat /\ rx \in Seq(Bit)
      /\ Amsat!Base \in Nat /\ Amsat!Base + Len(bitstream) = Len(rx)
      /\ Len(bitstream) \in Nat
  BY AmsatBuffer DEF AmsatInv, AmsatTypeOK
<1>2. PICK base \in Nat : base = Amsat!Base
  BY <1>1
<1>3. /\ c \in Seq(Bit) /\ Len(c) = 10
      /\ \A k \in 1 .. 10 :
           c[k] = IF p + k <= 10 THEN dataReg[p + k] ELSE rx[base + p + k - 10]
  BY <1>2, RegAfterProperties DEF Amsat!WordLen
<1>4. RegisterOf(rx, resets, base, dataReg) /\ c \in {Control, Amsat!Inverted}
  BY <1>2 DEF AmsatInv
<1>. HIDE DEF c
<1>5. p \in Nat /\ p >= 1 /\ base + p \in Nat /\ base + p <= Len(rx)
  BY <1>1, <1>2
<1>6. ASSUME \A k \in 1 .. 10 : c[k] = rx[base + p + k - 10], base + p >= 10
      PROVE  ControlIn(rx, base + p)
  <2>. DEFINE at == base + p
  <2>1. at \in Nat /\ at >= 10 /\ at <= Len(rx)
        /\ \A k \in 1 .. 10 : c[k] = rx[at + k - 10]
    BY <1>5, <1>6
  <2>. HIDE DEF at
  <2>2. c = SubSeq(rx, at - 10 + 1, at)
    BY <1>3, <2>1, RegisterIsPiece DEF Amsat!WordLen
  <2>3. SubSeq(c, 0 + 1, 10) = c
    BY <1>3, SubSeqFull
  <2>4. at - (10 - 0) + 1 = at - 10 + 1 /\ at - (10 - 0) + (10 - 0) = at
    BY <2>1
  <2>5. SubSeq(rx, at - (10 - 0) + 1, at - (10 - 0) + (10 - 0))
          = SubSeq(c, 0 + 1, 10)
    BY <2>2, <2>3, <2>4
  <2>6. 0 \in 0 .. 10 - 1 /\ at >= 10 - 0 /\ \A k \in 1 .. 0 : c[k] = 0
    BY <2>1
  <2>7. ControlIn(rx, at)
    BY <1>4, <2>5, <2>6 DEF ControlIn, Amsat!WordLen
  <2>. QED
    BY <2>7 DEF at
<1>7. CASE p >= 10
  <2>1. \A k \in 1 .. 10 : ~ (p + k <= 10)
    BY <1>5, <1>7
  <2>2. \A k \in 1 .. 10 : c[k] = rx[base + p + k - 10]
    BY <1>3, <2>1
  <2>3. base + p >= 10
    BY <1>5, <1>7
  <2>. QED
    BY <1>2, <1>6, <2>2, <2>3 DEF Begins
<1>8. CASE p < 10 /\ base >= 10 /\ dataReg = SubSeq(rx, base - 10 + 1, base)
  <2>. DEFINE from == base - 10 + 1
  <2>1. from \in Nat /\ from >= 1 /\ from <= base + 1 /\ base <= Len(rx)
        /\ base - from + 1 = 10
    BY <1>1, <1>2, <1>8
  <2>2. \A k \in 1 .. 10 : from + (p + k) - 1 = base + p + k - 10
    BY <1>5
  <2>. HIDE DEF from
  <2>3. \A k \in 1 .. 10 : dataReg[k] = rx[from + k - 1]
    BY <1>1, <1>8, <2>1, PieceProperties DEF from
  <2>4. \A k \in 1 .. 10 : c[k] = rx[base + p + k - 10]
    <3>. TAKE k \in 1 .. 10
    <3>1. CASE p + k <= 10
      <4>. DEFINE j == p + k
      <4>1. j \in 1 .. 10 /\ from + j - 1 = base + p + k - 10
        <5>1. j \in 1 .. 10
          BY <1>5, <3>1
        <5>2. from + (p + k) - 1 = base + p + k - 10
          BY <2>2
        <5>. QED
          BY <5>1, <5>2
      <4>2. c[k] = dataReg[j]
        BY <1>3, <3>1
      <4>. HIDE DEF j
      <4>. QED
        BY <2>3, <4>1, <4>2
    <3>. QED
      BY <1>3, <3>1
  <2>5. base + p >= 10
    BY <1>5, <1>8
  <2>. QED
    BY <1>2, <1>6, <2>4, <2>5 DEF Begins
<1>9. CASE p < 10 /\ dataReg = Amsat!ZeroReg
  <2>. DEFINE zeros == 10 - p
              e == SubSeq(rx, base + 1, base + p)
              f == SubSeq(c, zeros + 1, 10)
  <2>1. zeros \in 0 .. 10 - 1 /\ zeros \in Nat /\ 10 - zeros = p
    BY <1>5, <1>9
  <2>2. \A k \in 1 .. zeros : c[k] = 0
    <3>. TAKE k \in 1 .. zeros
    <3>1. k \in 1 .. 10 /\ p + k <= 10 /\ p + k \in 1 .. 10
      BY <1>5, <1>9
    <3>2. c[k] = dataReg[p + k]
      BY <1>3, <3>1
    <3>. QED
      BY <1>9, <3>1, <3>2 DEF Amsat!ZeroReg, Amsat!WordLen
  <2>3. /\ zeros + 1 \in Nat /\ zeros + 1 >= 1 /\ zeros + 1 <= 10 + 1
        /\ 10 - (zeros + 1) + 1 = p
        /\ \A k \in 1 .. p :
             /\ (zeros + 1) + k - 1 \in 1 .. 10
             /\ ~ (p + ((zeros + 1) + k - 1) <= 10)
             /\ base + p + ((zeros + 1) + k - 1) - 10 = (base + 1) + k - 1
    BY <1>5, <1>9
  <2>. HIDE DEF zeros
  <2>4. /\ f \in Seq(Bit) /\ Len(f) = p
        /\ \A k \in 1 .. p : f[k] = c[(zeros + 1) + k - 1]
    <3>1. c \in Seq(Bit) /\ 10 \in Nat /\ 10 <= Len(c)
      BY <1>3
    <3>. DEFINE from == zeros + 1
    <3>2. from \in Nat /\ from >= 1 /\ from <= 10 + 1 /\ 10 - from + 1 = p
      BY <2>3
    <3>. HIDE DEF from
    <3>3. /\ SubSeq(c, from, 10) \in Seq(Bit)
          /\ Len(SubSeq(c, from, 10)) = 10 - from + 1
          /\ \A k \in 1 .. 10 - from + 1 :
               SubSeq(c, from, 10)[k] = c[from + k - 1]
      BY <3>1, <3>2, PieceProperties
    <3>. QED
      BY <3>2, <3>3 DEF from
  <2>5. base + 1 \in Nat /\ base + 1 >= 1 /\ base + 1 <= (base + p) + 1
        /\ (base + p) - (base + 1) + 1 = p
    BY <1>5
  <2>6. /\ e \in Seq(Bit) /\ Len(e) = p
        /\ \A k \in 1 .. p : e[k] = rx[(base + 1) + k - 1]
    BY <1>1, <1>5, <2>5, PieceProperties
  <2>. HIDE DEF e, f
  <2>7. \A k \in 1 .. p : e[k] = f[k]
    BY <1>3, <2>3, <2>4, <2>6
  <2>8. e = f
    BY <2>4, <2>6, <2>7, SeqEqual
  <2>. DEFINE at == base + p
  <2>9. at - (10 - zeros) + 1 = base + 1
        /\ at - (10 - zeros) + (10 - zeros) = base + p
        /\ at >= 10 - zeros
    BY <1>5, <2>1
  <2>. HIDE DEF at
  <2>10. SubSeq(rx, at - (10 - zeros) + 1, at - (10 - zeros) + (10 - zeros))
           = SubSeq(c, zeros + 1, 10)
    BY <2>8, <2>9 DEF e, f
  <2>11. ControlIn(rx, at)
    BY <1>4, <2>1, <2>2, <2>9, <2>10 DEF ControlIn, Amsat!WordLen
  <2>. QED
    BY <1>2, <2>11 DEF Begins, at
<1>10. CASE p < 10 /\ ResetIn(resets, base, base)
  <2>1. base .. base \subseteq base + p - 10 + 1 .. base + p
    BY <1>5, <1>10
  <2>. QED
    BY <1>2, <1>10, <2>1 DEF Begins, ResetIn, Amsat!WordLen
<1>11. p >= 10 \/ p < 10
  BY <1>5
<1>. QED
  BY <1>4, <1>7, <1>8, <1>9, <1>10, <1>11 DEF RegisterOf, Amsat!WordLen

\* No bit has found its way behind a control symbol.
LEMMA AmsatSyncNotFoundInv ==
  ASSUME AmsatInv, Amsat!SyncNotFound
  PROVE  AmsatInv' /\ rx' = rx
<1>1. /\ state = "SEARCH_SYNC" /\ Len(bitstream) > 10
      /\ dataReg' = Amsat!RegAfter(Len(bitstream))
      /\ bitstream' = <<>>
      /\ UNCHANGED <<state, rx, resets, out>>
  BY DEF Amsat!SyncNotFound, Amsat!Turn, Amsat!WordLen
<1>2. /\ AmsatTypeOK /\ FramesOnLine(rx, resets, out)
      /\ bitstream \in Seq(Bit)
      /\ Len(bitstream) \in Nat /\ Len(rx) \in Nat
      /\ Amsat!Base \in Nat /\ Amsat!Base + Len(bitstream) = Len(rx)
  BY AmsatBuffer DEF AmsatInv, AmsatTypeOK
<1>3. PICK p \in 1 .. Len(bitstream) : p = Len(bitstream)
  BY <1>1, <1>2
<1>4. p \in 0 .. Len(bitstream) /\ bitstream' = Rest(bitstream, p)
  BY <1>1, <1>2, <1>3, RestAll
<1>5. /\ Amsat!Base' = Amsat!Base + p
      /\ bitstream' \in Seq(Bit)
      /\ Len(bitstream') <= Len(rx')
      /\ bitstream' = Rest(rx', Amsat!Base')
  BY <1>1, <1>4, AmsatErased
<1>6. PICK base \in Nat : base = Amsat!Base
  BY <1>2
<1>7. /\ dataReg' = Amsat!RegAfter(p)
      /\ dataReg' \in Seq(Bit) /\ Len(dataReg') = Amsat!WordLen
      /\ \A k \in 1 .. 10 :
           dataReg'[k] = IF p + k <= 10 THEN dataReg[p + k]
                                        ELSE rx[base + p + k - 10]
  BY <1>1, <1>3, <1>6, RegAfterProperties DEF Amsat!WordLen
<1>8. dataReg' = SubSeq(rx, (base + p) - Amsat!WordLen + 1, base + p)
  <2>. DEFINE c == Amsat!RegAfter(p)
              at == base + p
  <2>1. \A k \in 1 .. 10 : ~ (p + k <= 10)
    BY <1>1, <1>3
  <2>2. c \in Seq(Bit) /\ Len(c) = Amsat!WordLen
        /\ \A k \in 1 .. 10 : c[k] = rx[at + k - 10]
    BY <1>7, <2>1
  <2>3. at \in Nat /\ at >= 10 /\ at <= Len(rx)
    BY <1>1, <1>2, <1>3, <1>6
  <2>. HIDE DEF c, at
  <2>4. c = SubSeq(rx, at - Amsat!WordLen + 1, at)
    BY <2>2, <2>3, RegisterIsPiece DEF Amsat!WordLen
  <2>. QED
    BY <1>7, <2>4 DEF c, at
<1>9. RegisterOf(rx', resets', Amsat!Base', dataReg')
  <2>1. base + p >= 10
    BY <1>1, <1>3, <1>6
  <2>. QED
    BY <1>1, <1>5, <1>6, <1>8, <2>1 DEF RegisterOf, Amsat!WordLen
<1>10. AmsatTypeOK'
  <2>1. IsSequence(resets)'
    BY <1>1, <1>2 DEF AmsatTypeOK, IsSequence
  <2>. QED
    BY <1>1, <1>2, <1>5, <1>7, <2>1 DEF AmsatTypeOK
<1>. QED
  BY <1>1, <1>2, <1>5, <1>9, <1>10 DEF AmsatInv

\* The least of a set of numbers is in it, and not above the others.
LEMMA MinProperties ==
  ASSUME NEW S, S \subseteq Nat, S # {}
  PROVE  Amsat!Min(S) \in S /\ \A n \in S : Amsat!Min(S) <= n
<1>1. \E least \in S : \A n \in S : least <= n
  BY LeastNat
<1>. QED
  BY <1>1 DEF Amsat!Min

\* A control symbol opens a frame, without a word yet.
LEMMA AmsatSyncFoundInv ==
  ASSUME AmsatInv, Amsat!SyncFound
  PROVE  AmsatInv' /\ rx' = rx
<1>1. /\ state = "SEARCH_SYNC" /\ Amsat!SyncsAt # {}
      /\ Amsat!BehindControl(Amsat!Min(Amsat!SyncsAt))
      /\ state' = "DECODING" /\ words' = <<>> /\ erasures' = {}
      /\ UNCHANGED <<rx, resets, out>>
  BY DEF Amsat!SyncFound, Amsat!Turn
<1>2. PICK p \in Amsat!SyncsAt : p = Amsat!Min(Amsat!SyncsAt)
  <2>1. Amsat!SyncsAt \subseteq Nat
    <3>1. \A q \in 1 .. Len(bitstream) : q \in Nat
      OBVIOUS
    <3>. QED
      BY <3>1 DEF Amsat!SyncsAt
  <2>. QED
    BY <1>1, <2>1, MinProperties
<1>3. /\ p \in 1 .. Len(bitstream)
      /\ Amsat!RegAfter(p) \in {Control, Amsat!Inverted}
  BY <1>2 DEF Amsat!SyncsAt
<1>4. Begins(rx, resets, Amsat!Base + p)
  BY <1>1, <1>3, ControlBehind
<1>5. /\ AmsatTypeOK /\ FramesOnLine(rx, resets, out)
      /\ Len(bitstream) \in Nat /\ Len(rx) \in Nat
      /\ Amsat!Base \in Nat /\ Amsat!Base + Len(bitstream) = Len(rx)
  BY AmsatBuffer DEF AmsatInv
<1>6. PICK n \in 0 .. Len(bitstream) :
        /\ n <= p
        /\ dataReg' = Amsat!RegAfter(p)
        /\ bitstream' = Rest(bitstream, n)
        /\ bitstreamIdx' = p - n
  <2>. DEFINE n == IF p > Amsat!WordLen + 1 THEN p - (Amsat!WordLen - 1) ELSE 1
  <2>1. n \in 0 .. Len(bitstream) /\ n <= p
    BY <1>3, <1>5 DEF Amsat!WordLen
  <2>2. /\ dataReg' = Amsat!RegAfter(p)
        /\ bitstream' = Rest(bitstream, n)
        /\ bitstreamIdx' = p - n
    BY <1>1, <1>2 DEF Amsat!BehindControl, Rest
  <2>. QED
    BY <2>1, <2>2
<1>7. /\ Amsat!Base' = Amsat!Base + n
      /\ bitstream' \in Seq(Bit)
      /\ Len(bitstream') = Len(bitstream) - n
      /\ Len(bitstream') <= Len(rx')
      /\ bitstream' = Rest(rx', Amsat!Base')
  BY <1>1, <1>6, AmsatErased
<1>8. dataReg' \in Seq(Bit) /\ Len(dataReg') = Amsat!WordLen
  BY <1>3, <1>6, RegAfterProperties
<1>9. /\ bitstreamIdx' \in Nat /\ bitstreamIdx' <= Len(bitstream')
      /\ Amsat!Base' + bitstreamIdx' - Amsat!WordLen * 0 = Amsat!Base + p
      /\ Amsat!Base + p \in Nat
      /\ Amsat!Base + p + Amsat!WordLen * 0 <= Len(rx)
  BY <1>3, <1>5, <1>6, <1>7 DEF Amsat!WordLen
<1>10. Len(<<>>) = 0 /\ IsSequence(<<>>) /\ 0 <= FrameWords
  <2>1. <<>> \in Seq(Bit) /\ Len(<<>>) = 0
    BY EmptySeq
  <2>2. IsSequence(<<>>)
    BY <2>1, SequenceOver
  <2>. QED
    BY <2>1, <2>2, StreamAssumption DEF StreamAssumption
<1>11. <<>> = ValuesIn(rx, Amsat!Base + p, 0)
       /\ {} = InexactIn(rx, Amsat!Base + p, 0)
  <2>. DEFINE v == ValuesIn(rx, Amsat!Base + p, 0)
  <2>1. /\ IsSequence(v) /\ Len(v) = 0
        /\ InexactIn(rx, Amsat!Base + p, 0)
             = {k \in 1 .. 0 : ~ Amsat!Lookup[WordAt(rx, Amsat!Base + p, k)].exact}
    BY WordsProperties
  <2>. HIDE DEF v
  <2>2. v = <<>>
    BY <2>1, EmptySeq DEF IsSequence
  <2>3. 1 .. 0 = {}
    OBVIOUS
  <2>. QED
    BY <2>1, <2>2, <2>3 DEF v
<1>12. OpenFrame(rx, resets, <<>>, {}, Amsat!Base + p)
  <2>. HIDE DEF ValuesIn, InexactIn
  <2>. QED
    BY <1>4, <1>9, <1>10, <1>11 DEF OpenFrame
<1>13. OpenFrame(rx', resets', words', erasures',
                 Amsat!Base' + bitstreamIdx' - Amsat!WordLen * Len(words'))
  BY <1>1, <1>9, <1>10, <1>12
<1>14. AmsatTypeOK'
  <2>1. IsSequence(resets)'
    BY <1>1, <1>5 DEF AmsatTypeOK, IsSequence
  <2>. QED
    BY <1>1, <1>5, <1>7, <1>8, <2>1 DEF AmsatTypeOK
<1>. QED
  BY <1>1, <1>5, <1>7, <1>9, <1>13, <1>14 DEF AmsatInv

\* With too few bits a call ends as it began.
LEMMA AmsatTooFewBitsInv ==
  ASSUME AmsatInv, Amsat!TooFewBits
  PROVE  AmsatInv' /\ rx' = rx
BY DEF Amsat!TooFewBits, Amsat!machine, AmsatInv, AmsatTypeOK, IsSequence,
       Amsat!Base

\* The words of this call are words of the buffer, and the frame's with those
\* there were are the ones behind its control symbol.
LEMMA WordsCollected ==
  ASSUME AmsatInv, state = "DECODING"
  PROVE  \E n \in Nat, m \in Nat, first \in Nat :
           /\ n = Amsat!WordsNow /\ m = Len(words)
           /\ first = Amsat!Base + bitstreamIdx - Amsat!WordLen * m
           /\ m + n <= FrameWords
           /\ bitstreamIdx + Amsat!WordLen * n \in Nat
           /\ bitstreamIdx + Amsat!WordLen * n <= Len(bitstream)
           /\ IsSequence(Amsat!AllWords) /\ Len(Amsat!AllWords) = m + n
           /\ OpenFrame(rx, resets, Amsat!AllWords, Amsat!AllErasures, first)
<1>. DEFINE m == Len(words)
            n == Amsat!WordsNow
            base == Amsat!Base
            idx == bitstreamIdx
            first == base + idx - Amsat!WordLen * m
<1>1. /\ base \in Nat /\ base \in 0 .. Len(rx) /\ base + Len(bitstream) = Len(rx)
      /\ Len(rx) \in Nat /\ Len(bitstream) \in Nat /\ rx \in Seq(Bit)
      /\ bitstream = Rest(rx, base)
  BY AmsatBuffer DEF AmsatInv, AmsatTypeOK
<1>2. /\ idx \in Nat /\ idx <= Len(bitstream)
      /\ OpenFrame(rx, resets, words, erasures, first)
  BY DEF AmsatInv
<1>3. /\ IsSequence(words) /\ m <= FrameWords /\ m \in Nat
      /\ first \in Nat /\ first + Amsat!WordLen * m <= Len(rx)
      /\ Begins(rx, resets, first)
      /\ words = ValuesIn(rx, first, m)
      /\ erasures = InexactIn(rx, first, m)
  BY <1>2, LenProperties DEF OpenFrame, IsSequence
<1>4. n \in Nat /\ m + n <= FrameWords /\ idx + 10 * n <= Len(bitstream)
  <2>. DEFINE a == (Len(bitstream) - idx) \div 10
              b == FrameWords - m
  <2>1. a \in Nat /\ b \in Nat /\ 10 * a <= Len(bitstream) - idx
    BY <1>1, <1>2, <1>3, StreamAssumption DEF StreamAssumption
  <2>2. n = Amsat!Min({a, b})
    BY DEF Amsat!WordsNow, Amsat!WordLen
  <2>. HIDE DEF a, b
  <2>3. {a, b} \subseteq Nat /\ {a, b} # {}
    BY <2>1
  <2>4. Amsat!Min({a, b}) \in {a, b}
        /\ Amsat!Min({a, b}) <= a /\ Amsat!Min({a, b}) <= b
    BY <2>3, MinProperties
  <2>. HIDE DEF n
  <2>5. n \in Nat /\ n <= a /\ n <= b
    BY <2>1, <2>2, <2>4
  <2>. QED
    BY <1>1, <1>2, <1>3, <2>1, <2>5, StreamAssumption DEF StreamAssumption, b
<1>. HIDE DEF m, n, base, idx, first
<1>5. base + idx = first + Amsat!WordLen * m
  BY <1>1, <1>2, <1>3 DEF first, Amsat!WordLen
<1>6. idx + Amsat!WordLen * n \in Nat /\ idx + Amsat!WordLen * n <= Len(rx) - base
      /\ idx + Amsat!WordLen * n <= Len(bitstream)
  BY <1>1, <1>2, <1>4 DEF Amsat!WordLen
<1>7. /\ ValuesIn(bitstream, idx, n) = ValuesIn(rx, first + Amsat!WordLen * m, n)
      /\ InexactIn(bitstream, idx, n) = InexactIn(rx, first + Amsat!WordLen * m, n)
  BY <1>1, <1>2, <1>4, <1>5, <1>6, WordsOfRest
<1>8. /\ Amsat!AllWords = Joined(words, ValuesIn(bitstream, idx, n))
      /\ Amsat!AllErasures = erasures \cup Behind(m, InexactIn(bitstream, idx, n))
  BY DEF Amsat!AllWords, Amsat!AllErasures, Amsat!NewWords, ValuesIn, InexactIn,
         Behind, Joined, m, n, idx
<1>9. /\ Amsat!AllWords = ValuesIn(rx, first, m + n)
      /\ Amsat!AllErasures = InexactIn(rx, first, m + n)
  <2>. DEFINE there == first + Amsat!WordLen * m
              all == m + n
  <2>1. first \in Nat /\ m \in Nat /\ n \in Nat /\ there \in Nat /\ all \in Nat
    BY <1>3, <1>4 DEF Amsat!WordLen
  <2>2. there = first + Amsat!WordLen * m /\ all = m + n
    OBVIOUS
  <2>3. /\ ValuesIn(bitstream, idx, n) = ValuesIn(rx, there, n)
        /\ InexactIn(bitstream, idx, n) = InexactIn(rx, there, n)
    BY <1>7
  <2>. HIDE DEF there, all
  <2>4. /\ ValuesIn(rx, first, all)
             = Joined(ValuesIn(rx, first, m), ValuesIn(rx, there, n))
        /\ InexactIn(rx, first, all)
             = InexactIn(rx, first, m) \cup Behind(m, InexactIn(rx, there, n))
    BY <2>1, <2>2, WordsAppend
  <2>. QED
    BY <1>3, <1>8, <2>2, <2>3, <2>4
<1>10. m + n \in Nat /\ first + Amsat!WordLen * (m + n) <= Len(rx)
  <2>1. \A at, b, j, k, l, len \in Nat :
          b + j = at + 10 * k /\ j + 10 * l <= len - b
            => k + l \in Nat /\ at + 10 * (k + l) <= len
    OBVIOUS
  <2>2. base + idx = first + 10 * m /\ idx + 10 * n <= Len(rx) - base
    BY <1>5, <1>6 DEF Amsat!WordLen
  <2>. QED
    BY <1>1, <1>2, <1>3, <1>4, <2>1, <2>2 DEF Amsat!WordLen
<1>11. IsSequence(Amsat!AllWords) /\ Len(Amsat!AllWords) = m + n
  BY <1>9, <1>10, WordsProperties
<1>12. OpenFrame(rx, resets, Amsat!AllWords, Amsat!AllErasures, first)
  BY <1>3, <1>4, <1>9, <1>10, <1>11 DEF OpenFrame
<1>. QED
  BY <1>3, <1>4, <1>6, <1>11, <1>12 DEF m, n, base, idx, first

\* No frame complete yet.
LEMMA AmsatWordsTakenInv ==
  ASSUME AmsatInv, Amsat!WordsTaken
  PROVE  AmsatInv' /\ rx' = rx
<1>1. /\ state = "DECODING" /\ state' = "DECODING"
      /\ words' = Amsat!AllWords /\ erasures' = Amsat!AllErasures
      /\ bitstreamIdx' = bitstreamIdx + Amsat!WordLen * Amsat!WordsNow
      /\ UNCHANGED <<dataReg, bitstream, rx, resets, out>>
  BY DEF Amsat!WordsTaken, Amsat!Turn
<1>2. PICK n \in Nat, m \in Nat, first \in Nat :
        /\ n = Amsat!WordsNow /\ m = Len(words)
        /\ first = Amsat!Base + bitstreamIdx - Amsat!WordLen * m
        /\ m + n <= FrameWords
        /\ bitstreamIdx + Amsat!WordLen * n \in Nat
        /\ bitstreamIdx + Amsat!WordLen * n <= Len(bitstream)
        /\ IsSequence(Amsat!AllWords) /\ Len(Amsat!AllWords) = m + n
        /\ OpenFrame(rx, resets, Amsat!AllWords, Amsat!AllErasures, first)
  BY <1>1, WordsCollected
<1>3. Amsat!Base \in Nat /\ bitstreamIdx \in Nat
  BY <1>1, AmsatBuffer DEF AmsatInv
<1>4. bitstreamIdx' = bitstreamIdx + Amsat!WordLen * n
  BY <1>1, <1>2
<1>5. Len(words') = m + n
  BY <1>1, <1>2
<1>6. Amsat!Base' = Amsat!Base
  BY <1>1 DEF Amsat!Base
<1>7. Amsat!Base + bitstreamIdx' - Amsat!WordLen * (m + n) = first
  <2>1. \A b, j, k, l, at \in Nat :
          at = b + j - 10 * k => b + (j + 10 * l) - 10 * (k + l) = at
    OBVIOUS
  <2>. QED
    BY <1>2, <1>3, <1>4, <2>1 DEF Amsat!WordLen
<1>8. OpenFrame(rx', resets', words', erasures', first)
  BY <1>1, <1>2
<1>9. /\ bitstreamIdx' \in Nat /\ bitstreamIdx' <= Len(bitstream')
      /\ OpenFrame(rx', resets', words', erasures',
                   Amsat!Base' + bitstreamIdx' - Amsat!WordLen * Len(words'))
  BY <1>1, <1>2, <1>4, <1>5, <1>6, <1>7, <1>8
<1>10. AmsatTypeOK'
  BY <1>1 DEF AmsatInv, AmsatTypeOK, IsSequence
<1>11. Len(bitstream') <= Len(rx') /\ bitstream' = Rest(rx', Amsat!Base')
  BY <1>1, <1>6 DEF AmsatInv
<1>12. FramesOnLine(rx', resets', out')
  BY <1>1 DEF AmsatInv
<1>. QED
  BY <1>1, <1>9, <1>10, <1>11, <1>12 DEF AmsatInv

\* The cardinality that the module of amsat takes.
LEMMA AmsatCardinality ==
  ASSUME NEW S
  PROVE  Amsat!Cardinality(S) = Cardinality(S)
BY DEF Amsat!Cardinality, Cardinality

\* Removing the erasures leaves no more errors than there were.
LEMMA FewerErrors ==
  ASSUME NEW c \in Seq(0 .. 255), NEW w, NEW n \in Nat, NEW e, e \subseteq 1 .. n,
         2 * Amsat!Distance(c, w) + Cardinality(e) <= AmsatParity
  PROVE  2 * Cardinality({k \in 1 .. Len(c) : c[k] # w[k]} \ e) + Cardinality(e)
           <= AmsatParity
<1>. DEFINE wrong == {k \in 1 .. Len(c) : c[k] # w[k]}
<1>1. Len(c) \in Nat /\ AmsatParity \in Nat
  BY LenProperties, StreamAssumption DEF StreamAssumption
<1>2. IsFiniteSet(wrong) /\ IsFiniteSet(e)
  <2>1. IsFiniteSet(1 .. Len(c)) /\ IsFiniteSet(1 .. n)
    BY <1>1, FS_Interval
  <2>2. wrong \subseteq 1 .. Len(c)
    OBVIOUS
  <2>. QED
    BY <2>1, <2>2, FS_Subset
<1>3. Amsat!Distance(c, w) = Cardinality(wrong)
  BY AmsatCardinality DEF Amsat!Distance
<1>. HIDE DEF wrong
<1>4. /\ IsFiniteSet(wrong \ e)
      /\ Cardinality(wrong \ e) <= Cardinality(wrong)
  BY <1>2, FS_Subset
<1>5. /\ Cardinality(wrong \ e) \in Nat /\ Cardinality(wrong) \in Nat
      /\ Cardinality(e) \in Nat
  BY <1>2, <1>4, FS_CardinalityType
<1>6. \A a, b, d, p \in Nat : a <= b /\ 2 * b + d <= p => 2 * a + d <= p
  OBVIOUS
<1>7. 2 * Cardinality(wrong \ e) + Cardinality(e) <= AmsatParity
  BY <1>1, <1>3, <1>4, <1>5, <1>6
<1>. QED
  BY <1>7 DEF wrong

\* With fewer erasures than the parity allows, what is accepted is corrected.
LEMMA AcceptedIsCorrected ==
  ASSUME NEW w, NEW n \in Nat, NEW e, e \subseteq 1 .. n,
         NEW block \in Amsat!RsResults(w, e), block # <<>>,
         Cardinality(e) < AmsatParity
  PROVE  block \in Amsat!Correctable(w, e)
<1>1. Amsat!Cardinality(e) = Cardinality(e)
  BY AmsatCardinality
<1>2. block \in Amsat!NearBlocks(w, e)
  <2>1. Cardinality(e) \in Nat /\ AmsatParity \in Nat
    <3>1. IsFiniteSet(1 .. n)
      BY FS_Interval
    <3>2. IsFiniteSet(e)
      BY <3>1, FS_Subset
    <3>. QED
      BY <3>2, FS_CardinalityType, StreamAssumption DEF StreamAssumption
  <2>2. Amsat!Cardinality(e) < AmsatParity /\ Amsat!Cardinality(e) # AmsatParity
    BY <1>1, <2>1
  <2>. QED
    BY <2>2 DEF Amsat!RsResults
<1>3. /\ block \in Codewords /\ block \in Seq(0 .. 255)
      /\ 2 * Amsat!Distance(block, w) + Cardinality(e) <= AmsatParity
  BY <1>1, <1>2, StreamAssumption DEF StreamAssumption, Amsat!NearBlocks
<1>4. 2 * Cardinality({k \in 1 .. Len(block) : block[k] # w[k]} \ e) + Cardinality(e)
        <= AmsatParity
  BY <1>3, FewerErrors
<1>5. 2 * Amsat!Cardinality({k \in 1 .. Len(block) : block[k] # w[k]} \ e)
          + Amsat!Cardinality(e) <= AmsatParity
  BY <1>4, AmsatCardinality
<1>. QED
  BY <1>3, <1>5 DEF Amsat!Correctable

\* The frame that is complete is published, and the search goes on.
LEMMA AmsatFrameAcceptedInv ==
  ASSUME AmsatInv, Amsat!FrameAccepted
  PROVE  AmsatInv' /\ rx' = rx
<1>1. /\ state = "DECODING" /\ Amsat!Complete
      /\ state' = "SEARCH_SYNC" /\ dataReg' = Amsat!ZeroReg
      /\ bitstream' = SubSeq(bitstream, Amsat!WordLen * Amsat!WordsNow + 2,
                             Len(bitstream))
      /\ UNCHANGED <<rx, resets>>
  BY DEF Amsat!FrameAccepted, Amsat!Turn, Amsat!Searching
<1>2. PICK block \in Amsat!Blocks :
        /\ Amsat!IsAccepted(block)
        /\ out' = Append(out,
             [pdu |-> SubSeq(block, 1, FrameWords - AmsatParity),
              erasures |-> Cardinality(Amsat!AllErasures),
              at |-> Amsat!Base + bitstreamIdx - Amsat!WordLen * Len(words)])
  <2>1. Amsat!Cardinality(Amsat!AllErasures) = Cardinality(Amsat!AllErasures)
    BY AmsatCardinality
  <2>. QED
    BY <2>1 DEF Amsat!FrameAccepted
<1>3. PICK n \in Nat, m \in Nat, first \in Nat :
        /\ n = Amsat!WordsNow /\ m = Len(words)
        /\ first = Amsat!Base + bitstreamIdx - Amsat!WordLen * m
        /\ m + n <= FrameWords
        /\ bitstreamIdx + Amsat!WordLen * n \in Nat
        /\ bitstreamIdx + Amsat!WordLen * n <= Len(bitstream)
        /\ IsSequence(Amsat!AllWords) /\ Len(Amsat!AllWords) = m + n
        /\ OpenFrame(rx, resets, Amsat!AllWords, Amsat!AllErasures, first)
  BY <1>1, WordsCollected
<1>4. m + n = FrameWords
  BY <1>1, <1>3 DEF Amsat!Complete
<1>. DEFINE w == Amsat!AllWords
            e == Amsat!AllErasures
            f == [pdu |-> SubSeq(block, 1, FrameWords - AmsatParity),
                  erasures |-> Cardinality(e), at |-> first]
<1>5. out' = Append(out, f)
  BY <1>2, <1>3
<1>6. /\ w = ValuesIn(rx, first, FrameWords) /\ e = InexactIn(rx, first, FrameWords)
      /\ Begins(rx, resets, first)
      /\ first + Amsat!WordLen * FrameWords <= Len(rx)
  BY <1>3, <1>4 DEF OpenFrame
<1>7. e \subseteq 1 .. FrameWords /\ FrameWords \in Nat
  BY <1>6, WordsProperties, StreamAssumption DEF StreamAssumption
<1>8. block \in Amsat!RsResults(w, e) /\ block # <<>>
  BY <1>2 DEF Amsat!Blocks, Amsat!IsAccepted
<1>. HIDE DEF w, e
<1>9. Cardinality(e) < AmsatParity => block \in Amsat!Correctable(w, e)
  BY <1>7, <1>8, AcceptedIsCorrected
<1>10. /\ f.pdu = SubSeq(block, 1, FrameWords - AmsatParity)
       /\ f.erasures = Cardinality(e) /\ f.at = first
  OBVIOUS
<1>. HIDE DEF f
<1>11. FrameIn(rx, resets, f)
  <2>1. ASSUME f.erasures < AmsatParity
        PROVE  \E c \in Amsat!Correctable(ValuesIn(rx, f.at, FrameWords),
                                          InexactIn(rx, f.at, FrameWords)) :
                 f.pdu = SubSeq(c, 1, FrameWords - AmsatParity)
    BY <1>6, <1>9, <1>10, <2>1
  <2>. QED
    BY <1>3, <1>6, <1>10, <2>1 DEF FrameIn
<1>12. FramesOnLine(rx', resets', out')
  <2>. DEFINE s == Append(out, f)
  <2>1. IsSequence(out) /\ \A j \in 1 .. Len(out) : FrameIn(rx, resets, out[j])
    BY DEF AmsatInv, FramesOnLine
  <2>2. /\ IsSequence(s) /\ Len(out) \in Nat /\ Len(s) = Len(out) + 1
        /\ \A j \in 1 .. Len(out) : s[j] = out[j]
        /\ s[Len(out) + 1] = f
    BY <2>1, SequenceAppend
  <2>. HIDE DEF s
  <2>3. \A j \in 1 .. Len(s) : j \in 1 .. Len(out) \/ j = Len(out) + 1
    BY <2>2
  <2>4. \A j \in 1 .. Len(s) : FrameIn(rx, resets, s[j])
    BY <1>11, <2>1, <2>2, <2>3
  <2>5. FramesOnLine(rx, resets, s)
    BY <2>2, <2>4 DEF FramesOnLine
  <2>. QED
    BY <1>1, <1>5, <2>5 DEF s
<1>13. PICK gone \in 0 .. Len(bitstream) : bitstream' = Rest(bitstream, gone)
  <2>. DEFINE k == Amsat!WordLen * n + 1
  <2>1. /\ bitstream \in Seq(Bit) /\ Len(bitstream) \in Nat
        /\ Len(bitstream) \in 0 .. Len(bitstream)
    BY LenProperties DEF AmsatInv, AmsatTypeOK
  <2>2. k \in Nat /\ k + 1 = Amsat!WordLen * n + 2
    BY DEF Amsat!WordLen
  <2>3. bitstream' = SubSeq(bitstream, k + 1, Len(bitstream))
    BY <1>1, <1>3, <2>2
  <2>. HIDE DEF k
  <2>4. CASE k <= Len(bitstream)
    BY <2>1, <2>2, <2>3, <2>4 DEF Rest
  <2>5. CASE ~ (k <= Len(bitstream))
    <3>1. \A j \in k + 1 .. Len(bitstream) : bitstream[j] \in Bit
      BY <2>1, <2>2, <2>5
    <3>2. Len(bitstream') = 0 /\ bitstream' \in Seq(Bit)
      BY <2>1, <2>2, <2>3, <2>5, <3>1, SubSeqProperties
    <3>3. bitstream' = <<>>
      BY <3>2, EmptySeq
    <3>. QED
      BY <2>1, <3>3, RestAll
  <2>. QED
    BY <2>4, <2>5
<1>14. /\ bitstream' \in Seq(Bit)
       /\ Len(bitstream') <= Len(rx')
       /\ bitstream' = Rest(rx', Amsat!Base')
  BY <1>1, <1>13, AmsatErased
<1>15. AmsatTypeOK'
  <2>1. IsSequence(resets)'
    BY <1>1 DEF AmsatInv, AmsatTypeOK, IsSequence
  <2>2. rx' \in Seq(Bit)
    BY <1>1 DEF AmsatInv, AmsatTypeOK
  <2>. QED
    BY <1>1, <1>14, <2>1, <2>2, ZeroRegType DEF AmsatTypeOK
<1>. QED
  BY <1>1, <1>12, <1>14, <1>15 DEF AmsatInv, RegisterOf

\* The bits are searched again, from the end of the control symbol on.
LEMMA AmsatFrameRejectedInv ==
  ASSUME AmsatInv, Amsat!FrameRejected
  PROVE  AmsatInv' /\ rx' = rx
<1>1. /\ state' = "SEARCH_SYNC" /\ dataReg' = Amsat!ZeroReg
      /\ UNCHANGED <<bitstream, rx, resets, out>>
  BY DEF Amsat!FrameRejected, Amsat!Searching
<1>2. AmsatTypeOK'
  <2>1. AmsatTypeOK
    BY DEF AmsatInv
  <2>. QED
    BY <1>1, <2>1, ZeroRegType DEF AmsatTypeOK, IsSequence
<1>3. Amsat!Base' = Amsat!Base
  BY <1>1 DEF Amsat!Base
<1>. QED
  BY <1>1, <1>2, <1>3 DEF AmsatInv, RegisterOf

\* Every step of amsat keeps its invariant.
LEMMA AmsatNextInv ==
  ASSUME AmsatInv, Amsat!Next
  PROVE  AmsatInv' /\ Len(rx') >= Len(rx)
<1>1. Len(rx) \in Nat
  BY AmsatBuffer
<1>2. CASE \E bits \in AmsatChunks : Amsat!Decode(bits)
  BY <1>2, AmsatDecodeInv
<1>3. CASE Amsat!Reset
  BY <1>1, <1>3, AmsatResetInv
<1>4. CASE Amsat!Scan
  BY <1>1, <1>4, AmsatTooFewBitsInv, AmsatSyncFoundInv, AmsatSyncNotFoundInv,
     AmsatWordsTakenInv, AmsatFrameAcceptedInv, AmsatFrameRejectedInv
  DEF Amsat!Scan
<1>. QED
  BY <1>2, <1>3, <1>4 DEF Amsat!Next

-----------------------------------------------------------------------------
(* The block with any of the decoders *)

Inv ==
  /\ kind = "argos" => ArgosInv
  /\ kind = "amsat" => AmsatInv

LEMMA InitInv == Init => Inv
BY ArgosInitInv, AmsatInitInv DEF Init, Inv

LEMMA StutterInv ==
  ASSUME Inv, UNCHANGED vars
  PROVE  Inv'
<1>1. /\ UNCHANGED <<kind, resets, out, state, bitstream, pc, rx, decB, frame,
                     startIdx, frameStart, nitemsRead, i, status>>
      /\ UNCHANGED <<dataReg, words, erasures, bitstreamIdx>>
  BY DEF vars, ofBits, onlyArgos, onlyAmsat
<1>2. CASE kind = "argos"
  <2>1. ArgosTypeOK' /\ Argos!BufferAccounted' /\ StatusHasNoRange'
    BY <1>1, <1>2
    DEF Inv, ArgosInv, ArgosTypeOK, Argos!BufferAccounted, StatusHasNoRange
  <2>2. SpansBehind(out', nitemsRead')
    BY <1>1, <1>2 DEF Inv, ArgosInv
  <2>3. SpansBehind(out, nitemsRead)'
    BY <2>2 DEF SpansBehind, SpansOf, RangedIn, IsSequence, Nth, RangeOf
  <2>. QED
    BY <1>1, <1>2, <2>1, <2>3 DEF Inv, ArgosInv
<1>3. CASE kind = "amsat"
  <2>1. AmsatInv
    BY <1>3 DEF Inv
  <2>2. Amsat!Base' = Amsat!Base
    BY <1>1 DEF Amsat!Base
  <2>3. AmsatTypeOK'
    BY <1>1, <2>1 DEF AmsatInv, AmsatTypeOK, IsSequence
  <2>4. Len(bitstream') <= Len(rx') /\ bitstream' = Rest(rx', Amsat!Base')
    BY <1>1, <2>1, <2>2 DEF AmsatInv
  <2>5. FramesOnLine(rx', resets', out')
    BY <1>1, <2>1 DEF AmsatInv
  <2>6. state' = "SEARCH_SYNC" => RegisterOf(rx', resets', Amsat!Base', dataReg')
    BY <1>1, <2>1, <2>2 DEF AmsatInv
  <2>7. state' = "DECODING" =>
          /\ bitstreamIdx' \in Nat /\ bitstreamIdx' <= Len(bitstream')
          /\ OpenFrame(rx', resets', words', erasures',
                       Amsat!Base' + bitstreamIdx' - Amsat!WordLen * Len(words'))
    BY <1>1, <2>1, <2>2 DEF AmsatInv
  <2>. QED
    BY <1>1, <1>3, <2>3, <2>4, <2>5, <2>6, <2>7 DEF Inv, AmsatInv
<1>. QED
  BY <1>1, <1>2, <1>3 DEF Inv

LEMMA NextInv == Inv /\ [Next]_vars => Inv'
<1>. SUFFICES ASSUME Inv, [Next]_vars PROVE Inv'
  OBVIOUS
<1>1. CASE UNCHANGED vars
  BY <1>1, StutterInv
<1>2. CASE Next
  <2>1. kind' = kind
    BY <1>2 DEF Next
  <2>2. CASE kind = "argos" /\ Argos!Next
    BY <2>1, <2>2, ArgosNextInv DEF Inv
  <2>3. CASE kind = "amsat" /\ Amsat!Next
    BY <2>1, <2>3, AmsatNextInv DEF Inv
  <2>4. CASE kind = "cw"
    BY <2>1, <2>4 DEF Inv
  <2>. QED
    BY <1>2, <2>2, <2>3, <2>4 DEF Next
<1>. QED
  BY <1>1, <1>2

\* argos and amsat stay in their inductive invariants.
THEOREM Invariance == Spec => []Inv
BY InitInv, NextInv, PTL DEF Spec

\* The parts of BufferAccounted of amsat.
LEMMA AmsatAccounted ==
  ASSUME AmsatInv
  PROVE  Amsat!BufferAccounted
<1>1. /\ Len(rx) \in Nat /\ Len(bitstream) \in Nat
      /\ Amsat!Base + Len(bitstream) = Len(rx)
      /\ bitstream = Rest(rx, Amsat!Base)
  BY AmsatBuffer
<1>2. bitstream = Amsat!BitsAt(Amsat!Base, Len(bitstream))
  BY <1>1 DEF Rest, Amsat!BitsAt
<1>. DEFINE first == Amsat!Base + bitstreamIdx - Amsat!WordLen * Len(words)
<1>3. ASSUME state = "DECODING"
      PROVE  /\ bitstreamIdx <= Len(bitstream)
             /\ Begins(rx, resets, first)
             /\ words = ValuesIn(rx, first, Len(words))
  BY <1>3 DEF AmsatInv, OpenFrame
<1>4. Begins(rx, resets, first) =>
        \/ Amsat!MayBeControlAt(first)
        \/ Amsat!ResetWithin(first - Amsat!WordLen + 1, first)
  BY DEF Begins, ControlIn, ResetIn, Amsat!MayBeControlAt, Amsat!BitsAt,
         Amsat!ResetWithin
<1>. HIDE DEF first
<1>5. Amsat!BufferAccounted <=>
        /\ bitstream = Amsat!BitsAt(Amsat!Base, Len(bitstream))
        /\ state = "DECODING" =>
             /\ bitstreamIdx <= Len(bitstream)
             /\ \/ Amsat!MayBeControlAt(first)
                \/ Amsat!ResetWithin(first - Amsat!WordLen + 1, first)
             /\ words = ValuesIn(rx, first, Len(words))
  BY DEF Amsat!BufferAccounted, ValuesIn, first
<1>. QED
  BY <1>2, <1>3, <1>4, <1>5

\* Neither argos nor amsat loses or misplaces a bit that it may have to search
\* again: their buffers hold the end of what was handed over, and the words that
\* amsat has collected are the ones behind a control symbol.
THEOREM BufferIsAccounted == Spec => []BufferAccounted
<1>1. Inv => BufferAccounted
  BY AmsatAccounted DEF Inv, ArgosInv, BufferAccounted
<1>. QED
  BY <1>1, Invariance, PTL

LEMMA AmsatFaithful ==
  ASSUME AmsatInv
  PROVE  Amsat!FrameFaithful
<1>. SUFFICES ASSUME NEW n \in 1 .. Len(out), out[n].erasures < AmsatParity
              PROVE  /\ \/ Amsat!MayBeControlAt(out[n].at)
                        \/ Amsat!ResetWithin(out[n].at - Amsat!WordLen + 1,
                                             out[n].at)
                     /\ \E c \in Amsat!Correctable(Amsat!WordsAt(out[n].at),
                                                   Amsat!ErasuresAt(out[n].at)) :
                          out[n].pdu = SubSeq(c, 1, FrameWords - AmsatParity)
  BY DEF Amsat!FrameFaithful
<1>1. FrameIn(rx, resets, out[n])
  BY DEF AmsatInv, FramesOnLine
<1>2. Begins(rx, resets, out[n].at) =>
        \/ Amsat!MayBeControlAt(out[n].at)
        \/ Amsat!ResetWithin(out[n].at - Amsat!WordLen + 1, out[n].at)
  BY DEF Begins, ControlIn, ResetIn, Amsat!MayBeControlAt, Amsat!BitsAt,
         Amsat!ResetWithin
<1>3. /\ Amsat!WordsAt(out[n].at) = ValuesIn(rx, out[n].at, FrameWords)
      /\ Amsat!ErasuresAt(out[n].at) = InexactIn(rx, out[n].at, FrameWords)
  BY DEF Amsat!WordsAt, Amsat!ErasuresAt, ValuesIn, InexactIn
<1>. QED
  BY <1>1, <1>2, <1>3 DEF FrameIn

\* What amsat publishes with fewer erasures than the parity allows is the block
\* behind a control symbol, corrected.
THEOREM AmsatFramesAreFaithful ==
  Spec => [](kind = "amsat" => Amsat!FrameFaithful)
<1>1. Inv => (kind = "amsat" => Amsat!FrameFaithful)
  BY AmsatFaithful DEF Inv
<1>. QED
  BY <1>1, Invariance, PTL

-----------------------------------------------------------------------------
(***************************************************************************)
(* The frames of cw that wait.  A channel cannot complete a message before *)
(* it has heard the silence that ends one, and so long no other message of *)
(* its own: while a call passes on one frame and takes no more than a      *)
(* share of this silence, a frame is passed on before its channel has the  *)
(* next one, so that no two frames that wait are of the same channel.      *)
(***************************************************************************)

Silence == 3 * Cw!LongPause
Share == Silence \div ChannelsNum
SharesFit == \A n \in DecodeSizes : n * ChannelsNum <= Silence

States == {"NO_SYNC", "SEARCH_DOT", "SEARCH_DASH", "SEARCH_SPACE"}

IsChannel(ch) ==
  /\ ch = [state |-> ch.state, width |-> ch.width, str |-> ch.str, tree |-> ch.tree,
           done |-> ch.done, movs |-> ch.movs, stdMovs |-> ch.stdMovs]
  /\ ch.state \in States
  /\ ch.width \in Nat

\* In how many windows the channel may complete a message, at the earliest.
Ahead(ch) ==
  IF ch.state = "NO_SYNC" /\ Len(ch.str) > MinLen THEN Silence + 1 - ch.width
                                                  ELSE Silence + 1

\* The k-th frame that waits is passed on by the k-th call from here, and its
\* channel cannot have another one before: this call takes r more windows, and
\* one more that only the channels up to c have heard.
WaitsInTurn(chn, queue, r, c) ==
  /\ chn = [d \in Cw!Channels |-> chn[d]]
  /\ \A d \in Cw!Channels : IsChannel(chn[d]) /\ chn[d].done = <<>>
  /\ IsSequence(queue)
  /\ \A k \in 1 .. Len(queue) :
       /\ queue[k].channel \in Cw!Channels
       /\ Ahead(chn[queue[k].channel]) >=
            (k - 1) * Share + 1 + r + (IF queue[k].channel <= c THEN 0 ELSE 1)
  /\ \A j, k \in 1 .. Len(queue) : queue[j].channel = queue[k].channel => j = k

InTurn(acc, r, c) ==
  /\ acc = [heard |-> acc.heard, deaf |-> acc.deaf, chan |-> acc.chan,
            frames |-> acc.frames]
  /\ WaitsInTurn(acc.chan, acc.frames, r, c)

CwInv == SharesFit => /\ WaitsInTurn(chan, frames, Share, ChannelsNum)
                      /\ Len(frames) < ChannelsNum

LEMMA SilenceType == Silence \in Nat /\ Share \in Nat
<1>1. DotWindows \in Nat /\ ChannelsNum \in Nat \ {0}
  BY StreamAssumption DEF StreamAssumption
<1>2. Cw!LongPause \in Nat
  BY <1>1 DEF Cw!LongPause
<1>3. Silence \in Nat
  BY <1>2 DEF Silence
<1>4. \A a \in Nat, b \in Nat \ {0} : a \div b \in Nat
  OBVIOUS
<1>. QED
  BY <1>1, <1>3, <1>4 DEF Share

\* All the shares fit in the silence, and a call in its share.
LEMMA ShareProperties ==
  /\ ChannelsNum * Share <= Silence
  /\ \A n \in Nat : n * ChannelsNum <= Silence => n <= Share
<1>1. PICK a \in Nat, b \in Nat \ {0}, q \in Nat :
        a = Silence /\ b = ChannelsNum /\ q = Share /\ q = a \div b
  BY SilenceType, StreamAssumption DEF StreamAssumption, Share
<1>2. b * q <= a
  BY <1>1
<1>3. a < b * q + b
  BY <1>1
<1>4. ASSUME NEW n \in Nat, n * b <= a
      PROVE  n <= q
  <2>1. SUFFICES ASSUME n >= q + 1 PROVE FALSE
    OBVIOUS
  <2>2. n * b >= (q + 1) * b
    BY <2>1
  <2>3. (q + 1) * b = b * q + b
    OBVIOUS
  <2>. QED
    BY <1>3, <1>4, <2>2, <2>3
<1>. QED
  BY <1>1, <1>2, <1>4

\* A symbol changes the word and the text only.
LEMMA ReceivedChannel ==
  ASSUME NEW ch, IsChannel(ch), NEW s
  PROVE  LET d == Cw!Received(ch, s)
         IN  /\ IsChannel(d)
             /\ d.done = ch.done /\ d.state = ch.state /\ d.width = ch.width
BY DEF Cw!Received, IsChannel, States

\* A channel that is not in "NO_SYNC", or not for long yet.
LEMMA EnteredAhead ==
  ASSUME NEW ch, IsChannel(ch), ch.state # "NO_SYNC" \/ ch.width = 0
  PROVE  Ahead(ch) = Silence + 1
BY SilenceType DEF IsChannel, Ahead

\* A window brings a channel one window closer at most, and it completes a
\* message only where that was one window ahead.
HeardBy(ch, d) ==
  /\ IsChannel(d)
  /\ Ahead(d) >= Ahead(ch) - 1
  /\ d.done # <<>> => Ahead(ch) <= 1 /\ Ahead(d) = Silence + 1

\* Entering a state, and staying in one.
LEMMA EnterChannel ==
  ASSUME NEW ch, IsChannel(ch), NEW s \in States
  PROVE  LET d == Cw!Enter(ch, s)
         IN  IsChannel(d) /\ d.done = ch.done /\ d.state = s /\ d.width = 0
<1>1. PICK d : d = Cw!Enter(ch, s)
  OBVIOUS
<1>2. d = [state |-> s, width |-> 0, str |-> ch.str, tree |-> ch.tree,
           done |-> ch.done, movs |-> ch.movs, stdMovs |-> ch.stdMovs]
  BY <1>1 DEF Cw!Enter, IsChannel
<1>3. IsChannel(d)
  BY <1>2 DEF IsChannel
<1>. QED
  BY <1>1, <1>2, <1>3

LEMMA WiderChannel ==
  ASSUME NEW ch, IsChannel(ch)
  PROVE  LET d == Cw!Wider(ch)
         IN  /\ IsChannel(d)
             /\ d.done = ch.done /\ d.state = ch.state /\ d.width = ch.width + 1
             /\ d.str = ch.str
BY DEF Cw!Wider, IsChannel

LEMMA AheadBound ==
  ASSUME NEW ch, IsChannel(ch)
  PROVE  Ahead(ch) \in Int /\ Ahead(ch) <= Silence + 1
BY SilenceType DEF IsChannel, Ahead

\* A channel at the start of a state has all of the silence ahead.
LEMMA EnteredHeard ==
  ASSUME NEW ch, IsChannel(ch), NEW d, IsChannel(d), d.done = <<>>,
         d.state # "NO_SYNC" \/ d.width = 0
  PROVE  HeardBy(ch, d)
<1>1. Ahead(d) = Silence + 1
  BY EnteredAhead
<1>2. Ahead(ch) \in Int /\ Ahead(ch) <= Silence + 1
  BY AheadBound
<1>. QED
  BY <1>1, <1>2, SilenceType DEF HeardBy

LEMMA NoSyncHeard ==
  ASSUME NEW ch, IsChannel(ch), ch.done = <<>>, ch.state = "NO_SYNC",
         NEW t \in BOOLEAN
  PROVE  HeardBy(ch, Cw!NoSync(ch, t))
<1>1. CASE t
  <2>1. Cw!NoSync(ch, t) = Cw!Enter(ch, "SEARCH_DOT")
    BY <1>1 DEF Cw!NoSync
  <2>2. PICK d : d = Cw!Enter(ch, "SEARCH_DOT")
    OBVIOUS
  <2>3. IsChannel(d) /\ d.done = <<>> /\ d.width = 0
    BY <2>2, EnterChannel DEF States
  <2>. QED
    BY <2>1, <2>2, <2>3, EnteredHeard
<1>2. CASE ~ t /\ ch.width + 1 <= Silence
  <2>1. Cw!NoSync(ch, t) = Cw!Wider(ch)
    BY <1>2 DEF Cw!NoSync, Silence
  <2>2. PICK d : d = Cw!Wider(ch)
    OBVIOUS
  <2>3. /\ IsChannel(d)
        /\ d.done = ch.done /\ d.state = ch.state /\ d.width = ch.width + 1
        /\ d.str = ch.str
    BY <2>2, WiderChannel
  <2>4. Ahead(d) >= Ahead(ch) - 1
    BY <2>3, SilenceType DEF Ahead, IsChannel
  <2>. QED
    BY <2>1, <2>2, <2>3, <2>4 DEF HeardBy
<1>3. CASE ~ t /\ ~ (ch.width + 1 <= Silence)
  <2>1. ch.width + 1 > Silence
    BY <1>3, SilenceType DEF IsChannel
  <2>2. CASE Len(ch.str) > MinLen
    <3>1. PICK d : d = Cw!NoSync(ch, t)
      OBVIOUS
    <3>2. d = [Cw!Enter(ch, "NO_SYNC") EXCEPT
                 !.str = <<>>, !.tree = Cw!EmptyTree, !.done = ch.str]
      BY <1>3, <2>2, <3>1 DEF Cw!NoSync, Silence
    <3>3. IsChannel(d) /\ d.width = 0
      BY <3>2 DEF Cw!Enter, IsChannel
    <3>4. Ahead(d) = Silence + 1
      BY <3>3, EnteredAhead
    <3>5. Ahead(ch) <= 1
      BY <2>1, <2>2, SilenceType DEF Ahead, IsChannel
    <3>6. Ahead(d) >= Ahead(ch) - 1
      BY <3>4, SilenceType, AheadBound
    <3>. QED
      BY <3>1, <3>3, <3>4, <3>5, <3>6 DEF HeardBy
  <2>3. CASE ~ (Len(ch.str) > MinLen)
    <3>1. Cw!NoSync(ch, t) = Cw!Enter(ch, "NO_SYNC")
      BY <1>3, <2>3 DEF Cw!NoSync, Silence
    <3>2. PICK d : d = Cw!Enter(ch, "NO_SYNC")
      OBVIOUS
    <3>3. IsChannel(d) /\ d.done = <<>> /\ d.width = 0
      BY <3>2, EnterChannel DEF States
    <3>. QED
      BY <3>1, <3>2, <3>3, EnteredHeard
  <2>. QED
    BY <2>2, <2>3
<1>. QED
  BY <1>1, <1>2, <1>3

LEMMA SearchDotHeard ==
  ASSUME NEW ch, IsChannel(ch), ch.done = <<>>, ch.state = "SEARCH_DOT",
         NEW t \in BOOLEAN
  PROVE  HeardBy(ch, Cw!SearchDot(ch, t))
<1>1. CASE t
  <2>1. PICK w : w = Cw!Wider(ch)
    OBVIOUS
  <2>2. IsChannel(w) /\ w.done = <<>>
    BY <2>1, WiderChannel
  <2>3. PICK s \in {"SEARCH_DOT", "SEARCH_DASH"} :
          Cw!SearchDot(ch, t) = [w EXCEPT !.state = s]
    BY <1>1, <2>1 DEF Cw!SearchDot
  <2>4. PICK d : d = [w EXCEPT !.state = s]
    OBVIOUS
  <2>5. IsChannel(d) /\ d.done = <<>> /\ d.state # "NO_SYNC"
    BY <2>2, <2>4 DEF IsChannel, States
  <2>. QED
    BY <2>3, <2>4, <2>5, EnteredHeard
<1>2. CASE ~ t
  <2>1. PICK d : IsChannel(d) /\ d.done = <<>> /\
                 Cw!SearchDot(ch, t) = Cw!Enter(d, "SEARCH_SPACE")
    BY <1>2, ReceivedChannel DEF Cw!SearchDot
  <2>2. PICK e : e = Cw!Enter(d, "SEARCH_SPACE")
    OBVIOUS
  <2>3. IsChannel(e) /\ e.done = <<>> /\ e.width = 0
    BY <2>1, <2>2, EnterChannel DEF States
  <2>. QED
    BY <2>1, <2>2, <2>3, EnteredHeard
<1>. QED
  BY <1>1, <1>2

LEMMA SearchDashHeard ==
  ASSUME NEW ch, IsChannel(ch), ch.done = <<>>, ch.state = "SEARCH_DASH",
         NEW t \in BOOLEAN
  PROVE  HeardBy(ch, Cw!SearchDash(ch, t))
<1>1. CASE t
  <2>1. PICK w : w = Cw!Wider(ch)
    OBVIOUS
  <2>2. IsChannel(w) /\ w.done = <<>> /\ w.state # "NO_SYNC"
    BY <2>1, WiderChannel
  <2>. QED
    BY <1>1, <2>1, <2>2, EnteredHeard DEF Cw!SearchDash
<1>2. CASE ~ t
  <2>1. Cw!DashDuration \in Int
    BY StreamAssumption DEF StreamAssumption, Cw!DashDuration
  <2>2. 4 * ch.width > 7 * Cw!DashDuration \/ 4 * ch.width <= 7 * Cw!DashDuration
    BY <2>1 DEF IsChannel
  <2>3. PICK d : IsChannel(d) /\ d.done = <<>> /\
                 Cw!SearchDash(ch, t) = Cw!Enter(d, "SEARCH_SPACE")
    BY <1>2, <2>2, ReceivedChannel DEF Cw!SearchDash
  <2>4. PICK e : e = Cw!Enter(d, "SEARCH_SPACE")
    OBVIOUS
  <2>5. IsChannel(e) /\ e.done = <<>> /\ e.width = 0
    BY <2>3, <2>4, EnterChannel DEF States
  <2>. QED
    BY <2>3, <2>4, <2>5, EnteredHeard
<1>. QED
  BY <1>1, <1>2

LEMMA SearchSpaceHeard ==
  ASSUME NEW ch, IsChannel(ch), ch.done = <<>>, ch.state = "SEARCH_SPACE",
         NEW t \in BOOLEAN
  PROVE  HeardBy(ch, Cw!SearchSpace(ch, t))
<1>1. CASE ~ t /\ ~ Cw!Confident(ch.width + 1, Cw!LongPause)
  <2>1. PICK w : w = Cw!Wider(ch)
    OBVIOUS
  <2>2. IsChannel(w) /\ w.done = <<>> /\ w.state # "NO_SYNC"
    BY <2>1, WiderChannel
  <2>3. Cw!SearchSpace(ch, t) = w
    BY <1>1, <2>1 DEF Cw!SearchSpace
  <2>. QED
    BY <2>2, <2>3, EnteredHeard
<1>2. CASE t
  <2>1. PICK d : d = IF Cw!Confident(ch.width, Cw!LongPause)
                       THEN Cw!Received(ch, "L_SPACE")
                     ELSE IF Cw!Confident(ch.width, Cw!ShortPause)
                       THEN Cw!Received(ch, "S_SPACE")
                     ELSE ch
    OBVIOUS
  <2>2. IsChannel(d) /\ d.done = <<>>
    BY <2>1, ReceivedChannel
  <2>3. PICK e : e = Cw!Enter(d, "SEARCH_DOT")
    OBVIOUS
  <2>4. IsChannel(e) /\ e.done = <<>> /\ e.width = 0
    BY <2>2, <2>3, EnterChannel DEF States
  <2>5. Cw!SearchSpace(ch, t) = e
    BY <1>2, <2>1, <2>3 DEF Cw!SearchSpace
  <2>. QED
    BY <2>4, <2>5, EnteredHeard
<1>3. CASE ~ t /\ Cw!Confident(ch.width + 1, Cw!LongPause)
  <2>1. PICK d : d = Cw!Received(ch, "L_SPACE")
    OBVIOUS
  <2>2. IsChannel(d) /\ d.done = <<>>
    BY <2>1, ReceivedChannel
  <2>3. PICK e : e = Cw!Enter(d, "NO_SYNC")
    OBVIOUS
  <2>4. IsChannel(e) /\ e.done = <<>> /\ e.width = 0
    BY <2>2, <2>3, EnterChannel DEF States
  <2>5. Cw!SearchSpace(ch, t) = e
    BY <1>3, <2>1, <2>3 DEF Cw!SearchSpace
  <2>. QED
    BY <2>4, <2>5, EnteredHeard
<1>. QED
  BY <1>1, <1>2, <1>3

\* So each channel, in any state; the moving sums do not matter here.
LEMMA ChannelHears ==
  ASSUME NEW ch, IsChannel(ch), ch.done = <<>>, NEW on
  PROVE  HeardBy(ch, Cw!Windowed(ch, on))
<1>1. PICK m, sums : m = Append(Tail(ch.movs), 1 + on)
                     /\ sums = Append(Tail(ch.stdMovs), Cw!SumOf(m))
  OBVIOUS
<1>2. PICK c : c = [ch EXCEPT !.movs = m, !.stdMovs = sums]
  OBVIOUS
<1>3. /\ IsChannel(c) /\ c.done = <<>> /\ c.state = ch.state
      /\ Ahead(c) = Ahead(ch)
  <2>1. c = [state |-> ch.state, width |-> ch.width, str |-> ch.str,
             tree |-> ch.tree, done |-> ch.done, movs |-> m, stdMovs |-> sums]
    BY <1>2 DEF IsChannel
  <2>2. IsChannel(c) /\ c.done = ch.done /\ c.state = ch.state
    BY <2>1 DEF IsChannel
  <2>3. Ahead(c) = Ahead(ch)
    BY <2>1 DEF Ahead
  <2>. QED
    BY <2>2, <2>3
<1>4. PICK t \in BOOLEAN : t = Cw!Triggered(c)
  BY DEF Cw!Triggered
<1>5. Cw!Windowed(ch, on) =
        CASE ch.state = "NO_SYNC" -> Cw!NoSync(c, t)
          [] ch.state = "SEARCH_DOT" -> Cw!SearchDot(c, t)
          [] ch.state = "SEARCH_DASH" -> Cw!SearchDash(c, t)
          [] ch.state = "SEARCH_SPACE" -> Cw!SearchSpace(c, t)
  BY <1>1, <1>2, <1>4 DEF Cw!Windowed
<1>6. PICK d : d = Cw!Windowed(ch, on)
  OBVIOUS
<1>7. HeardBy(c, d)
  <2>1. CASE ch.state = "NO_SYNC"
    BY <1>3, <1>5, <1>6, <2>1, NoSyncHeard
  <2>2. CASE ch.state = "SEARCH_DOT"
    BY <1>3, <1>5, <1>6, <2>2, SearchDotHeard
  <2>3. CASE ch.state = "SEARCH_DASH"
    BY <1>3, <1>5, <1>6, <2>3, SearchDashHeard
  <2>4. CASE ch.state = "SEARCH_SPACE"
    BY <1>3, <1>5, <1>6, <2>4, SearchSpaceHeard
  <2>. QED
    BY <2>1, <2>2, <2>3, <2>4 DEF IsChannel, States
<1>. QED
  BY <1>3, <1>6, <1>7 DEF HeardBy

\* No channel has two frames waiting, so that there are no more frames than
\* channels; one less when one of the channels has none.
LEMMA QueueBound ==
  ASSUME NEW chn, NEW queue, NEW r, NEW c, WaitsInTurn(chn, queue, r, c)
  PROVE  /\ Len(queue) \in Nat /\ Len(queue) <= ChannelsNum
         /\ \A d \in Cw!Channels :
              (\A k \in 1 .. Len(queue) : queue[k].channel # d) =>
                Len(queue) <= ChannelsNum - 1
<1>1. PICK n \in Nat : n = Len(queue)
  BY LenProperties DEF WaitsInTurn, IsSequence
<1>2. PICK num \in Nat : num = ChannelsNum /\ Cw!Channels = 1 .. num
  BY StreamAssumption DEF StreamAssumption, Cw!Channels
<1>3. IsFiniteSet(1 .. num) /\ Cardinality(1 .. num) = num
  BY FS_Interval
<1>4. IsFiniteSet(1 .. n) /\ Cardinality(1 .. n) = n
  BY FS_Interval
<1>5. PICK f : f = [k \in 1 .. n |-> queue[k].channel]
  OBVIOUS
<1>6. \A k \in 1 .. n : f[k] = queue[k].channel /\ f[k] \in 1 .. num
  BY <1>1, <1>2, <1>5 DEF WaitsInTurn
<1>7. \A j, k \in 1 .. n : f[j] = f[k] => j = k
  BY <1>1, <1>6 DEF WaitsInTurn
<1>8. f \in Injection(1 .. n, 1 .. num)
  BY <1>5, <1>6, <1>7 DEF Injection, IsInjective
<1>9. n <= num
  BY <1>3, <1>4, <1>8, FS_Injection
<1>10. ASSUME NEW d \in 1 .. num, \A k \in 1 .. n : queue[k].channel # d
       PROVE  n <= num - 1
  <2>1. PICK others : others = (1 .. num) \ {d}
    OBVIOUS
  <2>2. IsFiniteSet(others) /\ Cardinality(others) = num - 1
    BY <1>3, <2>1, FS_RemoveElement
  <2>3. \A k \in 1 .. n : f[k] \in others
    BY <1>6, <1>10, <2>1
  <2>4. f \in Injection(1 .. n, others)
    BY <1>5, <1>7, <2>3 DEF Injection, IsInjective
  <2>. QED
    BY <1>4, <2>2, <2>4, FS_Injection
<1>. QED
  BY <1>1, <1>2, <1>9, <1>10

\* One channel hears one window.
LEMMA ChannelTurn ==
  ASSUME NEW acc, NEW r \in Nat, r < Share, NEW c \in Cw!Channels, NEW on,
         InTurn(acc, r, c - 1)
  PROVE  InTurn(Cw!Heard(acc, c, on), r, c)
<1>1. PICK chn, queue : chn = acc.chan /\ queue = acc.frames
  OBVIOUS
<1>2. WaitsInTurn(chn, queue, r, c - 1)
  BY <1>1 DEF InTurn
<1>3. IsChannel(chn[c]) /\ chn[c].done = <<>>
  BY <1>2 DEF WaitsInTurn
<1>4. PICK d : d = Cw!Windowed(chn[c], IF c \in acc.deaf THEN 0 ELSE on)
  OBVIOUS
<1>5. HeardBy(chn[c], d)
  BY <1>3, <1>4, ChannelHears
<1>6. PICK e : e = [d EXCEPT !.done = <<>>]
  OBVIOUS
<1>7. IsChannel(e) /\ e.done = <<>> /\ Ahead(e) = Ahead(d)
  BY <1>5, <1>6 DEF HeardBy, IsChannel, Ahead
<1>8. PICK chn1 : chn1 = [chn EXCEPT ![c] = e]
  OBVIOUS
<1>9. PICK queue1 : queue1 = IF d.done = <<>> THEN queue
                            ELSE Append(queue, [channel |-> c, text |-> d.done])
  OBVIOUS
<1>10. PICK more : more = Cw!Heard(acc, c, on)
  OBVIOUS
<1>11. more = [heard |-> acc.heard, deaf |-> acc.deaf, chan |-> chn1,
               frames |-> queue1]
  BY <1>1, <1>4, <1>6, <1>8, <1>9, <1>10 DEF Cw!Heard, InTurn
<1>12. /\ chn1 = [x \in Cw!Channels |-> chn1[x]]
       /\ \A x \in Cw!Channels : IsChannel(chn1[x]) /\ chn1[x].done = <<>>
       /\ chn1[c] = e
       /\ \A x \in Cw!Channels : x # c => chn1[x] = chn[x]
  BY <1>2, <1>7, <1>8 DEF WaitsInTurn
<1>13. /\ IsSequence(queue)
       /\ \A j, k \in 1 .. Len(queue) : queue[j].channel = queue[k].channel => j = k
       /\ \A k \in 1 .. Len(queue) : queue[k].channel \in Cw!Channels
  BY <1>2 DEF WaitsInTurn
<1>14. ASSUME NEW k \in 1 .. Len(queue), queue[k].channel # c \/ d.done = <<>>
       PROVE  Ahead(chn1[queue[k].channel]) >=
                (k - 1) * Share + 1 + r + (IF queue[k].channel <= c THEN 0 ELSE 1)
  <2>1. PICK x \in Cw!Channels : x = queue[k].channel
    BY <1>13
  <2>2. PICK before \in Int : before = (k - 1) * Share
    <3>1. k \in Int /\ Share \in Int
      BY SilenceType, QueueBound, <1>2
    <3>. QED
      BY <3>1
  <2>3. x \in Int /\ c \in Int
    BY DEF Cw!Channels
  <2>4. PICK a \in Int : a = Ahead(chn[x])
    <3>1. IsChannel(chn[x])
      BY <1>2 DEF WaitsInTurn
    <3>. QED
      BY <3>1, AheadBound
  <2>5. a >= before + 1 + r + (IF x <= c - 1 THEN 0 ELSE 1)
    BY <1>2, <2>1, <2>2, <2>4 DEF WaitsInTurn
  <2>6. CASE x # c
    <3>1. x <= c - 1 <=> x <= c
      BY <2>3, <2>6
    <3>. QED
      BY <1>12, <2>1, <2>2, <2>4, <2>5, <2>6, <3>1
  <2>7. CASE x = c
    <3>1. PICK b \in Int : b = Ahead(e)
      BY <1>7, AheadBound
    <3>2. b >= a - 1
      BY <1>5, <1>7, <2>4, <2>7, <3>1 DEF HeardBy
    <3>3. a >= before + 1 + r + 1
      BY <2>3, <2>5, <2>7
    <3>4. b >= before + 1 + r + 0
      BY <3>2, <3>3
    <3>5. (IF x <= c THEN 0 ELSE 1) = 0
      BY <2>3, <2>7
    <3>. QED
      BY <1>12, <2>1, <2>2, <2>7, <3>1, <3>4, <2>3
  <2>. QED
    BY <2>6, <2>7
<1>15. CASE d.done = <<>>
  <2>1. queue1 = queue
    BY <1>9, <1>15
  <2>2. WaitsInTurn(chn1, queue, r, c)
    BY <1>12, <1>13, <1>14, <1>15 DEF WaitsInTurn
  <2>. QED
    BY <1>10, <1>11, <2>1, <2>2 DEF InTurn
<1>16. CASE d.done # <<>>
  <2>1. Ahead(chn[c]) <= 1 /\ Ahead(e) = Silence + 1
    BY <1>5, <1>7, <1>16 DEF HeardBy
  <2>2. PICK n \in Nat, num \in Nat \ {0} : n = Len(queue) /\ num = ChannelsNum
    BY <1>2, QueueBound, StreamAssumption DEF StreamAssumption
  <2>3. ASSUME NEW k \in 1 .. n
        PROVE  queue[k].channel # c
    <3>1. SUFFICES ASSUME queue[k].channel = c PROVE FALSE
      OBVIOUS
    <3>2. PICK a \in Int : a = Ahead(chn[c])
      BY <1>3, AheadBound
    <3>3. PICK before \in Nat : before = (k - 1) * Share
      <4>1. k - 1 \in Nat /\ Share \in Nat
        BY SilenceType
      <4>2. \A x, y \in Nat : x * y \in Nat
        OBVIOUS
      <4>. QED
        BY <4>1, <4>2
    <3>4. a >= before + 1 + r + (IF c <= c - 1 THEN 0 ELSE 1)
      BY <1>2, <2>2, <3>1, <3>2, <3>3 DEF WaitsInTurn
    <3>5. ~ (c <= c - 1)
      BY DEF Cw!Channels
    <3>6. a >= before + 1 + r + 1
      BY <3>4, <3>5
    <3>7. a <= 1
      BY <2>1, <3>2
    <3>. QED
      BY <3>6, <3>7
  <2>4. n <= num - 1
    BY <1>2, <2>2, <2>3, QueueBound
  <2>5. PICK s : s = [channel |-> c, text |-> d.done]
    OBVIOUS
  <2>6. /\ IsSequence(queue1) /\ Len(queue1) = n + 1
        /\ \A k \in 1 .. n : queue1[k] = queue[k]
        /\ queue1[n + 1] = s
    BY <1>9, <1>13, <1>16, <2>2, <2>5, SequenceAppend
  <2>7. s.channel = c
    BY <2>5
  <2>8. Silence + 1 >= ((n + 1) - 1) * Share + 1 + r
    <3>1. PICK share \in Nat, all \in Nat : share = Share /\ all = Silence
      BY SilenceType
    <3>2. num * share <= all
      BY <2>2, <3>1, ShareProperties
    <3>3. (n + 1) * share <= num * share
      BY <2>4
    <3>4. (n + 1) * share = n * share + share
      OBVIOUS
    <3>5. PICK x \in Int, y \in Int : x = n * share /\ y = num * share
      OBVIOUS
    <3>6. x + share <= all /\ r < share
      BY <3>1, <3>2, <3>3, <3>4, <3>5
    <3>7. all + 1 >= x + 1 + r
      BY <3>6
    <3>8. ((n + 1) - 1) * Share = x
      BY <3>1, <3>5
    <3>. QED
      BY <3>1, <3>7, <3>8
  <2>9. ASSUME NEW k \in 1 .. n + 1
        PROVE  /\ queue1[k].channel \in Cw!Channels
               /\ Ahead(chn1[queue1[k].channel]) >=
                    (k - 1) * Share + 1 + r + (IF queue1[k].channel <= c THEN 0 ELSE 1)
    <3>1. CASE k \in 1 .. n
      BY <1>13, <1>14, <2>2, <2>3, <2>6, <3>1
    <3>2. CASE k = n + 1
      <4>1. queue1[k].channel = c /\ c <= c
        BY <2>6, <2>7, <3>2 DEF Cw!Channels
      <4>2. PICK x \in Int : x = (k - 1) * Share
        BY <2>2, SilenceType
      <4>3. Silence + 1 >= x + 1 + r + 0
        BY <2>8, <3>2, <4>2
      <4>. QED
        BY <1>12, <2>1, <4>1, <4>2, <4>3
    <3>. QED
      BY <3>1, <3>2
  <2>10. ASSUME NEW j \in 1 .. n + 1, NEW k \in 1 .. n + 1,
                queue1[j].channel = queue1[k].channel
         PROVE  j = k
    <3>1. j \in 1 .. n \/ j = n + 1
      OBVIOUS
    <3>2. k \in 1 .. n \/ k = n + 1
      OBVIOUS
    <3>. QED
      BY <1>13, <2>2, <2>3, <2>6, <2>7, <2>10, <3>1, <3>2
  <2>11. WaitsInTurn(chn1, queue1, r, c)
    BY <1>12, <2>6, <2>9, <2>10 DEF WaitsInTurn
  <2>. QED
    BY <1>10, <1>11, <2>11 DEF InTurn
<1>. QED
  BY <1>15, <1>16

\* What waits with more windows to go may wait with fewer.
LEMMA InTurnWeaker ==
  ASSUME NEW chn, NEW queue, NEW r \in Nat, NEW q \in Nat, q <= r,
         WaitsInTurn(chn, queue, r, ChannelsNum)
  PROVE  /\ WaitsInTurn(chn, queue, q, ChannelsNum)
         /\ q < r => WaitsInTurn(chn, queue, q, 0)
<1>1. /\ chn = [d \in Cw!Channels |-> chn[d]]
      /\ \A d \in Cw!Channels : IsChannel(chn[d]) /\ chn[d].done = <<>>
      /\ IsSequence(queue)
      /\ \A j, k \in 1 .. Len(queue) : queue[j].channel = queue[k].channel => j = k
      /\ \A k \in 1 .. Len(queue) : queue[k].channel \in Cw!Channels
  BY DEF WaitsInTurn
<1>2. ASSUME NEW k \in 1 .. Len(queue)
      PROVE  /\ Ahead(chn[queue[k].channel]) >=
                  (k - 1) * Share + 1 + q
                    + (IF queue[k].channel <= ChannelsNum THEN 0 ELSE 1)
             /\ q < r => Ahead(chn[queue[k].channel]) >=
                  (k - 1) * Share + 1 + q + (IF queue[k].channel <= 0 THEN 0 ELSE 1)
  <2>1. PICK x \in Cw!Channels : x = queue[k].channel
    BY <1>1
  <2>2. PICK a \in Int : a = Ahead(chn[x])
    BY <1>1, AheadBound
  <2>3. PICK before \in Int : before = (k - 1) * Share
    <3>1. k \in Int /\ Share \in Int
      BY SilenceType, QueueBound
    <3>. QED
      BY <3>1
  <2>4. x <= ChannelsNum /\ ~ (x <= 0)
    BY DEF Cw!Channels
  <2>5. a >= before + 1 + r + (IF x <= ChannelsNum THEN 0 ELSE 1)
    BY <2>1, <2>2, <2>3 DEF WaitsInTurn
  <2>6. a >= before + 1 + r
    BY <2>4, <2>5
  <2>7. a >= before + 1 + q + 0 /\ (q < r => a >= before + 1 + q + 1)
    BY <2>6
  <2>. QED
    BY <2>1, <2>2, <2>3, <2>4, <2>7
<1>. QED
  BY <1>1, <1>2 DEF WaitsInTurn

\* All channels hear the window behind acc, one by one.
Turn(f, acc, level, m) ==
  f = [c \in 0 .. m |->
         IF c = 0 THEN [acc EXCEPT !.heard = acc.heard + 1]
         ELSE Cw!Heard(f[c - 1], c, Cw!Carrier(c, acc.heard + 1, level))]

LEMMA TurnExists ==
  ASSUME NEW acc, NEW level
  PROVE  \E f : Turn(f, acc, level, ChannelsNum)
<1>1. PICK n \in Nat : n = ChannelsNum
  BY StreamAssumption DEF StreamAssumption
<1>. DEFINE T == {m \in 0 .. n : \E f : Turn(f, acc, level, m)}
<1>2. 0 \in T
  <2>1. Turn([c \in 0 .. 0 |-> [acc EXCEPT !.heard = acc.heard + 1]], acc, level, 0)
    BY DEF Turn
  <2>. QED
    BY <2>1
<1>3. ASSUME NEW m \in 0 .. n, m \in T, m < n
      PROVE  m + 1 \in T
  <2>1. PICK f : Turn(f, acc, level, m)
    BY <1>3
  <2>2. PICK last : last = Cw!Heard(f[m], m + 1, Cw!Carrier(m + 1, acc.heard + 1, level))
    OBVIOUS
  <2>3. PICK g : g = [c \in 0 .. m + 1 |-> IF c = m + 1 THEN last ELSE f[c]]
    OBVIOUS
  <2>4. ASSUME NEW c \in 0 .. m + 1
        PROVE  g[c] = IF c = 0 THEN [acc EXCEPT !.heard = acc.heard + 1]
                      ELSE Cw!Heard(g[c - 1], c, Cw!Carrier(c, acc.heard + 1, level))
    <3>1. CASE c = m + 1
      <4>1. g[c] = last /\ c - 1 = m /\ c # 0
        BY <2>3, <3>1
      <4>2. g[c - 1] = f[m]
        BY <2>3, <4>1
      <4>. QED
        BY <2>2, <3>1, <4>1, <4>2
    <3>2. CASE c # m + 1
      <4>1. c \in 0 .. m /\ g[c] = f[c]
        BY <2>3, <3>2
      <4>2. c # 0 => g[c - 1] = f[c - 1]
        BY <2>3, <4>1
      <4>. QED
        BY <2>1, <4>1, <4>2 DEF Turn
    <3>. QED
      BY <3>1, <3>2
  <2>5. Turn(g, acc, level, m + 1)
    BY <2>3, <2>4 DEF Turn
  <2>. QED
    BY <1>3, <2>5
<1>. HIDE DEF T
<1>4. \A m \in 0 .. n : m \in T /\ m < n => m + 1 \in T
  BY <1>3
<1>5. 0 .. n \subseteq T /\ n \in 0 .. n
  BY <1>2, <1>4, UpToNat
<1>. QED
  BY <1>1, <1>5 DEF T

\* After a window there is one less to go.
LEMMA WindowTaken ==
  ASSUME NEW acc, NEW level, NEW r \in Nat, r < Share,
         InTurn(acc, r + 1, ChannelsNum)
  PROVE  InTurn(Cw!Window(acc, level), r, ChannelsNum)
<1>1. PICK f : f = CHOOSE g : Turn(g, acc, level, ChannelsNum)
  OBVIOUS
<1>2. Turn(f, acc, level, ChannelsNum)
  BY <1>1, TurnExists
<1>3. PICK n \in Nat : n = ChannelsNum
  BY StreamAssumption DEF StreamAssumption
<1>4. PICK more : more = Cw!Window(acc, level)
  OBVIOUS
<1>5. more =
        LET k == acc.heard + 1
            next1 == [acc EXCEPT !.heard = k]
        IN  CASE Cw!IsDirty(k) -> next1
              [] Cw!IsNoiseFloor(k) ->
                   [next1 EXCEPT !.deaf =
                      @ \cup {c \in Cw!Channels : Cw!Carrier(c, k, level) = 1}]
              [] OTHER -> f[ChannelsNum]
  BY <1>1, <1>4 DEF Cw!Window, Turn
<1>6. f[0] = [acc EXCEPT !.heard = acc.heard + 1]
  BY <1>2, <1>3 DEF Turn
<1>7. \A c \in 1 .. n :
        f[c] = Cw!Heard(f[c - 1], c, Cw!Carrier(c, acc.heard + 1, level))
  <2>1. ASSUME NEW c \in 1 .. n
        PROVE  f[c] = Cw!Heard(f[c - 1], c, Cw!Carrier(c, acc.heard + 1, level))
    <3>1. c \in 0 .. ChannelsNum /\ c # 0
      BY <1>3
    <3>. QED
      BY <1>2, <3>1 DEF Turn
  <2>. QED
    BY <2>1
<1>8. /\ WaitsInTurn(acc.chan, acc.frames, r, n)
      /\ WaitsInTurn(acc.chan, acc.frames, r, 0)
  BY <1>3, InTurnWeaker DEF InTurn
<1>9. CASE more = [acc EXCEPT !.heard = acc.heard + 1]
  BY <1>3, <1>4, <1>8, <1>9 DEF InTurn
<1>10. ASSUME NEW deafNow,
              more = [[acc EXCEPT !.heard = acc.heard + 1] EXCEPT !.deaf = deafNow]
       PROVE  InTurn(more, r, ChannelsNum)
  BY <1>3, <1>8, <1>10 DEF InTurn
<1>11. CASE more = f[ChannelsNum]
  <2>. DEFINE T == {c \in 0 .. n : InTurn(f[c], r, c)}
  <2>1. 0 \in T
    BY <1>6, <1>8 DEF InTurn
  <2>2. ASSUME NEW c \in 0 .. n, c \in T, c < n
        PROVE  c + 1 \in T
    <3>1. PICK d \in Cw!Channels : d = c + 1 /\ d \in 1 .. n /\ d - 1 = c
      BY <1>3, <2>2 DEF Cw!Channels
    <3>2. InTurn(f[d - 1], r, d - 1)
      BY <2>2, <3>1
    <3>3. InTurn(f[d], r, d)
      BY <1>7, <3>1, <3>2, ChannelTurn
    <3>. QED
      BY <3>1, <3>3
  <2>. HIDE DEF T
  <2>3. \A c \in 0 .. n : c \in T /\ c < n => c + 1 \in T
    BY <2>2
  <2>4. 0 .. n \subseteq T /\ n \in 0 .. n
    BY <2>1, <2>3, UpToNat
  <2>. QED
    BY <1>3, <1>4, <1>11, <2>4 DEF T
<1>. QED
  BY <1>4, <1>5, <1>9, <1>10, <1>11

\* The call takes its windows, one by one.
Call(f, waiting, m) ==
  f = [k \in 0 .. m |->
         IF k = 0 THEN [heard |-> heard, deaf |-> deaf, chan |-> chan,
                        frames |-> waiting]
         ELSE Cw!Window(f[k - 1], air[k])]

LEMMA CallExists ==
  ASSUME NEW waiting, NEW n \in Nat
  PROVE  \E f : Call(f, waiting, n)
<1>. DEFINE T == {m \in 0 .. n : \E f : Call(f, waiting, m)}
<1>1. 0 \in T
  <2>1. Call([k \in 0 .. 0 |-> [heard |-> heard, deaf |-> deaf, chan |-> chan,
                                frames |-> waiting]], waiting, 0)
    BY DEF Call
  <2>. QED
    BY <2>1
<1>2. ASSUME NEW m \in 0 .. n, m \in T, m < n
      PROVE  m + 1 \in T
  <2>1. PICK f : Call(f, waiting, m)
    BY <1>2
  <2>2. PICK last : last = Cw!Window(f[m], air[m + 1])
    OBVIOUS
  <2>3. PICK g : g = [k \in 0 .. m + 1 |-> IF k = m + 1 THEN last ELSE f[k]]
    OBVIOUS
  <2>4. ASSUME NEW k \in 0 .. m + 1
        PROVE  g[k] = IF k = 0 THEN [heard |-> heard, deaf |-> deaf,
                                     chan |-> chan, frames |-> waiting]
                      ELSE Cw!Window(g[k - 1], air[k])
    <3>1. CASE k = m + 1
      <4>1. g[k] = last /\ k - 1 = m /\ k # 0
        BY <2>3, <3>1
      <4>2. g[k - 1] = f[m]
        BY <2>3, <4>1
      <4>. QED
        BY <2>2, <3>1, <4>1, <4>2
    <3>2. CASE k # m + 1
      <4>1. k \in 0 .. m /\ g[k] = f[k]
        BY <2>3, <3>2
      <4>2. k # 0 => g[k - 1] = f[k - 1]
        BY <2>3, <4>1
      <4>. QED
        BY <2>1, <4>1, <4>2 DEF Call
    <3>. QED
      BY <3>1, <3>2
  <2>5. Call(g, waiting, m + 1)
    BY <2>3, <2>4 DEF Call
  <2>. QED
    BY <1>2, <2>5
<1>. HIDE DEF T
<1>3. \A m \in 0 .. n : m \in T /\ m < n => m + 1 \in T
  BY <1>2
<1>4. 0 .. n \subseteq T /\ n \in 0 .. n
  BY <1>1, <1>3, UpToNat
<1>. QED
  BY <1>4 DEF T

\* After a call no longer than a share the frames still wait in turn.
LEMMA CallTaken ==
  ASSUME NEW n \in Nat, n <= Share, WaitsInTurn(chan, frames, Share, ChannelsNum)
  PROVE  InTurn(Cw!Windows(n, frames), 0, ChannelsNum)
<1>1. PICK f : f = CHOOSE g : Call(g, frames, n)
  OBVIOUS
<1>2. Call(f, frames, n)
  BY <1>1, CallExists
<1>3. Cw!Windows(n, frames) = f[n]
  BY <1>1 DEF Cw!Windows, Call
<1>. DEFINE T == {k \in 0 .. n : InTurn(f[k], n - k, ChannelsNum)}
<1>4. 0 \in T
  <2>1. f[0] = [heard |-> heard, deaf |-> deaf, chan |-> chan, frames |-> frames]
    BY <1>2 DEF Call
  <2>2. WaitsInTurn(chan, frames, n, ChannelsNum)
    BY InTurnWeaker, SilenceType
  <2>3. n - 0 = n
    OBVIOUS
  <2>. QED
    BY <2>1, <2>2, <2>3 DEF InTurn
<1>5. ASSUME NEW k \in 0 .. n, k \in T, k < n
      PROVE  k + 1 \in T
  <2>1. PICK r \in Nat : r = n - (k + 1) /\ r + 1 = n - k /\ r < Share
    BY <1>5, SilenceType
  <2>2. InTurn(f[k], r + 1, ChannelsNum)
    BY <1>5, <2>1
  <2>3. f[k + 1] = Cw!Window(f[k], air[k + 1])
    <3>1. k + 1 \in 0 .. n /\ k + 1 # 0 /\ (k + 1) - 1 = k
      BY <1>5
    <3>. QED
      BY <1>2, <3>1 DEF Call
  <2>4. InTurn(f[k + 1], r, ChannelsNum)
    BY <2>1, <2>2, <2>3, WindowTaken
  <2>. QED
    BY <1>5, <2>1, <2>4
<1>. HIDE DEF T
<1>6. \A k \in 0 .. n : k \in T /\ k < n => k + 1 \in T
  BY <1>5
<1>7. 0 .. n \subseteq T /\ n \in 0 .. n
  BY <1>4, <1>6, UpToNat
<1>8. n - n = 0
  OBVIOUS
<1>. QED
  BY <1>3, <1>7, <1>8 DEF T

LEMMA CwInitInv == Cw!Init => CwInv
<1>. SUFFICES ASSUME Cw!Init PROVE CwInv
  OBVIOUS
<1>1. chan = [c \in Cw!Channels |-> Cw!EmptyChannel] /\ frames = <<>>
  BY DEF Cw!Init
<1>2. PICK e : e = Cw!EmptyChannel
  OBVIOUS
<1>3. IsChannel(e) /\ e.done = <<>>
  BY <1>2 DEF Cw!EmptyChannel, IsChannel, States
<1>4. Len(frames) = 0 /\ IsSequence(frames)
  BY <1>1, EmptySeq DEF IsSequence
<1>5. WaitsInTurn(chan, frames, Share, ChannelsNum)
  <2>1. \A k \in 1 .. Len(frames) : FALSE
    BY <1>4
  <2>2. chan = [d \in Cw!Channels |-> chan[d]]
    BY <1>1
  <2>3. \A d \in Cw!Channels : IsChannel(chan[d]) /\ chan[d].done = <<>>
    BY <1>1, <1>2, <1>3
  <2>. QED
    BY <1>4, <2>1, <2>2, <2>3 DEF WaitsInTurn
<1>. QED
  BY <1>4, <1>5, StreamAssumption DEF CwInv, StreamAssumption

LEMMA CwDecodeInv ==
  ASSUME CwInv, NEW n \in DecodeSizes, Cw!Decode(n)
  PROVE  CwInv'
<1>. SUFFICES ASSUME SharesFit
             PROVE  /\ WaitsInTurn(chan', frames', Share, ChannelsNum)
                    /\ Len(frames') < ChannelsNum
  BY DEF CwInv, WaitsInTurn, SharesFit, Silence, Share, Cw!LongPause, Cw!Channels,
         IsChannel, Ahead, IsSequence
<1>1. n \in Nat /\ n <= Share
  BY ShareProperties, StreamAssumption DEF SharesFit, StreamAssumption
<1>2. PICK acc : acc = Cw!Windows(n, frames)
  OBVIOUS
<1>3. InTurn(acc, 0, ChannelsNum)
  BY <1>1, <1>2, CallTaken DEF CwInv
<1>4. PICK queue : queue = acc.frames
  OBVIOUS
<1>5. /\ chan' = acc.chan
      /\ frames' = IF queue = <<>> THEN <<>> ELSE Tail(queue)
  BY <1>2, <1>4 DEF Cw!Decode
<1>6. WaitsInTurn(chan', queue, 0, ChannelsNum)
  BY <1>3, <1>4, <1>5 DEF InTurn
<1>7. PICK m \in Nat : m = Len(queue) /\ m <= ChannelsNum
  BY <1>6, QueueBound
<1>8. PICK num \in Nat \ {0} : num = ChannelsNum
  BY StreamAssumption DEF StreamAssumption
<1>9. /\ chan' = [d \in Cw!Channels |-> chan'[d]]
      /\ \A d \in Cw!Channels : IsChannel(chan'[d]) /\ chan'[d].done = <<>>
      /\ IsSequence(queue)
      /\ \A j, k \in 1 .. m : queue[j].channel = queue[k].channel => j = k
      /\ \A k \in 1 .. m : queue[k].channel \in Cw!Channels
  BY <1>6, <1>7 DEF WaitsInTurn
<1>10. CASE queue = <<>>
  <2>1. frames' = queue /\ m = 0
    BY <1>5, <1>7, <1>10
  <2>2. \A k \in 1 .. Len(queue) : FALSE
    BY <1>7, <2>1
  <2>3. WaitsInTurn(chan', queue, Share, ChannelsNum)
    BY <1>9, <2>2 DEF WaitsInTurn
  <2>. QED
    BY <1>7, <1>8, <2>1, <2>3
<1>11. CASE queue # <<>>
  <2>1. PICK rest : rest = Tail(queue)
    OBVIOUS
  <2>2. PICK S : queue \in Seq(S)
    BY <1>9 DEF IsSequence
  <2>3. /\ rest \in Seq(S) /\ Len(rest) = m - 1
        /\ \A k \in 1 .. Len(rest) : rest[k] = queue[k + 1]
    BY <1>7, <1>11, <2>1, <2>2, HeadTailProperties
  <2>4. IsSequence(rest)
    BY <2>3, SequenceOver
  <2>5. ASSUME NEW k \in 1 .. m - 1
        PROVE  /\ rest[k].channel \in Cw!Channels
               /\ Ahead(chan'[rest[k].channel]) >=
                    (k - 1) * Share + 1 + Share
                      + (IF rest[k].channel <= ChannelsNum THEN 0 ELSE 1)
    <3>1. PICK j \in 1 .. m : j = k + 1
      OBVIOUS
    <3>2. PICK x \in Cw!Channels : x = queue[j].channel
      BY <1>9
    <3>3. rest[k].channel = x
      BY <2>3, <3>1, <3>2
    <3>4. PICK a \in Int : a = Ahead(chan'[x])
      BY <1>9, AheadBound
    <3>5. PICK before \in Int, share \in Int :
            before = (k - 1) * Share /\ share = Share
      <4>1. k - 1 \in Int /\ Share \in Int
        BY SilenceType
      <4>2. \A y, z \in Int : y * z \in Int
        OBVIOUS
      <4>. QED
        BY <4>1, <4>2
    <3>6. (j - 1) * Share = before + share
      <4>1. \A z \in Int : ((k + 1) - 1) * z = (k - 1) * z + z
        OBVIOUS
      <4>. QED
        BY <3>1, <3>5, <4>1
    <3>7. a >= (before + share) + 1 + 0
                 + (IF x <= ChannelsNum THEN 0 ELSE 1)
      BY <1>6, <1>7, <3>1, <3>2, <3>4, <3>6 DEF WaitsInTurn
    <3>8. a >= before + 1 + share + (IF x <= ChannelsNum THEN 0 ELSE 1)
      BY <3>7
    <3>. QED
      BY <3>2, <3>3, <3>4, <3>5, <3>8
  <2>6. ASSUME NEW j \in 1 .. m - 1, NEW k \in 1 .. m - 1,
               rest[j].channel = rest[k].channel
        PROVE  j = k
    <3>1. rest[j] = queue[j + 1] /\ rest[k] = queue[k + 1]
      BY <2>3
    <3>2. j + 1 \in 1 .. m /\ k + 1 \in 1 .. m
      OBVIOUS
    <3>3. j + 1 = k + 1
      BY <1>9, <2>6, <3>1, <3>2
    <3>. QED
      BY <3>3
  <2>7. WaitsInTurn(chan', rest, Share, ChannelsNum)
    BY <1>9, <2>3, <2>4, <2>5, <2>6 DEF WaitsInTurn
  <2>8. Len(rest) < ChannelsNum
    BY <1>7, <1>8, <2>3
  <2>. QED
    BY <1>5, <1>11, <2>1, <2>7, <2>8
<1>. QED
  BY <1>10, <1>11

LEMMA CwResetInv ==
  ASSUME CwInv, Cw!Reset
  PROVE  CwInv'
<1>. SUFFICES ASSUME SharesFit
             PROVE  /\ WaitsInTurn(chan', frames, Share, ChannelsNum)
                    /\ Len(frames) < ChannelsNum
  BY DEF CwInv, Cw!Reset, WaitsInTurn
<1>1. WaitsInTurn(chan, frames, Share, ChannelsNum) /\ Len(frames) < ChannelsNum
  BY DEF CwInv
<1>2. PICK chn : chn = chan'
  OBVIOUS
<1>3. chn = [c \in Cw!Channels |->
              [chan[c] EXCEPT !.tree = Cw!EmptyTree, !.width = 0, !.state = "NO_SYNC"]]
  BY <1>2 DEF Cw!Reset
<1>4. ASSUME NEW c \in Cw!Channels
      PROVE  /\ IsChannel(chn[c]) /\ chn[c].done = <<>>
             /\ Ahead(chn[c]) >= Ahead(chan[c])
  <2>1. PICK old : old = chan[c]
    OBVIOUS
  <2>2. IsChannel(old) /\ old.done = <<>>
    BY <1>1, <2>1 DEF WaitsInTurn
  <2>3. PICK new : new = [old EXCEPT !.tree = Cw!EmptyTree, !.width = 0,
                                    !.state = "NO_SYNC"]
    OBVIOUS
  <2>4. new = [state |-> "NO_SYNC", width |-> 0, str |-> old.str,
               tree |-> Cw!EmptyTree, done |-> old.done, movs |-> old.movs,
               stdMovs |-> old.stdMovs]
    BY <2>2, <2>3 DEF IsChannel
  <2>5. IsChannel(new) /\ new.done = <<>> /\ new.width = 0
    BY <2>2, <2>4 DEF IsChannel, States
  <2>6. Ahead(new) = Silence + 1 /\ Ahead(old) \in Int /\ Ahead(old) <= Silence + 1
    BY <2>2, <2>5, EnteredAhead, AheadBound
  <2>7. chn[c] = new
    BY <1>3, <2>1, <2>3
  <2>. QED
    BY <2>1, <2>5, <2>6, <2>7, SilenceType
<1>5. ASSUME NEW k \in 1 .. Len(frames)
      PROVE  Ahead(chn[frames[k].channel]) >=
               (k - 1) * Share + 1 + Share
                 + (IF frames[k].channel <= ChannelsNum THEN 0 ELSE 1)
  <2>1. PICK x \in Cw!Channels : x = frames[k].channel
    BY <1>1 DEF WaitsInTurn
  <2>2. PICK a \in Int, b \in Int : a = Ahead(chan[x]) /\ b = Ahead(chn[x])
    BY <1>1, <1>4, AheadBound DEF WaitsInTurn
  <2>3. PICK bound : bound = (k - 1) * Share + 1 + Share
                               + (IF x <= ChannelsNum THEN 0 ELSE 1)
    OBVIOUS
  <2>4. bound \in Int
    <3>1. k - 1 \in Int /\ Share \in Int
      BY <1>1, QueueBound, SilenceType
    <3>2. \A y, z \in Int : y * z \in Int
      OBVIOUS
    <3>3. (k - 1) * Share \in Int
      BY <3>1, <3>2
    <3>. QED
      BY <2>3, <3>1, <3>3
  <2>5. a >= bound
    BY <1>1, <2>1, <2>2, <2>3 DEF WaitsInTurn
  <2>6. b >= a
    BY <1>4, <2>2
  <2>7. b >= bound
    BY <2>4, <2>5, <2>6
  <2>. QED
    BY <2>1, <2>2, <2>3, <2>7
<1>6. WaitsInTurn(chn, frames, Share, ChannelsNum)
  <2>1. chn = [d \in Cw!Channels |-> chn[d]]
    BY <1>3
  <2>. QED
    BY <1>1, <1>4, <1>5, <2>1 DEF WaitsInTurn
<1>. QED
  BY <1>1, <1>2, <1>6

LEMMA CwKept ==
  ASSUME CwInv, UNCHANGED <<chan, frames>>
  PROVE  CwInv'
BY DEF CwInv, WaitsInTurn

LEMMA CwNextInv ==
  ASSUME CwInv, Cw!Next
  PROVE  CwInv'
<1>1. CASE Cw!SendChar \/ Cw!SendPause \/ \E n \in WorkSizes : Cw!Work(n)
  BY <1>1, CwKept
  DEF Cw!SendChar, Cw!SendPause, Cw!Work, Cw!decoder
<1>2. CASE \E n \in DecodeSizes : Cw!Decode(n)
  BY <1>2, CwDecodeInv
<1>3. CASE Cw!Reset
  BY <1>3, CwResetInv
<1>. QED
  BY <1>1, <1>2, <1>3 DEF Cw!Next

\* With calls so short that one for each channel fits in the silence that ends
\* a message, no more than one frame of each other channel waits: what one call
\* completes is passed on before there is more.
THEOREM QueueStaysShort == Spec => []QueueShort
<1>. DEFINE QueueInv == kind = "cw" => CwInv
<1>1. Init => QueueInv
  BY CwInitInv DEF Init
<1>2. QueueInv /\ [Next]_vars => QueueInv'
  <2>. SUFFICES ASSUME QueueInv, [Next]_vars, kind' = "cw" PROVE CwInv'
    OBVIOUS
  <2>1. CASE UNCHANGED vars
    BY <2>1, CwKept DEF vars, onlyCw
  <2>2. CASE Next
    BY <2>2, CwNextInv DEF Next
  <2>. QED
    BY <2>1, <2>2
<1>3. QueueInv => QueueShort
  BY DEF CwInv, QueueShort, Cw!QueueShort, SharesFit, Silence
<1>. QED
  BY <1>1, <1>2, <1>3, PTL DEF Spec

-----------------------------------------------------------------------------
(* The contract of the decoders *)

LEMMA SpansOfArgos ==
  ASSUME kind = "argos", kind' = kind
  PROVE  Spans = SpansOf(out) /\ Spans' = SpansOf(out')
BY DEF Spans, SpansOf, Ranged, RangedIn, Nth, RangeOf

LEMMA SpansOfOthers ==
  ASSUME kind # "argos", kind' = kind
  PROVE  Spans = <<>> /\ Spans' = <<>>
<1>1. 1 .. 0 = {}
  OBVIOUS
<1>. QED
  BY <1>1 DEF Spans

LEMMA InitRefines == Init => Contract!Init
<1>. SUFFICES ASSUME Init PROVE Contract!Init
  OBVIOUS
<1>1. rx = <<>> /\ nitemsRead = 0 /\ (kind = "argos" => out = <<>>)
  BY DEF Init, Argos!Init, Amsat!Init, IdleArgos, IdleBits
<1>2. <<>> \in Seq(Bit) /\ Len(<<>>) = 0
  BY EmptySeq
<1>3. Spans = <<>>
  <2>1. kind = "argos" => Ranged = {}
    BY <1>1, <1>2 DEF Ranged
  <2>2. Cardinality({}) = 0
    BY FS_EmptySet
  <2>3. 1 .. 0 = {}
    OBVIOUS
  <2>. QED
    BY <2>1, <2>2, <2>3 DEF Spans
<1>. QED
  BY <1>1, <1>2, <1>3 DEF Contract!Init

\* Every step of argos is a step of the contract.
LEMMA ArgosNextRefines ==
  ASSUME ArgosInv, Argos!Next, kind = "argos", kind' = kind
  PROVE  [Contract!Next]_(Contract!contractVars)
<1>1. Spans = SpansOf(out) /\ Spans' = SpansOf(out')
  BY SpansOfArgos
<1>2. /\ Len(rx) \in Nat /\ nitemsRead \in Nat /\ nitemsRead <= Len(rx)
      /\ SpansBehind(out, nitemsRead)
  BY BufferLength DEF ArgosInv
<1>3. nitemsRead' \in Nat /\ Len(rx') \in Nat /\ nitemsRead' <= Len(rx')
  <2>1. ArgosInv'
    BY ArgosNextInv
  <2>2. ArgosTypeOK' /\ Argos!BufferAccounted'
    BY <2>1 DEF ArgosInv
  <2>3. nitemsRead' \in Nat /\ rx' \in Seq(Bit)
    BY <2>2 DEF ArgosTypeOK
  <2>4. nitemsRead' <= Len(rx')
    BY <2>2 DEF Argos!BufferAccounted
  <2>. QED
    BY <2>3, <2>4, LenProperties
<1>4. ASSUME rx' = rx, nitemsRead <= nitemsRead', SpansOf(out') = SpansOf(out)
      PROVE  Contract!Next
  <2>1. nitemsRead' >= nitemsRead /\ nitemsRead' <= Len(rx)
    BY <1>2, <1>3, <1>4
  <2>. QED
    BY <1>1, <1>4, <2>1 DEF Contract!Next, Contract!Advance
<1>5. CASE \E bits \in ArgosChunks : Argos!Decode(bits)
  <2>1. PICK bits \in ArgosChunks : Argos!Decode(bits)
    BY <1>5
  <2>2. Len(rx') >= Len(rx)
    BY <2>1, ArgosDecodeInv
  <2>3. nitemsRead' = nitemsRead /\ out' = out
    BY <2>1 DEF Argos!Decode, Argos!machine
  <2>. QED
    BY <1>1, <1>3, <2>2, <2>3 DEF Contract!Next, Contract!Feed
<1>6. CASE Argos!Reset
  <2>1. nitemsRead' = nitemsRead /\ rx' = rx
    BY <1>6 DEF Argos!Reset, Argos!buffer
  <2>2. SpansOf(out') = SpansOf(out)
    BY <1>6, ArgosResetInv
  <2>3. nitemsRead <= nitemsRead'
    BY <1>2, <2>1
  <2>. QED
    BY <1>4, <2>1, <2>2, <2>3
<1>7. CASE Argos!NoSyncBit \/ Argos!NoSyncFlags \/ Argos!NoSyncEnd
  <2>1. SpansOf(out') = SpansOf(out) /\ nitemsRead <= nitemsRead'
    BY <1>7, ArgosNoSyncInv
  <2>2. rx' = rx
    BY <1>7 DEF Argos!NoSyncBit, Argos!NoSyncFlags, Argos!NoSyncEnd, Argos!Shift,
                Argos!Return, Argos!env
  <2>. QED
    BY <1>4, <2>1, <2>2
<1>8. CASE Argos!FrameEnd
  <2>1. /\ nitemsRead <= nitemsRead' /\ rx' = rx
        /\ \E span : /\ SpansOf(out') = Append(SpansOf(out), span)
                     /\ span.start = nitemsRead
                     /\ span.cnt \in Nat
                     /\ span.start + span.cnt <= Len(rx)
    BY <1>8, ArgosFrameEnds
  <2>2. PICK span : /\ Spans' = Append(Spans, span)
                    /\ span.start = nitemsRead
                    /\ span.cnt \in Nat
                    /\ span.start + span.cnt <= Len(rx)
    BY <1>1, <2>1
  <2>3. IsSequence(Spans) /\ Len(Spans) = Len(SpansOf(out))
    BY <1>1, <1>2, SpansProperties DEF SpansBehind
  <2>4. Len(Spans) \in Nat /\ Spans'[Len(Spans) + 1] = span
    BY <2>2, <2>3, SequenceAppend
  <2>5. ASSUME Spans # <<>>
        PROVE  span.start + 0
                 >= Spans[Len(Spans)].start + Spans[Len(Spans)].cnt
    <3>1. Len(Spans) \in 1 .. Len(SpansOf(out))
      BY <2>3, <2>4, <2>5, EmptySeq DEF IsSequence
    <3>2. /\ Spans[Len(Spans)].start \in Nat /\ Spans[Len(Spans)].cnt \in Nat
          /\ Spans[Len(Spans)].start + Spans[Len(Spans)].cnt <= nitemsRead
      BY <1>1, <1>2, <3>1 DEF SpansBehind
    <3>. QED
      BY <1>2, <2>2, <3>2
  <2>6. /\ span.start >= 0 /\ span.cnt >= 0
        /\ nitemsRead' >= nitemsRead /\ nitemsRead' <= Len(rx)
    BY <1>2, <1>3, <2>1, <2>2
  <2>. QED
    BY <2>1, <2>2, <2>4, <2>5, <2>6
    DEF Contract!Next, Contract!Deliver, Contract!EndOf
<1>9. CASE \/ Argos!InSyncBit \/ Argos!InSyncData \/ Argos!OutOfBits
           \/ Argos!TooShort \/ Argos!FrameUnchecked \/ Argos!FrameCrcWrong
           \/ Argos!StuffedBit \/ Argos!DataBit \/ Argos!WrongSize
           \/ Argos!SevenOnes
  <2>1. SpansOf(out') = SpansOf(out) /\ UNCHANGED <<nitemsRead, rx>>
    BY <1>9, ArgosInFrameInv
  <2>2. nitemsRead <= nitemsRead'
    BY <1>2, <2>1
  <2>. QED
    BY <1>4, <2>1, <2>2
<1>. QED
  BY <1>5, <1>6, <1>7, <1>8, <1>9 DEF Argos!Next, Argos!Scan

\* Every step is a step of the contract, or none of it.
LEMMA NextRefines ==
  ASSUME Inv, [Next]_vars
  PROVE  [Contract!Next]_(Contract!contractVars)
<1>1. CASE UNCHANGED vars
  <2>1. UNCHANGED <<kind, rx, nitemsRead, out>>
    BY <1>1 DEF vars, ofBits, onlyArgos
  <2>2. Spans' = Spans
    BY <2>1 DEF Spans, Ranged, Nth
  <2>. QED
    BY <2>1, <2>2 DEF Contract!contractVars
<1>2. CASE Next /\ kind = "argos"
  <2>1. Argos!Next /\ kind' = kind /\ ArgosInv
    BY <1>2 DEF Next, Inv
  <2>. QED
    BY <1>2, <2>1, ArgosNextRefines
<1>3. CASE Next /\ kind = "amsat"
  <2>1. Amsat!Next /\ kind' = kind /\ AmsatInv /\ nitemsRead' = nitemsRead
    BY <1>3 DEF Next, Inv, onlyArgos
  <2>2. Len(rx') >= Len(rx) /\ AmsatInv'
    BY <2>1, AmsatNextInv
  <2>3. Len(rx') \in Nat
    BY <2>2, LenProperties DEF AmsatInv, AmsatTypeOK
  <2>4. Spans' = Spans
    BY <1>3, <2>1, SpansOfOthers
  <2>. QED
    BY <2>1, <2>2, <2>3, <2>4 DEF Contract!Next, Contract!Feed
<1>4. CASE Next /\ kind = "cw"
  <2>1. UNCHANGED <<kind, rx, nitemsRead>>
    BY <1>4 DEF Next, ofBits, onlyArgos
  <2>2. Spans' = Spans
    BY <1>4, <2>1, SpansOfOthers
  <2>. QED
    BY <2>1, <2>2 DEF Contract!contractVars
<1>. QED
  BY <1>1, <1>2, <1>3, <1>4 DEF Next

\* argos, amsat and cw keep the contract of the decoders: the read cursor of
\* argos only moves forward over what it was handed, no two of the ranges it
\* reports overlap, and the others report none.
THEOREM Refinement == Spec => ImplementsDecoder
<1>1. Init => Contract!Init
  BY InitRefines
<1>2. Inv /\ [Next]_vars => [Contract!Next]_(Contract!contractVars)
  BY NextRefines
<1>. QED
  BY <1>1, <1>2, Invariance, PTL DEF Spec, ImplementsDecoder, Contract!Spec
=============================================================================
