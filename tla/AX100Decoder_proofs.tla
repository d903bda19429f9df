------------------------ MODULE AX100Decoder_proofs ------------------------
(***************************************************************************)
(* Proofs about AX100Decoder for every set of constructor arguments, every *)
(* Golay code, CRC and descrambler and every set of chunks: mode 6 loses   *)
(* no bit that it may have to search again, mode 5 publishes the frames    *)
(* that were sent and reports their place on the line, and both modes      *)
(* implement the contract of the decoders.                                 *)
(***************************************************************************)
EXTENDS AX100Decoder, SequenceTheorems, FiniteSetTheorems, DecoderLemmas, TLAPS


-----------------------------------------------------------------------------
(* Mode 6: the line *)

\* The levels on the line are bits, and as long as d_prev_bit_nrzi is the last
\* of them, the decoder reads what was sent.
LEMMA NrziReadsLine ==
  ASSUME NEW bits \in Seq(Bit), bits # <<>>, level \in Bit, prevBit = level
  PROVE  /\ Mode6!Nrzi(Mode6!Line(bits)) = bits
         /\ Len(Mode6!Line(bits)) = Len(bits)
         /\ Mode6!Line(bits)[Len(bits)] \in Bit
<1>. DEFINE line == Mode6!Line(bits)
            n == Len(bits)
<1>1. n \in Nat /\ n > 0
  BY LenProperties, EmptySeq
<1>2. \A k \in 1 .. n : line[k] = (level + Cardinality(ZerosTo(bits, k))) % 2
  BY DEF Mode6!Line, ZerosTo, Mode6!Cardinality, Cardinality
<1>3. \A k \in 1 .. n : line[k] \in Bit
  <2>. SUFFICES ASSUME NEW k \in 1 .. n
                PROVE  (level + Cardinality(ZerosTo(bits, k))) % 2 \in Bit
    BY <1>2
  <2>1. Cardinality(ZerosTo(bits, k)) \in Nat /\ level \in Nat
    BY ZerosNext DEF Bit
  <2>. QED
    BY <2>1 DEF Bit
<1>4. line \in Seq(Bit) /\ Len(line) = n
  <2>1. line \in [1 .. n -> Bit]
    <3>1. line = [k \in 1 .. n |-> line[k]]
      BY DEF Mode6!Line
    <3>. HIDE DEF line
    <3>. QED
      BY <1>3, <3>1
  <2>. HIDE DEF line, n
  <2>. QED
    BY <1>1, <2>1, FunctionSequence
<1>5. ASSUME NEW k \in 1 .. n
      PROVE  1 - ((line[k] - (IF k = 1 THEN prevBit ELSE line[k - 1])) % 2)
               = bits[k]
  <2>. DEFINE c == Cardinality(ZerosTo(bits, k - 1))
              d == Cardinality(ZerosTo(bits, k))
              last == IF k = 1 THEN prevBit ELSE line[k - 1]
  <2>1. c \in Nat /\ d \in Nat /\ d = c + 1 - bits[k]
    BY ZerosNext
  <2>2. bits[k] \in Bit /\ level \in Bit
    BY ElementOfSeq
  <2>3. line[k] = (level + d) % 2
    BY <1>2
  <2>4. last = (level + c) % 2
    <3>1. CASE k = 1
      <4>1. ZerosTo(bits, 0) = {}
        BY DEF ZerosTo
      <4>2. c = 0
        <5>1. k - 1 = 0
          BY <3>1
        <5>. QED
          BY <4>1, <5>1, FS_EmptySet
      <4>3. \A l \in Bit : l = (l + 0) % 2
        BY DEF Bit
      <4>. QED
        BY <2>2, <3>1, <4>2, <4>3
    <3>2. CASE k # 1
      <4>1. k - 1 \in 1 .. n
        BY <1>1, <3>2
      <4>. QED
        BY <1>2, <3>2, <4>1
    <3>. QED
      BY <3>1, <3>2
  <2>. HIDE DEF c, d, last, line
  <2>5. level + c \in Nat
    BY <2>1, <2>2 DEF Bit
  <2>6. line[k] = IF bits[k] = 1 THEN last ELSE 1 - last
    <3>1. CASE bits[k] = 1
      <4>1. level + d = level + c
        BY <2>1, <2>2, <3>1 DEF Bit
      <4>. QED
        BY <2>3, <2>4, <3>1, <4>1
    <3>2. CASE bits[k] = 0
      <4>1. level + d = (level + c) + 1
        BY <2>1, <2>2, <3>2 DEF Bit
      <4>2. \A m \in Nat : (m + 1) % 2 = 1 - (m % 2)
        OBVIOUS
      <4>. QED
        BY <2>3, <2>4, <2>5, <3>2, <4>1, <4>2
    <3>. QED
      BY <2>2, <3>1, <3>2 DEF Bit
  <2>7. last \in Bit
    BY <2>4, <2>5 DEF Bit
  <2>8. \A l, b \in Bit : 1 - (((IF b = 1 THEN l ELSE 1 - l) - l) % 2) = b
    BY DEF Bit
  <2>9. 1 - ((line[k] - last) % 2) = bits[k]
    BY <2>2, <2>6, <2>7, <2>8
  <2>. QED
    BY <2>9 DEF last
<1>6. Mode6!Nrzi(line) = bits
  <2>1. Mode6!Nrzi(line) = [k \in 1 .. n |-> bits[k]]
    BY <1>4, <1>5 DEF Mode6!Nrzi
  <2>2. [k \in 1 .. n |-> bits[k]] = bits
    OBVIOUS
  <2>. QED
    BY <2>1, <2>2
<1>. QED
  BY <1>1, <1>3, <1>4, <1>6

-----------------------------------------------------------------------------
(***************************************************************************)
(* Mode 6: the inductive invariant.  A published frame ends behind the     *)
(* read cursor, and while a frame is open the cursor is where it begins.   *)
(***************************************************************************)

TypeOK6 ==
  /\ level \in Bit
  /\ decB \in Byte
  /\ decodedBits \in 0 .. 7
  /\ frame \in Seq(Byte)
  /\ dsPos \in Nat
  /\ bitstream \in Seq(Bit)
  /\ rx \in Seq(Bit)
  /\ startIdx \in Nat
  /\ frameStart \in Nat
  /\ nitemsRead \in Nat
  /\ i \in Nat

\* The frames published so far end where reading has come to.
DeliveredBehind ==
  /\ IsSequence(out)
  /\ \A n \in 1 .. Len(out) :
       /\ out[n].start \in Nat /\ out[n].cnt \in Nat
       /\ out[n].start + out[n].cnt <= nitemsRead

\* decode_rs_8 corrects a block where it stands, and whitening::descramble
\* writes as many octets as it reads.
CodesInPlace ==
  /\ \A octets \in Seq(Byte) :
       RsDecode(octets) # <<>> =>
         RsDecode(octets) \in Seq(Byte) /\ Len(RsDecode(octets)) = Len(octets)
  /\ \A pos \in Nat, octet \in Byte : Descramble(pos, octet) \in Byte

\* d_bitstream and the line.
LineAccounted ==
  /\ prevBit = level
  /\ nitemsRead + Len(bitstream) = Len(rx)
  /\ bitstream = Rest(rx, nitemsRead)

Inv6 == TypeOK6 /\ Mode6!BufferAccounted /\ DeliveredBehind

\* The parts of BufferAccounted.
LEMMA AccountedParts ==
  Mode6!BufferAccounted <=>
    /\ LineAccounted
    /\ i <= Len(bitstream)
    /\ state # "NO_SYNC" => /\ frameStart = nitemsRead
                            /\ startIdx <= Len(bitstream)
                            /\ pc = "idle" => startIdx = Len(bitstream)
    /\ state # "DECODING" => frame = <<>> /\ dsPos = 0
    /\ Len(frame) < MaxFrameLen
BY DEF Mode6!BufferAccounted, LineAccounted, Rest

\* The decoder starts in the invariant.
LEMMA Init6Inv == Mode6!Init => Inv6
<1>. SUFFICES ASSUME Mode6!Init PROVE Inv6
  OBVIOUS
<1>1. <<>> \in Seq(Bit) /\ <<>> \in Seq(Byte) /\ Len(<<>>) = 0
  BY EmptySeq
<1>2. TypeOK6
  BY <1>1 DEF Mode6!Init, TypeOK6, Bit, Byte
<1>3. IsSequence(<<>>)
  BY <1>1, SequenceOver
<1>4. DeliveredBehind
  BY <1>1, <1>3 DEF Mode6!Init, DeliveredBehind
<1>5. Rest(<<>>, 0) = <<>>
  BY <1>1, RestNone
<1>6. LineAccounted
  BY <1>1, <1>5 DEF Mode6!Init, LineAccounted
<1>7. Mode6!BufferAccounted
  BY <1>1, <1>6, AccountedParts, StreamAssumption
  DEF Mode6!Init, StreamAssumption
<1>. QED
  BY <1>2, <1>4, <1>7 DEF Inv6

\* A call of decode() appends the bits that were sent.
LEMMA Decode6Inv ==
  ASSUME Inv6, NEW bits \in Mode6Chunks, Mode6!Decode(bits)
  PROVE  Inv6'
<1>. DEFINE line == Mode6!Line(bits)
<1>1. /\ TypeOK6 /\ DeliveredBehind /\ LineAccounted
      /\ i <= Len(bitstream)
      /\ state # "NO_SYNC" => /\ frameStart = nitemsRead
                              /\ startIdx <= Len(bitstream)
                              /\ pc = "idle" => startIdx = Len(bitstream)
      /\ state # "DECODING" => frame = <<>> /\ dsPos = 0
      /\ Len(frame) < MaxFrameLen
  BY AccountedParts DEF Inv6
<1>2. bits \in Seq(Bit) /\ bits # <<>>
  BY StreamAssumption DEF StreamAssumption, Bit
<1>3. /\ Mode6!Nrzi(line) = bits
      /\ line[Len(line)] \in Bit
  BY <1>1, <1>2, NrziReadsLine DEF TypeOK6, LineAccounted
<1>4. /\ bitstream' = bitstream \o bits
      /\ rx' = rx \o bits
      /\ prevBit' = line[Len(bits)] /\ level' = line[Len(bits)]
      /\ pc = "idle" /\ pc' = "scan"
      /\ i' = IF state = "NO_SYNC" THEN 0 ELSE startIdx
      /\ UNCHANGED <<state, decB, decodedBits, frame, dsPos, startIdx,
                     frameStart, nitemsRead, out>>
  BY <1>3 DEF Mode6!Decode, Mode6!machine
<1>. HIDE DEF line
<1>5. line[Len(bits)] \in Bit
  BY <1>1, <1>2, NrziReadsLine DEF TypeOK6, LineAccounted, line
<1>6. /\ bitstream \in Seq(Bit) /\ rx \in Seq(Bit)
      /\ Len(bitstream) \in Nat /\ Len(rx) \in Nat /\ Len(bits) \in Nat
      /\ nitemsRead \in Nat /\ startIdx \in Nat
  BY <1>1, <1>2, LenProperties DEF TypeOK6
<1>7. /\ bitstream' \in Seq(Bit) /\ Len(bitstream') = Len(bitstream) + Len(bits)
      /\ rx' \in Seq(Bit) /\ Len(rx') = Len(rx) + Len(bits)
  BY <1>2, <1>4, <1>6, ConcatProperties
<1>8. i' \in Nat /\ i' <= Len(bitstream')
  BY <1>1, <1>4, <1>6, <1>7
<1>9. TypeOK6'
  BY <1>1, <1>4, <1>5, <1>7, <1>8 DEF TypeOK6
<1>10. DeliveredBehind'
  BY <1>1, <1>4 DEF DeliveredBehind, IsSequence
<1>11. LineAccounted'
  <2>1. nitemsRead \in 0 .. Len(rx) /\ bitstream = Rest(rx, nitemsRead)
    BY <1>1, <1>6 DEF LineAccounted
  <2>2. Rest(rx \o bits, nitemsRead) = Rest(rx, nitemsRead) \o bits
    BY <1>2, <1>6, <2>1, RestConcat
  <2>3. bitstream' = Rest(rx', nitemsRead')
    BY <1>4, <2>1, <2>2
  <2>4. nitemsRead' + Len(bitstream') = Len(rx')
    <3>1. nitemsRead + Len(bitstream) = Len(rx) /\ nitemsRead' = nitemsRead
      BY <1>1, <1>4 DEF LineAccounted
    <3>2. \A a, b, c, n \in Nat : a + b = c => a + (b + n) = c + n
      OBVIOUS
    <3>3. nitemsRead + (Len(bitstream) + Len(bits)) = Len(rx) + Len(bits)
      BY <1>6, <3>1, <3>2
    <3>. QED
      BY <1>7, <3>1, <3>3
  <2>. QED
    BY <1>4, <2>3, <2>4 DEF LineAccounted
<1>12. startIdx <= Len(bitstream) => startIdx' <= Len(bitstream')
  BY <1>4, <1>6, <1>7
<1>13. Mode6!BufferAccounted'
  BY <1>1, <1>4, <1>8, <1>11, <1>12
  DEF Mode6!BufferAccounted, LineAccounted, Rest
<1>. QED
  BY <1>9, <1>10, <1>13 DEF Inv6

\* A message on the "reset" port keeps the buffered bits.
LEMMA Reset6Inv ==
  ASSUME Inv6, Mode6!Reset
  PROVE  Inv6'
<1>1. /\ UNCHANGED <<bitstream, startIdx, frameStart, nitemsRead, pc, i, prevBit,
                     level, rx, out>>
      /\ state' = "NO_SYNC" /\ decB' = 0 /\ decodedBits' = 0
      /\ frame' = <<>> /\ dsPos' = 0
  BY DEF Mode6!Reset, Mode6!ResetState, Mode6!ClearedTo, Mode6!buffer
<1>2. <<>> \in Seq(Byte) /\ Len(<<>>) = 0
  BY EmptySeq
<1>3. TypeOK6'
  BY <1>1, <1>2 DEF Inv6, TypeOK6, Byte
<1>4. DeliveredBehind'
  BY <1>1 DEF Inv6, DeliveredBehind, IsSequence
<1>5. LineAccounted /\ i <= Len(bitstream)
  BY AccountedParts DEF Inv6
<1>6. LineAccounted' /\ i' <= Len(bitstream')
  BY <1>1, <1>5 DEF LineAccounted, Rest
<1>7. 0 < MaxFrameLen
  BY StreamAssumption DEF StreamAssumption
<1>8. Mode6!BufferAccounted'
  BY <1>1, <1>2, <1>6, <1>7 DEF LineAccounted, Rest, Mode6!BufferAccounted
<1>. QED
  BY <1>3, <1>4, <1>8 DEF Inv6

\* The next bit of the buffer, and the octets it leaves in d_dec_b.
LEMMA NextDecBType ==
  ASSUME TypeOK6, i < Len(bitstream)
  PROVE  /\ Mode6!NextDecB \in Byte
         /\ (2 * Mode6!NextDecB) % 256 \in Byte
<1>1. i + 1 \in 1 .. Len(bitstream)
  BY LenProperties DEF TypeOK6
<1>2. bitstream[i + 1] \in Bit
  BY <1>1, ElementOfSeq DEF TypeOK6
<1>3. \A d \in Byte, b \in Bit : (d \div 2) + 128 * b \in Byte
  BY DEF Byte, Bit
<1>4. Mode6!NextDecB \in Byte
  BY <1>2, <1>3 DEF Mode6!NextDecB, Mode6!CurrentBit, TypeOK6
<1>5. \A d \in Byte : (2 * d) % 256 \in Byte
  BY DEF Byte
<1>. QED
  BY <1>4, <1>5

\* Reed-Solomon and the descrambler work inside the frame: a frame with a wrong
\* CRC stays as long as it was, and a frame of octets.
LEMMA CorrectedFrame ==
  ASSUME CodesInPlace, frame \in Seq(Byte), dsPos \in Nat,
         Mode6!IsDecodable(frame, dsPos)
  PROVE  LET corrected == SubSeq(frame, 1, HeaderLen)
                            \o Mode6!Corrected(frame, dsPos)
                            \o SubSeq(frame, Len(frame) - FcsLen + 1, Len(frame))
         IN  /\ corrected \in Seq(Byte)
             /\ Len(corrected) = Len(frame)
             /\ dsPos + Len(frame) - HeaderLen - FcsLen \in Nat
<1>. DEFINE n == Len(frame)
            block == Mode6!Block(frame, dsPos)
            header == SubSeq(frame, 1, HeaderLen)
            middle == SubSeq(frame, HeaderLen + 1, n - FcsLen)
            fcs == SubSeq(frame, n - FcsLen + 1, n)
<1>1. /\ HeaderLen \in Nat /\ FcsLen \in Nat /\ Parity \in Nat /\ n \in Nat
      /\ ~ (n < HeaderLen + FcsLen + Parity)
  BY StreamAssumption, LenProperties
  DEF StreamAssumption, Mode6!IsDecodable, Mode6!IsTooShort
<1>2. HeaderLen + FcsLen <= n
  BY <1>1
<1>. HIDE DEF n
<1>3. header \in Seq(Byte) /\ Len(header) = HeaderLen
  <2>1. /\ SubSeq(frame, 1, HeaderLen) \in Seq(Byte)
        /\ Len(SubSeq(frame, 1, HeaderLen)) = HeaderLen - 1 + 1
    BY <1>1, <1>2, PieceProperties DEF n
  <2>. QED
    BY <1>1, <2>1
<1>4. middle \in Seq(Byte) /\ Len(middle) = n - FcsLen - HeaderLen
  <2>1. /\ HeaderLen + 1 \in Nat /\ n - FcsLen \in Nat
        /\ HeaderLen + 1 >= 1 /\ HeaderLen + 1 <= n - FcsLen + 1
        /\ n - FcsLen <= n
    BY <1>1, <1>2
  <2>2. /\ SubSeq(frame, HeaderLen + 1, n - FcsLen) \in Seq(Byte)
        /\ Len(SubSeq(frame, HeaderLen + 1, n - FcsLen))
             = n - FcsLen - (HeaderLen + 1) + 1
    BY <2>1, PieceProperties DEF n
  <2>3. n - FcsLen - (HeaderLen + 1) + 1 = n - FcsLen - HeaderLen
    BY <1>1
  <2>. QED
    BY <2>2, <2>3
<1>5. fcs \in Seq(Byte) /\ Len(fcs) = FcsLen
  <2>1. /\ n - FcsLen + 1 \in Nat
        /\ n - FcsLen + 1 >= 1 /\ n - FcsLen + 1 <= n + 1
        /\ n - (n - FcsLen + 1) + 1 = FcsLen
    BY <1>1, <1>2
  <2>2. PICK first : first = n - FcsLen + 1
    OBVIOUS
  <2>3. /\ SubSeq(frame, first, Len(frame)) \in Seq(Byte)
        /\ Len(SubSeq(frame, first, Len(frame))) = Len(frame) - first + 1
    BY <1>1, <2>1, <2>2, PieceProperties DEF n
  <2>. QED
    BY <2>1, <2>2, <2>3 DEF n
<1>6. block \in Seq(Byte) /\ Len(block) = Len(middle)
  <2>. DEFINE m == Len(middle)
              g == [k \in 1 .. m |-> Descramble(dsPos + k - 1, middle[k])]
  <2>1. block = g
    BY DEF Mode6!Block, Mode6!Descrambled, n
  <2>2. m \in Nat
    BY <1>4, LenProperties
  <2>3. ASSUME NEW k \in 1 .. m
        PROVE  Descramble(dsPos + k - 1, middle[k]) \in Byte
    <3>1. middle[k] \in Byte
      BY <1>4, ElementOfSeq
    <3>2. dsPos + k - 1 \in Nat
      BY <2>2
    <3>. QED
      BY <3>1, <3>2 DEF CodesInPlace
  <2>4. g \in [1 .. m -> Byte]
    BY <2>3
  <2>. HIDE DEF g, m
  <2>5. g \in Seq(Byte) /\ Len(g) = m
    BY <2>2, <2>4, FunctionSequence
  <2>. QED
    BY <2>1, <2>5 DEF m
<1>7. /\ Mode6!Corrected(frame, dsPos) \in Seq(Byte)
      /\ Len(Mode6!Corrected(frame, dsPos)) = Len(middle)
  <2>1. RsDecode(block) # <<>>
    BY DEF Mode6!IsDecodable, Mode6!Corrected
  <2>. HIDE DEF block
  <2>2. RsDecode(block) \in Seq(Byte) /\ Len(RsDecode(block)) = Len(block)
    BY <1>6, <2>1 DEF CodesInPlace
  <2>. QED
    BY <1>6, <2>2 DEF Mode6!Corrected, block
<1>. DEFINE cor == Mode6!Corrected(frame, dsPos)
<1>. HIDE DEF header, middle, fcs, block, cor
<1>8. /\ header \o cor \in Seq(Byte)
      /\ Len(header \o cor) = Len(header) + Len(cor)
  BY <1>3, <1>7, ConcatProperties DEF cor
<1>9. /\ (header \o cor) \o fcs \in Seq(Byte)
      /\ Len((header \o cor) \o fcs) = Len(header \o cor) + Len(fcs)
  BY <1>5, <1>8, ConcatProperties
<1>10. Len(cor) = n - FcsLen - HeaderLen
  BY <1>4, <1>7 DEF cor
<1>11. Len((header \o cor) \o fcs) = n
  BY <1>1, <1>3, <1>5, <1>8, <1>9, <1>10
<1>12. dsPos + n - HeaderLen - FcsLen \in Nat
  BY <1>1, <1>2
<1>. QED
  BY <1>9, <1>11, <1>12 DEF header, fcs, cor, n

\* A step that leaves the buffer and the line alone.
LEMMA BufferKept ==
  ASSUME Inv6,
         UNCHANGED <<bitstream, nitemsRead, frameStart, prevBit, level, rx, out>>,
         decB' \in Byte, decodedBits' \in 0 .. 7, frame' \in Seq(Byte),
         dsPos' \in Nat, startIdx' \in Nat, i' \in Nat,
         i' <= Len(bitstream),
         state' # "NO_SYNC" =>
           /\ state # "NO_SYNC"
           /\ startIdx' <= Len(bitstream)
           /\ pc' = "idle" => startIdx' = Len(bitstream),
         state' # "DECODING" => frame' = <<>> /\ dsPos' = 0,
         Len(frame') < MaxFrameLen
  PROVE  Inv6'
<1>1. TypeOK6'
  BY DEF Inv6, TypeOK6
<1>2. DeliveredBehind'
  BY DEF Inv6, DeliveredBehind, IsSequence
<1>3. LineAccounted /\ (state # "NO_SYNC" => frameStart = nitemsRead)
  BY AccountedParts DEF Inv6
<1>4. LineAccounted'
  BY <1>3 DEF LineAccounted, Rest
<1>5. Mode6!BufferAccounted'
  BY <1>3, <1>4 DEF LineAccounted, Rest, Mode6!BufferAccounted
<1>. QED
  BY <1>1, <1>2, <1>5 DEF Inv6

\* Erasing n buffered bits and counting them keeps the accounting.
LEMMA EraseAccounts ==
  ASSUME Inv6, NEW n \in Nat, n <= Len(bitstream), Mode6!Erase(n),
         UNCHANGED <<prevBit, level, rx>>
  PROVE  /\ LineAccounted'
         /\ bitstream' \in Seq(Bit)
         /\ Len(bitstream') = Len(bitstream) - n
         /\ nitemsRead' = nitemsRead + n
         /\ nitemsRead' \in Nat /\ nitemsRead' >= nitemsRead
<1>1. /\ bitstream \in Seq(Bit) /\ rx \in Seq(Bit)
      /\ Len(bitstream) \in Nat /\ Len(rx) \in Nat /\ nitemsRead \in Nat
  BY LenProperties DEF Inv6, TypeOK6
<1>2. /\ prevBit = level
      /\ nitemsRead + Len(bitstream) = Len(rx)
      /\ bitstream = Rest(rx, nitemsRead)
  BY AccountedParts DEF Inv6, LineAccounted
<1>3. /\ bitstream' = Rest(bitstream, n)
      /\ nitemsRead' = nitemsRead + n
  BY DEF Mode6!Erase, Rest
<1>4. /\ n \in 0 .. Len(bitstream)
      /\ nitemsRead \in 0 .. Len(rx)
      /\ n \in 0 .. Len(rx) - nitemsRead
  BY <1>1, <1>2
<1>5. bitstream' \in Seq(Bit) /\ Len(bitstream') = Len(bitstream) - n
  BY <1>1, <1>3, <1>4, RestProperties
<1>6. bitstream' = Rest(rx, nitemsRead + n)
  BY <1>1, <1>2, <1>3, <1>4, RestRest
<1>7. nitemsRead' \in Nat /\ nitemsRead' >= nitemsRead
  BY <1>1, <1>3
<1>8. nitemsRead' + Len(bitstream') = Len(rx')
  <2>1. \A a, b, c \in Nat : a + b = c => (a + n) + (b - n) = c
    OBVIOUS
  <2>2. (nitemsRead + n) + (Len(bitstream) - n) = Len(rx)
    BY <1>1, <1>2, <2>1
  <2>. QED
    BY <1>3, <1>5, <2>2
<1>9. bitstream' = Rest(rx', nitemsRead')
  BY <1>3, <1>6
<1>. QED
  BY <1>2, <1>3, <1>5, <1>7, <1>8, <1>9 DEF LineAccounted

\* The steps of the flag search.
LEMMA NoSync6Inv ==
  ASSUME Inv6, Mode6!NoSyncBit \/ Mode6!NoSyncFlags \/ Mode6!NoSyncEnd
  PROVE  Inv6'
<1>1. /\ TypeOK6 /\ DeliveredBehind
      /\ Len(bitstream) \in Nat /\ i \in Nat
      /\ state = "NO_SYNC" /\ frame = <<>> /\ dsPos = 0
      /\ Len(frame) < MaxFrameLen
  BY AccountedParts, LenProperties
  DEF Inv6, TypeOK6, Mode6!NoSyncBit, Mode6!NoSyncFlags, Mode6!NoSyncEnd,
      Mode6!Turn
<1>2. <<>> \in Seq(Byte) /\ Len(<<>>) = 0
  BY EmptySeq
<1>3. CASE Mode6!NoSyncBit
  <2>1. i < Len(bitstream)
    BY <1>3 DEF Mode6!NoSyncBit, Mode6!Turn
  <2>2. Mode6!NextDecB \in Byte
    BY <1>1, <2>1, NextDecBType
  <2>3. /\ decB' \in Byte /\ i' = i + 1
        /\ UNCHANGED <<state, decodedBits, frame, dsPos, bitstream, startIdx,
                       frameStart, nitemsRead, pc, prevBit, level, rx, out>>
    BY <1>3, <2>2 DEF Mode6!NoSyncBit, Mode6!buffer, Mode6!env
  <2>4. i' \in Nat /\ i' <= Len(bitstream)
    BY <1>1, <2>1, <2>3
  <2>5. decodedBits' \in 0 .. 7 /\ frame' \in Seq(Byte) /\ startIdx' \in Nat
        /\ dsPos' \in Nat
    BY <1>1, <2>3 DEF TypeOK6
  <2>. QED
    BY <1>1, <2>3, <2>4, <2>5, BufferKept
<1>4. ASSUME NEW n \in Nat, n <= Len(bitstream), Mode6!Erase(n),
             UNCHANGED <<prevBit, level, rx, out, dsPos>>,
             decB' \in Byte, decodedBits' \in 0 .. 7, frame' = <<>>,
             startIdx' \in Nat, frameStart' \in Nat, i' = 0,
             state' # "DECODING",
             state' # "NO_SYNC" =>
               /\ frameStart' = nitemsRead'
               /\ startIdx' = 0 /\ pc' # "idle"
      PROVE  Inv6'
  <2>1. /\ LineAccounted'
        /\ bitstream' \in Seq(Bit)
        /\ Len(bitstream') = Len(bitstream) - n
        /\ nitemsRead' \in Nat /\ nitemsRead' >= nitemsRead
    BY <1>4, EraseAccounts
  <2>2. TypeOK6'
    BY <1>1, <1>2, <1>4, <2>1 DEF TypeOK6
  <2>3. DeliveredBehind'
    <3>1. \A e, r, s \in Nat : e <= r /\ s >= r => e <= s
      OBVIOUS
    <3>2. ASSUME NEW k \in 1 .. Len(out)
          PROVE  out[k].start + out[k].cnt <= nitemsRead'
      <4>1. /\ out[k].start + out[k].cnt \in Nat
            /\ out[k].start + out[k].cnt <= nitemsRead
        BY <1>1 DEF DeliveredBehind
      <4>2. nitemsRead \in Nat
        BY <1>1 DEF TypeOK6
      <4>. QED
        BY <2>1, <3>1, <4>1, <4>2
    <3>. QED
      BY <1>1, <1>4, <3>2 DEF DeliveredBehind, IsSequence
  <2>4. Len(bitstream') \in Nat
    BY <2>1, LenProperties
  <2>5. Mode6!BufferAccounted'
    <3>1. i' <= Len(bitstream')
      BY <1>4, <2>4
    <3>2. state' # "NO_SYNC" => startIdx' <= Len(bitstream')
      BY <1>4, <2>4
    <3>3. Len(frame') < MaxFrameLen /\ dsPos' = 0
      BY <1>1, <1>4
    <3>. QED
      BY <1>4, <2>1, <3>1, <3>2, <3>3 DEF LineAccounted, Rest, Mode6!BufferAccounted
  <2>. QED
    BY <2>2, <2>3, <2>5 DEF Inv6
<1>5. CASE Mode6!NoSyncFlags
  <2>1. i < Len(bitstream)
    BY <1>5 DEF Mode6!NoSyncFlags, Mode6!Turn
  <2>2. i + 1 \in Nat /\ i + 1 <= Len(bitstream)
    BY <1>1, <2>1
  <2>3. Mode6!Erase(i + 1) /\ nitemsRead' \in Nat
    <3>1. Mode6!Erase(i + 1)
      BY <1>5 DEF Mode6!NoSyncFlags
    <3>2. nitemsRead' = nitemsRead + (i + 1)
      BY <3>1 DEF Mode6!Erase
    <3>. QED
      BY <1>1, <2>2, <3>1, <3>2 DEF TypeOK6
  <2>4. /\ UNCHANGED <<prevBit, level, rx, out, dsPos, pc>>
        /\ decB' = 0 /\ decodedBits' = 0 /\ frame' = <<>>
        /\ startIdx' = 0 /\ frameStart' = nitemsRead' /\ i' = 0
        /\ state' = "IN_SYNC" /\ pc' # "idle"
    BY <1>5 DEF Mode6!NoSyncFlags, Mode6!ClearedTo, Mode6!Turn, Mode6!env
  <2>5. decB' \in Byte /\ decodedBits' \in 0 .. 7 /\ startIdx' \in Nat
        /\ frameStart' \in Nat
    BY <2>3, <2>4 DEF Byte
  <2>. QED
    BY <1>4, <2>2, <2>3, <2>4, <2>5
<1>6. CASE Mode6!NoSyncEnd
  <2>1. Mode6!Erase(Len(bitstream)) /\ Len(bitstream) <= Len(bitstream)
    BY <1>1, <1>6 DEF Mode6!NoSyncEnd
  <2>2. /\ UNCHANGED <<prevBit, level, rx, out, dsPos, decB, decodedBits, frame,
                       startIdx, frameStart, state>>
        /\ i' = 0
    BY <1>6 DEF Mode6!NoSyncEnd, Mode6!Return, Mode6!env, Mode6!machine
  <2>3. /\ decB' \in Byte /\ decodedBits' \in 0 .. 7 /\ startIdx' \in Nat
        /\ frameStart' \in Nat /\ frame' = <<>> /\ state' = "NO_SYNC"
    BY <1>1, <2>2 DEF TypeOK6
  <2>. QED
    BY <1>1, <1>4, <2>1, <2>2, <2>3
<1>. QED
  BY <1>3, <1>5, <1>6

\* The steps of a decoder that is inside flags or a frame, but for the one that
\* publishes.
LEMMA InFrame6Inv ==
  ASSUME Inv6, CodesInPlace,
         \/ Mode6!InSyncBit \/ Mode6!InSyncData \/ Mode6!OutOfBits
         \/ Mode6!FrameDropped \/ Mode6!FrameCrcWrong
         \/ Mode6!StuffedBit \/ Mode6!DataBit \/ Mode6!WrongSize
  PROVE  Inv6'
<1>1. /\ TypeOK6
      /\ Len(bitstream) \in Nat /\ i \in Nat /\ i <= Len(bitstream)
      /\ state # "NO_SYNC" => startIdx <= Len(bitstream)
      /\ state # "DECODING" => frame = <<>> /\ dsPos = 0
      /\ Len(frame) < MaxFrameLen
      /\ MaxFrameLen \in Nat /\ MaxFrameLen >= 2
  BY AccountedParts, LenProperties, StreamAssumption
  DEF Inv6, TypeOK6, StreamAssumption
<1>2. /\ decB \in Byte /\ decodedBits \in 0 .. 7 /\ frame \in Seq(Byte)
      /\ dsPos \in Nat /\ startIdx \in Nat
  BY <1>1 DEF TypeOK6
<1>3. <<>> \in Seq(Byte) /\ Len(<<>>) = 0 /\ Len(<<>>) < MaxFrameLen
  BY <1>1, EmptySeq
<1>4. i < Len(bitstream) =>
        /\ Mode6!NextDecB \in Byte /\ (2 * Mode6!NextDecB) % 256 \in Byte
        /\ i + 1 \in Nat /\ i + 1 <= Len(bitstream)
  BY <1>1, NextDecBType
<1>5. (decodedBits + 1) % 8 \in 0 .. 7
  BY <1>2
<1>. DEFINE Same == UNCHANGED <<bitstream, nitemsRead, frameStart, prevBit, level,
                               rx, out>>
<1>6. CASE Mode6!InSyncBit
  <2>1. i < Len(bitstream) /\ state = "IN_SYNC" /\ pc = "scan"
    BY <1>6 DEF Mode6!InSyncBit, Mode6!Turn
  <2>2. /\ Same /\ UNCHANGED <<state, frame, dsPos, startIdx, pc>>
        /\ decB' = Mode6!NextDecB /\ decodedBits' = (decodedBits + 1) % 8
        /\ i' = i + 1
    BY <1>6 DEF Mode6!InSyncBit, Mode6!buffer, Mode6!env
  <2>. QED
    BY <1>1, <1>2, <1>4, <1>5, <2>1, <2>2, BufferKept
<1>7. CASE Mode6!InSyncData
  <2>1. i < Len(bitstream) /\ state = "IN_SYNC" /\ pc = "scan"
    BY <1>7 DEF Mode6!InSyncData, Mode6!Turn
  <2>2. /\ Same /\ UNCHANGED <<dsPos, pc>>
        /\ state' = "DECODING" /\ i' = i + 1 /\ startIdx' = i + 1
        /\ \/ decB' = (2 * Mode6!NextDecB) % 256 /\ decodedBits' = 7
              /\ frame' = <<>>
           \/ decB' = Mode6!NextDecB /\ decodedBits' = 0
              /\ frame' = <<Mode6!NextDecB>>
    BY <1>7 DEF Mode6!InSyncData, Mode6!env
  <2>3. frame' \in Seq(Byte) /\ Len(frame') < MaxFrameLen
    <3>1. /\ <<Mode6!NextDecB>> \in Seq(Byte)
          /\ Len(<<Mode6!NextDecB>>) = 1
      BY <1>4, <2>1
    <3>2. 1 < MaxFrameLen
      BY <1>1
    <3>3. frame' = <<>> \/ frame' = <<Mode6!NextDecB>>
      BY <2>2
    <3>. QED
      BY <1>3, <3>1, <3>2, <3>3
  <2>4. decB' \in Byte /\ decodedBits' \in 0 .. 7
    BY <1>4, <2>1, <2>2
  <2>5. dsPos' \in Nat /\ startIdx' \in Nat /\ i' \in Nat
        /\ i' <= Len(bitstream) /\ startIdx' <= Len(bitstream) /\ pc' # "idle"
    BY <1>2, <1>4, <2>1, <2>2
  <2>. QED
    BY <2>1, <2>2, <2>3, <2>4, <2>5, BufferKept
<1>8. CASE Mode6!OutOfBits
  <2>1. /\ state # "NO_SYNC" /\ Same
        /\ UNCHANGED <<state, decB, decodedBits, frame, dsPos>>
        /\ startIdx' = Len(bitstream) /\ i' = 0
    BY <1>8 DEF Mode6!OutOfBits, Mode6!Return, Mode6!machine, Mode6!env
  <2>2. startIdx' \in Nat /\ i' \in Nat /\ i' <= Len(bitstream)
        /\ startIdx' <= Len(bitstream)
    BY <1>1, <2>1
  <2>. QED
    BY <1>1, <1>2, <2>1, <2>2, BufferKept
<1>9. CASE Mode6!FrameDropped \/ Mode6!WrongSize
  <2>1. /\ Same /\ UNCHANGED startIdx
        /\ state' = "NO_SYNC" /\ decB' = 0 /\ decodedBits' = 0 /\ frame' = <<>>
        /\ dsPos' = 0 /\ i' = 0
    BY <1>9 DEF Mode6!FrameDropped, Mode6!WrongSize, Mode6!ResetState,
                Mode6!ClearedTo, Mode6!buffer, Mode6!env
  <2>2. decB' \in Byte /\ decodedBits' \in 0 .. 7 /\ dsPos' \in Nat /\ i' \in Nat
        /\ i' <= Len(bitstream)
    BY <1>1, <2>1 DEF Byte
  <2>3. frame' \in Seq(Byte) /\ Len(frame') < MaxFrameLen
    BY <1>3, <2>1
  <2>. QED
    BY <1>2, <2>1, <2>2, <2>3, BufferKept
<1>10. CASE Mode6!FrameCrcWrong
  <2>1. /\ i < Len(bitstream) /\ state = "DECODING" /\ pc = "scan"
        /\ Mode6!IsDecodable(frame, dsPos)
    BY <1>10 DEF Mode6!FrameCrcWrong, Mode6!Turn
  <2>2. /\ Same /\ UNCHANGED <<state, decodedBits, startIdx, pc>>
        /\ decB' = Mode6!NextDecB
        /\ frame' = SubSeq(frame, 1, HeaderLen)
                       \o Mode6!Corrected(frame, dsPos)
                       \o SubSeq(frame, Len(frame) - FcsLen + 1, Len(frame))
        /\ dsPos' = dsPos + Len(frame) - HeaderLen - FcsLen
        /\ i' = startIdx
    BY <1>10 DEF Mode6!FrameCrcWrong, Mode6!buffer, Mode6!env
  <2>3. frame' \in Seq(Byte) /\ Len(frame') = Len(frame) /\ dsPos' \in Nat
    BY <1>2, <2>1, <2>2, CorrectedFrame
  <2>. QED
    BY <1>1, <1>2, <1>4, <2>1, <2>2, <2>3, BufferKept
<1>11. CASE Mode6!StuffedBit
  <2>1. i < Len(bitstream) /\ state = "DECODING" /\ pc = "scan"
    BY <1>11 DEF Mode6!StuffedBit, Mode6!Turn
  <2>2. /\ Same /\ UNCHANGED <<state, decodedBits, frame, dsPos, startIdx, pc>>
        /\ decB' = (2 * Mode6!NextDecB) % 256 /\ i' = i + 1
    BY <1>11 DEF Mode6!StuffedBit, Mode6!buffer, Mode6!env
  <2>. QED
    BY <1>1, <1>2, <1>4, <2>1, <2>2, BufferKept
<1>12. CASE Mode6!DataBit
  <2>1. i < Len(bitstream) /\ state = "DECODING" /\ pc = "scan"
    BY <1>12 DEF Mode6!DataBit, Mode6!Turn
  <2>2. /\ Same /\ UNCHANGED <<state, dsPos, startIdx, pc>>
        /\ decB' = Mode6!NextDecB /\ decodedBits' = (decodedBits + 1) % 8
        /\ i' = i + 1
        /\ \/ frame' = frame
           \/ frame' = Append(frame, Mode6!NextDecB) /\ Len(frame) + 1 < MaxFrameLen
    BY <1>12 DEF Mode6!DataBit, Mode6!buffer, Mode6!env
  <2>3. frame' \in Seq(Byte) /\ Len(frame') < MaxFrameLen
    <3>1. /\ Append(frame, Mode6!NextDecB) \in Seq(Byte)
          /\ Len(Append(frame, Mode6!NextDecB)) = Len(frame) + 1
      BY <1>2, <1>4, <2>1, AppendProperties
    <3>. QED
      BY <1>1, <1>2, <2>2, <3>1
  <2>. QED
    BY <1>1, <1>2, <1>4, <1>5, <2>1, <2>2, <2>3, BufferKept
<1>. QED
  BY <1>6, <1>7, <1>8, <1>9, <1>10, <1>11, <1>12

\* What a published frame is said to be and what is read: its range begins at
\* the frames before, and ends before the closing flag does.
LEMMA FrameEnds ==
  ASSUME Inv6, Mode6!FrameEnd
  PROVE  /\ Inv6'
         /\ out' = Append(out, Mode6!Metadata)
         /\ Mode6!Metadata.start = nitemsRead
         /\ Mode6!Metadata.cnt = i
         /\ nitemsRead + i <= Len(rx)
         /\ i \in Nat
<1>1. /\ TypeOK6 /\ DeliveredBehind /\ LineAccounted
      /\ Len(bitstream) \in Nat /\ i \in Nat /\ nitemsRead \in Nat
      /\ Len(rx) \in Nat
      /\ i < Len(bitstream) /\ frameStart = nitemsRead
      /\ MaxFrameLen \in Nat /\ MaxFrameLen >= 2
  BY AccountedParts, LenProperties, StreamAssumption
  DEF Inv6, TypeOK6, StreamAssumption, Mode6!FrameEnd, Mode6!Turn
<1>2. i + 1 \in Nat /\ i + 1 <= Len(bitstream)
  BY <1>1
<1>3. /\ Mode6!Erase(i + 1)
      /\ UNCHANGED <<prevBit, level, rx, frameStart>>
      /\ out' = Append(out, Mode6!Metadata)
      /\ state' = "NO_SYNC" /\ decB' = 0 /\ decodedBits' = 0 /\ frame' = <<>>
      /\ dsPos' = 0 /\ startIdx' = Len(bitstream') /\ i' = 0
  BY DEF Mode6!FrameEnd, Mode6!ResetState, Mode6!ClearedTo, Mode6!Return,
         Mode6!env
<1>. DEFINE n == i + 1
<1>4. n \in Nat /\ n <= Len(bitstream) /\ Mode6!Erase(n)
  BY <1>2, <1>3
<1>. HIDE DEF n
<1>5. /\ LineAccounted'
      /\ bitstream' \in Seq(Bit)
      /\ Len(bitstream') = Len(bitstream) - n
      /\ nitemsRead' = nitemsRead + n
      /\ nitemsRead' \in Nat /\ nitemsRead' >= nitemsRead
  BY <1>3, <1>4, EraseAccounts
<1>6. Len(bitstream') \in Nat
  BY <1>5, LenProperties
<1>7. <<>> \in Seq(Byte) /\ Len(<<>>) = 0
  BY EmptySeq
<1>8. TypeOK6'
  BY <1>1, <1>3, <1>5, <1>6, <1>7 DEF TypeOK6, Byte
<1>9. /\ Mode6!Metadata.start = nitemsRead
      /\ Mode6!Metadata.cnt = i
  <2>1. /\ Mode6!Metadata.start = frameStart
        /\ Mode6!Metadata.cnt = nitemsRead + i - frameStart
    BY DEF Mode6!Metadata
  <2>. QED
    BY <1>1, <2>1
<1>10. nitemsRead + i <= Len(rx) /\ nitemsRead + i <= nitemsRead'
  <2>1. nitemsRead + Len(bitstream) = Len(rx)
    BY <1>1 DEF LineAccounted
  <2>. QED
    BY <1>1, <1>5, <2>1 DEF n
<1>11. DeliveredBehind'
  <2>1. /\ IsSequence(out') /\ Len(out) \in Nat
        /\ Len(out') = Len(out) + 1
        /\ \A k \in 1 .. Len(out) : out'[k] = out[k]
        /\ out'[Len(out) + 1] = Mode6!Metadata
    BY <1>1, <1>3, SequenceAppend DEF DeliveredBehind
  <2>2. ASSUME NEW k \in 1 .. Len(out')
        PROVE  /\ out'[k].start \in Nat /\ out'[k].cnt \in Nat
               /\ out'[k].start + out'[k].cnt <= nitemsRead'
    <3>1. CASE k \in 1 .. Len(out)
      <4>1. /\ out[k].start \in Nat /\ out[k].cnt \in Nat
            /\ out[k].start + out[k].cnt <= nitemsRead
        BY <1>1, <3>1 DEF DeliveredBehind
      <4>2. out'[k] = out[k]
        BY <2>1, <3>1
      <4>3. \A a, b, r, t \in Nat : a + b <= r /\ t >= r => a + b <= t
        OBVIOUS
      <4>. QED
        BY <1>1, <1>5, <4>1, <4>2, <4>3
    <3>2. CASE k = Len(out) + 1
      BY <1>1, <1>9, <1>10, <2>1, <3>2
    <3>. QED
      BY <2>1, <3>1, <3>2
  <2>. QED
    BY <2>1, <2>2 DEF DeliveredBehind
<1>12. Mode6!BufferAccounted'
  <2>1. i' <= Len(bitstream') /\ Len(frame') < MaxFrameLen
    BY <1>1, <1>3, <1>6, <1>7
  <2>. QED
    BY <1>3, <1>5, <2>1 DEF LineAccounted, Rest, Mode6!BufferAccounted
<1>. QED
  BY <1>1, <1>3, <1>8, <1>9, <1>10, <1>11, <1>12 DEF Inv6

\* Every step of mode 6 keeps the invariant.
LEMMA Next6Inv ==
  ASSUME Inv6, CodesInPlace, Mode6!Next
  PROVE  Inv6'
<1>1. CASE \E bits \in Mode6Chunks : Mode6!Decode(bits)
  BY <1>1, Decode6Inv
<1>2. CASE Mode6!Reset
  BY <1>2, Reset6Inv
<1>3. CASE Mode6!Scan
  BY <1>3, NoSync6Inv, InFrame6Inv, FrameEnds DEF Mode6!Scan
<1>. QED
  BY <1>1, <1>2, <1>3 DEF Mode6!Next

-----------------------------------------------------------------------------
(***************************************************************************)
(* Mode 5: the inductive invariant.  The frames published so far end where *)
(* the frame in progress was marked; the octets of the length are fewer    *)
(* than the field has, or a call could consume less than nothing.          *)
(***************************************************************************)

\* The input buffer and the line.
InputAccounted ==
  /\ rx \in Seq(Bit)
  /\ nitemsRead \in 0 .. Len(rx)
  /\ inp = Rest(rx, nitemsRead)

\* The frame in progress is marked behind the last frame that was published.
MarkedBehind ==
  /\ frameStart \in Nat
  /\ state # "SEARCHING" =>
       /\ frameStart <= nitemsRead
       /\ \A n \in 1 .. Len(out) : out[n].start + out[n].cnt <= frameStart

LengthInProgress ==
  /\ state \in {"SEARCHING", "SEARCHING_SYNC"} => pdu = <<>>
  /\ state = "DECODING_FRAME_LEN" =>
       pdu \in Seq(Byte) /\ Len(pdu) < LengthFieldLen

Inv5 == InputAccounted /\ DeliveredBehind /\ MarkedBehind /\ LengthInProgress

\* The decoder starts in the invariant.
LEMMA Init5Inv == Mode5!Init => Inv5
<1>. SUFFICES ASSUME Mode5!Init PROVE Inv5
  OBVIOUS
<1>1. <<>> \in Seq(Bit) /\ Len(<<>>) = 0
  BY EmptySeq
<1>2. Rest(<<>>, 0) = <<>> /\ IsSequence(<<>>)
  BY <1>1, RestNone, SequenceOver
<1>3. InputAccounted
  BY <1>1, <1>2 DEF Mode5!Init, InputAccounted
<1>4. DeliveredBehind
  BY <1>1, <1>2 DEF Mode5!Init, DeliveredBehind
<1>. QED
  BY <1>3, <1>4 DEF Mode5!Init, Inv5, MarkedBehind, LengthInProgress

\* A set of natural numbers that is not empty contains its minimum.
LEMMA MinProperties ==
  ASSUME NEW T, T \subseteq Nat, T # {}
  PROVE  Mode5!Min(T) \in T /\ \A n \in T : Mode5!Min(T) <= n
BY LeastNat DEF Mode5!Min

\* The octets of the model are those of the lemmas.
LEMMA OctetsAreReg == \A bits : Mode5!Octets(bits) = Reg!Octets(bits)
BY DEF Mode5!Octets, Reg!Octets, Mode5!OctetOf, Reg!OctetOf

\* Bits make as many octets as they fill.
LEMMA OctetsType ==
  ASSUME NEW bits \in Seq(Bit)
  PROVE  /\ Mode5!Octets(bits) \in Seq(Byte)
         /\ Len(Mode5!Octets(bits)) = Len(bits) \div 8
<1>1. /\ 0 \in Nat /\ 0 + Len(bits) <= Len(bits)
      /\ \A k \in 1 .. Len(bits) : bits[k] = bits[0 + k]
  BY LenProperties
<1>2. /\ Reg!Octets(bits) \in Seq(0 .. 255)
      /\ Len(Reg!Octets(bits)) = Len(bits) \div 8
  BY <1>1, RegOctets DEF Bit
<1>. QED
  BY <1>2, OctetsAreReg DEF Byte

\* Consuming items counts them.
LEMMA ConsumeAccounts ==
  ASSUME InputAccounted, NEW n \in Nat, n <= Len(inp), Mode5!Consume(n), rx' = rx
  PROVE  /\ InputAccounted'
         /\ nitemsRead \in Nat /\ nitemsRead' \in Nat
         /\ nitemsRead' = nitemsRead + n
         /\ nitemsRead' >= nitemsRead
<1>1. /\ rx \in Seq(Bit) /\ Len(rx) \in Nat
      /\ nitemsRead \in 0 .. Len(rx) /\ inp = Rest(rx, nitemsRead)
  BY LenProperties DEF InputAccounted
<1>2. Len(inp) = Len(rx) - nitemsRead
  BY <1>1, RestProperties
<1>3. n \in 0 .. Len(rx) - nitemsRead
  BY <1>1, <1>2
<1>4. nitemsRead' = nitemsRead + n /\ inp' = Rest(Rest(rx, nitemsRead), n)
  BY <1>1 DEF Mode5!Consume, Rest
<1>5. inp' = Rest(rx, nitemsRead + n)
  BY <1>1, <1>3, <1>4, RestRest
<1>6. /\ nitemsRead' \in 0 .. Len(rx) /\ nitemsRead \in Nat /\ nitemsRead' \in Nat
      /\ nitemsRead' >= nitemsRead
  BY <1>1, <1>3, <1>4
<1>. QED
  BY <1>1, <1>4, <1>5, <1>6 DEF InputAccounted

\* A call that publishes nothing, and keeps the mark or sets it where it reads.
LEMMA NothingPublished ==
  ASSUME Inv5, NEW n \in Nat, n <= Len(inp), Mode5!Consume(n),
         UNCHANGED <<rx, out>>,
         frameStart' \in Nat,
         state' # "SEARCHING" =>
           \/ frameStart' = frameStart /\ state # "SEARCHING"
           \/ nitemsRead <= frameStart' /\ frameStart' <= nitemsRead',
         LengthInProgress'
  PROVE  Inv5' /\ nitemsRead' >= nitemsRead
<1>1. /\ InputAccounted'
      /\ nitemsRead \in Nat /\ nitemsRead' \in Nat
      /\ nitemsRead' >= nitemsRead
  BY ConsumeAccounts DEF Inv5
<1>2. \A a, r, t \in Nat : a <= r /\ r <= t => a <= t
  OBVIOUS
<1>3. ASSUME NEW k \in 1 .. Len(out)
      PROVE  /\ out[k].start \in Nat /\ out[k].cnt \in Nat
             /\ out[k].start + out[k].cnt \in Nat
             /\ out[k].start + out[k].cnt <= nitemsRead
             /\ state # "SEARCHING" => out[k].start + out[k].cnt <= frameStart
  BY DEF Inv5, DeliveredBehind, MarkedBehind
<1>4. DeliveredBehind'
  <2>1. \A k \in 1 .. Len(out) : out[k].start + out[k].cnt <= nitemsRead'
    BY <1>1, <1>2, <1>3
  <2>. QED
    BY <1>3, <2>1 DEF Inv5, DeliveredBehind, IsSequence
<1>5. MarkedBehind'
  <2>. SUFFICES ASSUME state' # "SEARCHING"
                PROVE  /\ frameStart' <= nitemsRead'
                       /\ \A k \in 1 .. Len(out) :
                            out[k].start + out[k].cnt <= frameStart'
    BY DEF MarkedBehind
  <2>1. CASE frameStart' = frameStart /\ state # "SEARCHING"
    <3>1. frameStart \in Nat /\ frameStart <= nitemsRead
      BY <2>1 DEF Inv5, MarkedBehind
    <3>. QED
      BY <1>1, <1>2, <1>3, <2>1, <3>1
  <2>2. CASE nitemsRead <= frameStart' /\ frameStart' <= nitemsRead'
    BY <1>1, <1>2, <1>3, <2>2
  <2>. QED
    BY <2>1, <2>2
<1>. QED
  BY <1>1, <1>4, <1>5 DEF Inv5

\* What a call of work() is handed.
LEMMA InputOfCall ==
  ASSUME InputAccounted, NEW n \in 1 .. Len(inp) \div 8
  PROVE  /\ SubSeq(inp, 1, 8 * n) \in Seq(Bit)
         /\ Len(SubSeq(inp, 1, 8 * n)) = 8 * n
         /\ 8 * n \in Nat /\ 8 * n <= Len(inp) /\ Len(inp) \in Nat
<1>1. inp \in Seq(Bit) /\ Len(inp) \in Nat
  BY RestProperties, LenProperties DEF InputAccounted
<1>. DEFINE m == 8 * n
<1>2. m \in Nat /\ m <= Len(inp) /\ 1 <= m + 1 /\ m - 1 + 1 = m
  BY <1>1
<1>. HIDE DEF m
<1>3. SubSeq(inp, 1, m) \in Seq(Bit) /\ Len(SubSeq(inp, 1, m)) = m - 1 + 1
  BY <1>1, <1>2, PieceProperties
<1>. QED
  BY <1>1, <1>2, <1>3 DEF m

\* The search for a preamble, or what takes its place without one, and the
\* search for the sync word.
LEMMA Search5Inv ==
  ASSUME Inv5, NEW in \in Seq(Bit), Len(in) <= Len(inp),
         \/ Mode5!NoPreamble(in) \/ Mode5!PreambleFound(in)
         \/ Mode5!NoPreambleGiven(in) \/ Mode5!SyncSearched(in)
  PROVE  Inv5' /\ nitemsRead' >= nitemsRead /\ UNCHANGED <<rx, out>>
<1>1. /\ Len(in) \in Nat /\ nitemsRead \in Nat /\ frameStart \in Nat
      /\ LengthFieldLen \in Nat /\ 0 < LengthFieldLen
  BY LenProperties, StreamAssumption
  DEF Inv5, InputAccounted, MarkedBehind, StreamAssumption
<1>2. <<>> \in Seq(Byte) /\ Len(<<>>) = 0
  BY EmptySeq
<1>3. Mode5!PreamblesIn(in) \in SUBSET (1 .. Len(in))
  BY DEF Mode5!PreamblesIn
<1>4. Mode5!SyncEnds(in) \in SUBSET (1 .. Len(in))
  BY DEF Mode5!SyncEnds
<1>5. ASSUME NEW T \in SUBSET (1 .. Len(in)), T # {}
      PROVE  Mode5!Min(T) \in Nat /\ Mode5!Min(T) <= Len(in)
  <2>1. T \subseteq Nat
    BY <1>1
  <2>2. Mode5!Min(T) \in T
    BY <1>5, <2>1, MinProperties
  <2>3. Mode5!Min(T) \in 1 .. Len(in)
    BY <2>2
  <2>. QED
    BY <1>1, <2>3
<1>6. CASE Mode5!NoPreamble(in)
  <2>1. /\ Mode5!Consume(Len(in)) /\ UNCHANGED <<rx, out, frameStart, state, pdu>>
        /\ state = "SEARCHING"
    BY <1>6 DEF Mode5!NoPreamble, Mode5!env
  <2>2. LengthInProgress'
    BY <2>1 DEF Inv5, LengthInProgress
  <2>. QED
    BY <1>1, <2>1, <2>2, NothingPublished
<1>7. CASE Mode5!PreambleFound(in)
  <2>1. PICK k : k = Mode5!Min(Mode5!PreamblesIn(in))
    OBVIOUS
  <2>2. /\ Mode5!PreamblesIn(in) # {}
        /\ Mode5!Consume(k) /\ UNCHANGED <<rx, out, pdu>>
        /\ frameStart' = nitemsRead + k
        /\ state = "SEARCHING" /\ state' = "SEARCHING_SYNC"
    BY <1>7, <2>1 DEF Mode5!PreambleFound, Mode5!env
  <2>3. k \in Nat /\ k <= Len(in)
    BY <1>3, <1>5, <2>1, <2>2
  <2>4. frameStart' \in Nat /\ nitemsRead <= frameStart' /\ k <= Len(inp)
    <3>1. Len(inp) \in Nat
      BY RestProperties, LenProperties DEF Inv5, InputAccounted
    <3>. QED
      BY <1>1, <2>2, <2>3, <3>1
  <2>5. nitemsRead' = nitemsRead + k
    BY <2>2 DEF Mode5!Consume
  <2>6. frameStart' <= nitemsRead'
    BY <2>2, <2>4, <2>5
  <2>7. LengthInProgress'
    BY <2>2 DEF Inv5, LengthInProgress
  <2>. QED
    BY <2>2, <2>3, <2>4, <2>6, <2>7, NothingPublished
<1>8. ASSUME Mode5!SearchSync(in), state \in {"SEARCHING", "SEARCHING_SYNC"},
             UNCHANGED <<rx, out>>,
             \/ frameStart' = nitemsRead
             \/ frameStart' = frameStart /\ state # "SEARCHING"
      PROVE  Inv5' /\ nitemsRead' >= nitemsRead
  <2>1. \E k \in Nat : k <= Len(in) /\ Mode5!Consume(k)
    <3>1. CASE Mode5!NoSync(in)
      BY <1>1, <3>1 DEF Mode5!NoSync
    <3>2. CASE Mode5!SyncFound(in) \/ Mode5!SyncOverdue(in)
      <4>1. /\ Mode5!SyncEnds(in) # {}
            /\ Mode5!Consume(Mode5!Min(Mode5!SyncEnds(in)))
        BY <3>2 DEF Mode5!SyncFound, Mode5!SyncOverdue
      <4>2. /\ Mode5!Min(Mode5!SyncEnds(in)) \in Nat
            /\ Mode5!Min(Mode5!SyncEnds(in)) <= Len(in)
        BY <1>4, <1>5, <4>1
      <4>. QED
        BY <4>1, <4>2
    <3>. QED
      BY <1>8, <3>1, <3>2 DEF Mode5!SearchSync
  <2>2. PICK k \in Nat : k <= Len(in) /\ Mode5!Consume(k)
    BY <2>1
  <2>3. k <= Len(inp) /\ nitemsRead' = nitemsRead + k
    <3>1. Len(inp) \in Nat
      BY RestProperties, LenProperties DEF Inv5, InputAccounted
    <3>. QED
      BY <1>1, <2>2, <3>1 DEF Mode5!Consume
  <2>4. frameStart' \in Nat
    BY <1>1, <1>8
  <2>5. frameStart' = nitemsRead =>
          nitemsRead <= frameStart' /\ frameStart' <= nitemsRead'
    BY <1>1, <2>3
  <2>6. pdu = <<>>
    BY <1>8 DEF Inv5, LengthInProgress
  <2>7. LengthInProgress'
    <3>1. pdu' = <<>>
      BY <1>8, <2>6 DEF Mode5!SearchSync, Mode5!NoSync, Mode5!SyncFound,
                        Mode5!SyncOverdue, Mode5!ResetObject
    <3>. QED
      BY <1>1, <1>2, <3>1 DEF LengthInProgress
  <2>. QED
    BY <1>8, <2>2, <2>3, <2>4, <2>5, <2>7, NothingPublished
<1>9. CASE Mode5!NoPreambleGiven(in)
  <2>1. /\ Mode5!SearchSync(in) /\ state \in {"SEARCHING", "SEARCHING_SYNC"}
        /\ UNCHANGED <<rx, out>> /\ frameStart' = nitemsRead
    BY <1>9 DEF Mode5!NoPreambleGiven, Mode5!env
  <2>. QED
    BY <1>8, <2>1
<1>10. CASE Mode5!SyncSearched(in)
  <2>1. /\ Mode5!SearchSync(in) /\ state \in {"SEARCHING", "SEARCHING_SYNC"}
        /\ UNCHANGED <<rx, out>>
        /\ frameStart' = frameStart /\ state # "SEARCHING"
    BY <1>10 DEF Mode5!SyncSearched, Mode5!env
  <2>. QED
    BY <1>8, <2>1
<1>. QED
  BY <1>6, <1>7, <1>9, <1>10
  DEF Mode5!NoPreamble, Mode5!PreambleFound, Mode5!NoPreambleGiven,
      Mode5!SyncSearched, Mode5!env

\* The length and the payload, as long as nothing is complete.
LEMMA Collect5Inv ==
  ASSUME Inv5, NEW in \in Seq(Bit), Len(in) <= Len(inp),
         Mode5!FrameLenPart(in) \/ Mode5!FrameLen(in) \/ Mode5!PayloadPart(in)
  PROVE  Inv5' /\ nitemsRead' >= nitemsRead /\ UNCHANGED <<rx, out>>
<1>1. /\ Len(in) \in Nat /\ Len(inp) \in Nat /\ frameStart \in Nat
      /\ LengthFieldLen \in Nat
  BY LenProperties, RestProperties, StreamAssumption
  DEF Inv5, InputAccounted, MarkedBehind, StreamAssumption
<1>. DEFINE octets == Len(in) \div 8
<1>2. octets \in Nat /\ 8 * octets <= Len(in) /\ 8 * octets \in Nat
  BY <1>1
<1>. HIDE DEF octets
<1>3. 8 * octets <= Len(inp)
  BY <1>1, <1>2
<1>4. CASE Mode5!PayloadPart(in)
  <2>1. /\ Mode5!Consume(8 * octets) /\ UNCHANGED <<rx, out, frameStart, state>>
        /\ state = "DECODING_PAYLOAD"
    BY <1>4 DEF Mode5!PayloadPart, Mode5!env, octets
  <2>2. LengthInProgress'
    BY <2>1 DEF LengthInProgress
  <2>. QED
    BY <1>1, <1>2, <1>3, <2>1, <2>2, NothingPublished
<1>5. ASSUME state = "DECODING_FRAME_LEN"
      PROVE  pdu \in Seq(Byte) /\ Len(pdu) \in Nat /\ Len(pdu) < LengthFieldLen
  BY <1>5, LenProperties DEF Inv5, LengthInProgress
<1>6. CASE Mode5!FrameLenPart(in)
  <2>1. /\ Mode5!Consume(8 * octets) /\ UNCHANGED <<rx, out, frameStart, state>>
        /\ state = "DECODING_FRAME_LEN"
        /\ octets < LengthFieldLen - Len(pdu)
        /\ pdu' = pdu \o Mode5!Octets(in)
    BY <1>6 DEF Mode5!FrameLenPart, Mode5!LengthMissing, Mode5!env, octets
  <2>2. Mode5!Octets(in) \in Seq(Byte) /\ Len(Mode5!Octets(in)) = octets
    BY OctetsType DEF octets
  <2>3. /\ pdu \in Seq(Byte) /\ Len(pdu) \in Nat
    BY <1>5, <2>1
  <2>4. pdu' \in Seq(Byte) /\ Len(pdu') = Len(pdu) + octets
    BY <2>1, <2>2, <2>3, ConcatProperties
  <2>5. Len(pdu') < LengthFieldLen
    BY <1>1, <1>2, <2>1, <2>3, <2>4
  <2>6. LengthInProgress'
    BY <2>1, <2>4, <2>5 DEF LengthInProgress
  <2>. QED
    BY <1>1, <1>2, <1>3, <2>1, <2>6, NothingPublished
<1>7. CASE Mode5!FrameLen(in)
  <2>1. PICK missing : missing = Mode5!LengthMissing
    OBVIOUS
  <2>2. /\ Mode5!Consume(8 * missing) /\ UNCHANGED <<rx, out, frameStart>>
        /\ state = "DECODING_FRAME_LEN"
        /\ octets >= missing
        /\ pdu' = <<>> /\ state' \in {"DECODING_PAYLOAD", "SEARCHING"}
    BY <1>7, <2>1 DEF Mode5!FrameLen, Mode5!ResetObject, Mode5!env, octets
  <2>3. missing \in Nat
    BY <1>1, <1>5, <2>1, <2>2 DEF Mode5!LengthMissing
  <2>4. 8 * missing \in Nat /\ 8 * missing <= Len(inp)
    <3>1. \A a, c, t, u \in Nat : a <= c /\ 8 * c <= t => 8 * a \in Nat /\ 8 * a <= t
      OBVIOUS
    <3>. QED
      BY <1>1, <1>2, <1>3, <2>2, <2>3, <3>1
  <2>5. LengthInProgress'
    BY <2>2 DEF LengthInProgress
  <2>. QED
    BY <1>1, <2>2, <2>4, <2>5, NothingPublished
<1>. QED
  BY <1>4, <1>6, <1>7
  DEF Mode5!FrameLenPart, Mode5!FrameLen, Mode5!PayloadPart, Mode5!env

\* The last octet of a payload: its range goes from the mark to what is read.
LEMMA Complete5Inv ==
  ASSUME Inv5, NEW in \in Seq(Bit), Len(in) <= Len(inp),
         Mode5!PayloadComplete(in)
  PROVE  /\ Inv5' /\ nitemsRead' >= nitemsRead /\ rx' = rx
         /\ state # "SEARCHING"
         /\ \/ out' = out
            \/ \E f : /\ out' = Append(out, f)
                       /\ f.start = frameStart
                       /\ f.cnt = nitemsRead' - frameStart
<1>1. /\ Len(in) \in Nat /\ Len(inp) \in Nat
  BY LenProperties, RestProperties DEF Inv5, InputAccounted
<1>. DEFINE octets == Len(in) \div 8
<1>2. octets \in Nat /\ 8 * octets <= Len(in)
  BY <1>1
<1>. HIDE DEF octets
<1>3. PICK missing : missing = Mode5!Missing
  OBVIOUS
<1>4. /\ missing \in 1 .. octets /\ Mode5!Consume(8 * missing) /\ rx' = rx
      /\ state = "DECODING_PAYLOAD" /\ state' = "SEARCHING" /\ pdu' = <<>>
      /\ frameStart' = frameStart
  BY <1>3 DEF Mode5!PayloadComplete, Mode5!ResetObject, Mode5!env, octets
<1>5. 8 * missing \in Nat /\ 8 * missing <= Len(inp)
  <2>1. \A a, c, t, u \in Nat :
          a <= c /\ 8 * c <= t /\ t <= u => 8 * a \in Nat /\ 8 * a <= u
    OBVIOUS
  <2>2. missing \in Nat /\ missing <= octets
    BY <1>2, <1>4
  <2>. QED
    BY <1>1, <1>2, <2>1, <2>2
<1>6. /\ InputAccounted'
      /\ nitemsRead \in Nat /\ nitemsRead' \in Nat
      /\ nitemsRead' >= nitemsRead
  BY <1>4, <1>5, ConsumeAccounts DEF Inv5
<1>7. /\ frameStart \in Nat /\ frameStart <= nitemsRead
      /\ DeliveredBehind
      /\ \A k \in 1 .. Len(out) : out[k].start + out[k].cnt <= frameStart
  BY <1>4 DEF Inv5, MarkedBehind
<1>8. \/ out' = out
      \/ \E f : /\ out' = Append(out, f)
                 /\ f.start = frameStart
                 /\ f.cnt = nitemsRead' - frameStart
  BY DEF Mode5!PayloadComplete, Mode5!Metadata
<1>9. ASSUME NEW k \in 1 .. Len(out)
      PROVE  /\ out[k].start \in Nat /\ out[k].cnt \in Nat
             /\ out[k].start + out[k].cnt <= nitemsRead'
  <2>1. /\ out[k].start \in Nat /\ out[k].cnt \in Nat
        /\ out[k].start + out[k].cnt \in Nat
        /\ out[k].start + out[k].cnt <= nitemsRead
    BY <1>7 DEF DeliveredBehind
  <2>2. \A a, r, t \in Nat : a <= r /\ r <= t => a <= t
    OBVIOUS
  <2>. QED
    BY <1>6, <2>1, <2>2
<1>10. DeliveredBehind'
  <2>1. CASE out' = out
    BY <1>7, <1>9, <2>1 DEF DeliveredBehind, IsSequence
  <2>2. CASE \E f : /\ out' = Append(out, f)
                    /\ f.start = frameStart
                    /\ f.cnt = nitemsRead' - frameStart
    <3>1. PICK f : /\ out' = Append(out, f)
                   /\ f.start = frameStart
                   /\ f.cnt = nitemsRead' - frameStart
      BY <2>2
    <3>2. /\ IsSequence(out') /\ Len(out) \in Nat
          /\ Len(out') = Len(out) + 1
          /\ \A k \in 1 .. Len(out) : out'[k] = out[k]
          /\ out'[Len(out) + 1] = f
      BY <1>7, <3>1, SequenceAppend DEF DeliveredBehind
    <3>3. f.start \in Nat /\ f.cnt \in Nat /\ f.start + f.cnt <= nitemsRead'
      <4>1. \A a, r, t \in Nat :
              a <= r /\ r <= t => t - a \in Nat /\ a + (t - a) <= t
        OBVIOUS
      <4>2. /\ nitemsRead' - frameStart \in Nat
            /\ frameStart + (nitemsRead' - frameStart) <= nitemsRead'
        BY <1>6, <1>7, <4>1
      <4>. QED
        BY <1>7, <3>1, <4>2
    <3>4. ASSUME NEW k \in 1 .. Len(out')
          PROVE  /\ out'[k].start \in Nat /\ out'[k].cnt \in Nat
                 /\ out'[k].start + out'[k].cnt <= nitemsRead'
      <4>1. CASE k \in 1 .. Len(out)
        BY <1>9, <3>2, <4>1
      <4>2. CASE k = Len(out) + 1
        BY <3>2, <3>3, <4>2
      <4>. QED
        BY <3>2, <4>1, <4>2
    <3>. QED
      BY <3>2, <3>4 DEF DeliveredBehind
  <2>. QED
    BY <1>8, <2>1, <2>2
<1>11. MarkedBehind' /\ LengthInProgress'
  BY <1>4, <1>7 DEF MarkedBehind, LengthInProgress
<1>. QED
  BY <1>4, <1>6, <1>8, <1>10, <1>11 DEF Inv5

\* More items in the input buffer.
LEMMA Send5Inv ==
  ASSUME Inv5, NEW chunk \in Mode5Chunks, Mode5!Send(chunk)
  PROVE  Inv5' /\ Len(rx') >= Len(rx)
<1>1. chunk \in Seq(Bit) /\ Len(chunk) \in Nat
  BY StreamAssumption, LenProperties DEF StreamAssumption, Bit
<1>2. /\ rx \in Seq(Bit) /\ Len(rx) \in Nat
      /\ nitemsRead \in 0 .. Len(rx) /\ inp = Rest(rx, nitemsRead)
  BY LenProperties DEF Inv5, InputAccounted
<1>3. /\ inp' = inp \o chunk /\ rx' = rx \o chunk
      /\ UNCHANGED <<state, frameStart, pdu, nitemsRead, out>>
  BY DEF Mode5!Send, Mode5!objectVars
<1>4. /\ rx \o chunk \in Seq(Bit)
      /\ Len(rx \o chunk) = Len(rx) + Len(chunk)
  BY <1>1, <1>2, ConcatProperties
<1>5. Rest(rx \o chunk, nitemsRead) = Rest(rx, nitemsRead) \o chunk
  BY <1>1, <1>2, RestConcat
<1>6. nitemsRead \in 0 .. Len(rx) + Len(chunk) /\ Len(rx) + Len(chunk) >= Len(rx)
  BY <1>1, <1>2
<1>7. InputAccounted'
  BY <1>2, <1>3, <1>4, <1>5, <1>6 DEF InputAccounted
<1>8. DeliveredBehind' /\ MarkedBehind' /\ LengthInProgress'
  BY <1>3 DEF Inv5, DeliveredBehind, MarkedBehind, LengthInProgress, IsSequence
<1>. QED
  BY <1>3, <1>4, <1>6, <1>7, <1>8 DEF Inv5

\* A reset gives up what is in progress.
LEMMA Reset5Inv ==
  ASSUME Inv5, Mode5!Reset
  PROVE  Inv5'
<1>1. /\ state' = "SEARCHING" /\ pdu' = <<>>
      /\ UNCHANGED <<frameStart, nitemsRead, inp, rx, out>>
  BY DEF Mode5!Reset, Mode5!ResetObject
<1>2. InputAccounted' /\ DeliveredBehind'
  BY <1>1 DEF Inv5, InputAccounted, DeliveredBehind, IsSequence, Rest
<1>3. MarkedBehind' /\ LengthInProgress'
  BY <1>1 DEF Inv5, MarkedBehind, LengthInProgress
<1>. QED
  BY <1>2, <1>3 DEF Inv5

\* A call of work() reads on, and publishes nothing or what is complete.
LEMMA Run5Inv ==
  ASSUME Inv5, Mode5!Run
  PROVE  /\ Inv5' /\ nitemsRead' >= nitemsRead /\ rx' = rx
         /\ \/ out' = out
            \/ /\ state # "SEARCHING"
               /\ \E f : /\ out' = Append(out, f)
                         /\ f.start = frameStart
                         /\ f.cnt = nitemsRead' - frameStart
<1>1. PICK n \in 1 .. Len(inp) \div 8 : Mode5!Work(SubSeq(inp, 1, 8 * n))
  BY DEF Mode5!Run
<1>. DEFINE in == SubSeq(inp, 1, 8 * n)
<1>2. in \in Seq(Bit) /\ Len(in) <= Len(inp)
  BY InputOfCall DEF Inv5
<1>. HIDE DEF in
<1>3. Mode5!Work(in)
  BY <1>1 DEF in
<1>4. CASE \/ Mode5!NoPreamble(in) \/ Mode5!PreambleFound(in)
           \/ Mode5!NoPreambleGiven(in) \/ Mode5!SyncSearched(in)
  BY <1>2, <1>4, Search5Inv
<1>5. CASE Mode5!FrameLenPart(in) \/ Mode5!FrameLen(in) \/ Mode5!PayloadPart(in)
  BY <1>2, <1>5, Collect5Inv
<1>6. CASE Mode5!PayloadComplete(in)
  BY <1>2, <1>6, Complete5Inv
<1>. QED
  BY <1>3, <1>4, <1>5, <1>6 DEF Mode5!Work

-----------------------------------------------------------------------------
(***************************************************************************)
(* Mode 5: where in the stream the parts of the object come from.  `at` is *)
(* the number of bits up to the end of the sync word; the length and the   *)
(* payload are the octets behind it.  c is the conf of the block.          *)
(***************************************************************************)

\* What the caller of golay24::decode24 takes for a length is a number.
LengthsAreNumbers ==
  \A octets \in Seq(Byte) : GolayDecode(octets) = -1 \/ GolayDecode(octets) \in Nat

SyncLimitOf(c) == 2 * Len(c.preamble) + Len(c.sync)
CrcLenOf(c) == IF c.crc THEN CrcSize ELSE 0

DataOf(c, octets) ==
  IF c.rs
    THEN SubSeq(RsDecode(octets), 1, Len(RsDecode(octets)) - Parity)
    ELSE octets

ChecksOut(c, data) ==
  LET n == Len(data) - CrcLenOf(c)
  IN  ~ c.crc \/ Crc(SubSeq(data, 1, n)) = SubSeq(data, n + 1, Len(data))

\* The search that began at the start of the frame found the sync word here.
SyncBefore(c, s, start, at) ==
  /\ at - start \in 1 .. SyncLimitOf(c) + 1
  /\ Mode5!Distance(Reg!Entered(s, start, at, Len(c.sync)), c.sync) <= c.syncThrsh

\* The length behind a sync word, and the data behind that.
LengthFrom(s, at) == GolayDecode(OctetsIn(s, at, LengthFieldLen))

DataFrom(c, s, at) ==
  DataOf(c, Mode5!Descrambled(
    OctetsIn(s, at + 8 * LengthFieldLen, LengthFrom(s, at)), 0))

\* A frame as it was sent.
SentFrame(c, s, f) ==
  \E at \in Nat :
    /\ at + 8 * LengthFieldLen <= Len(s)
    /\ SyncBefore(c, s, f.start, at)
    /\ LengthFrom(s, at) \in Nat
    /\ at + 8 * LengthFieldLen + 8 * LengthFrom(s, at) = f.start + f.cnt
    /\ DataFrom(c, s, at) # <<>>
    /\ f.crcValid = ChecksOut(c, DataFrom(c, s, at))
    /\ f.pdu = SubSeq(DataFrom(c, s, at), 1, Len(DataFrom(c, s, at)) - CrcLenOf(c))

\* The register holds what was read since the frame was marked.
Searching5 ==
  /\ conf \in Mode5Configs /\ dsPos = 0
  /\ state = "SEARCHING" => cnt = 0 /\ syncReg = Reg!Zeros(Len(conf.sync))
  /\ state = "SEARCHING_SYNC" =>
       /\ cnt = nitemsRead - frameStart /\ cnt <= SyncLimitOf(conf)
       /\ syncReg = Reg!Entered(rx, frameStart, nitemsRead, Len(conf.sync))

\* The octets of the length so far.
LengthSent(at) ==
  /\ SyncBefore(conf, rx, frameStart, at)
  /\ pdu = OctetsIn(rx, at, Len(pdu))
  /\ at + 8 * Len(pdu) = nitemsRead

\* The length, and the octets of the payload so far.
PayloadSent(at) ==
  /\ SyncBefore(conf, rx, frameStart, at)
  /\ len = LengthFrom(rx, at) /\ len \in Nat
  /\ Len(pdu) \in Nat
  /\ pdu = OctetsIn(rx, at + 8 * LengthFieldLen, Len(pdu))
  /\ at + 8 * LengthFieldLen + 8 * Len(pdu) = nitemsRead

FramesSent == \A j \in 1 .. Len(out) : SentFrame(conf, rx, out[j])

Faithful5 ==
  /\ Searching5
  /\ state = "DECODING_FRAME_LEN" => \E at \in Nat : LengthSent(at)
  /\ state = "DECODING_PAYLOAD" => \E at \in Nat : PayloadSent(at)
  /\ FramesSent

\* The numbers of the search and of the fields.
LEMMA SettingsAreNumbers ==
  ASSUME NEW c \in Mode5Configs
  PROVE  /\ Len(c.sync) \in Nat /\ SyncLimitOf(c) \in Nat
         /\ LengthFieldLen \in Nat /\ LengthFieldLen >= 1
         /\ 8 * LengthFieldLen \in Nat
<1>1. Len(c.preamble) \in Nat /\ Len(c.sync) \in Nat
  BY StreamAssumption, LenProperties DEF StreamAssumption
<1>2. LengthFieldLen \in Nat /\ LengthFieldLen >= 1 /\ 8 * LengthFieldLen \in Nat
  BY StreamAssumption DEF StreamAssumption
<1>3. \A a, b \in Nat : 2 * a + b \in Nat
  OBVIOUS
<1>4. SyncLimitOf(c) \in Nat
  BY <1>1, <1>3 DEF SyncLimitOf
<1>. QED
  BY <1>1, <1>2, <1>4

\* What arrives behind a frame, or behind its sync word, does not change it.
LEMMA SyncBeforeStays ==
  ASSUME NEW c \in Mode5Configs, NEW s \in Seq(Bit), NEW t \in Seq(Bit),
         NEW start \in Nat, NEW at \in Nat, at <= Len(s),
         SyncBefore(c, s, start, at)
  PROVE  SyncBefore(c, s \o t, start, at)
<1>1. Reg!Entered(s \o t, start, at, Len(c.sync))
        = Reg!Entered(s, start, at, Len(c.sync))
  BY SettingsAreNumbers, RegEnteredStays DEF Bit
<1>. QED
  BY <1>1 DEF SyncBefore

LEMMA LengthStays ==
  ASSUME NEW s \in Seq(Bit), NEW t \in Seq(Bit), NEW at \in Nat,
         at + 8 * LengthFieldLen <= Len(s)
  PROVE  LengthFrom(s \o t, at) = LengthFrom(s, at)
<1>1. LengthFieldLen \in Nat
  BY StreamAssumption DEF StreamAssumption
<1>2. OctetsIn(s \o t, at, LengthFieldLen) = OctetsIn(s, at, LengthFieldLen)
  BY <1>1, OctetsInStay DEF Bit
<1>. QED
  BY <1>2 DEF LengthFrom

LEMMA SentFrameStays ==
  ASSUME NEW c \in Mode5Configs, NEW s \in Seq(Bit), NEW t \in Seq(Bit),
         NEW f, f.start \in Nat, f.cnt \in Nat, f.start + f.cnt <= Len(s),
         SentFrame(c, s, f)
  PROVE  SentFrame(c, s \o t, f)
<1>. DEFINE more == s \o t
<1>1. /\ Len(s) \in Nat /\ Len(t) \in Nat
      /\ Len(more) = Len(s) + Len(t)
  BY ConcatProperties, LenProperties
<1>2. PICK at \in Nat :
        /\ at + 8 * LengthFieldLen <= Len(s)
        /\ SyncBefore(c, s, f.start, at)
        /\ LengthFrom(s, at) \in Nat
        /\ at + 8 * LengthFieldLen + 8 * LengthFrom(s, at) = f.start + f.cnt
        /\ DataFrom(c, s, at) # <<>>
        /\ f.crcValid = ChecksOut(c, DataFrom(c, s, at))
        /\ f.pdu = SubSeq(DataFrom(c, s, at), 1, Len(DataFrom(c, s, at)) - CrcLenOf(c))
  BY DEF SentFrame
<1>3. LengthFieldLen \in Nat /\ at <= Len(s)
  BY <1>1, <1>2, SettingsAreNumbers
<1>4. SyncBefore(c, more, f.start, at)
  BY <1>2, <1>3, SyncBeforeStays
<1>5. LengthFrom(more, at) = LengthFrom(s, at)
  BY <1>2, LengthStays
<1>6. DataFrom(c, more, at) = DataFrom(c, s, at)
  <2>. DEFINE body == at + 8 * LengthFieldLen
              n == LengthFrom(s, at)
  <2>1. body \in Nat /\ n \in Nat /\ body + 8 * n <= Len(s)
    BY <1>1, <1>2, <1>3
  <2>. HIDE DEF body, n
  <2>2. OctetsIn(more, body, n) = OctetsIn(s, body, n)
    BY <2>1, OctetsInStay DEF Bit
  <2>. QED
    BY <1>5, <2>2 DEF DataFrom, body, n
<1>7. at + 8 * LengthFieldLen <= Len(more)
  BY <1>1, <1>2, <1>3
<1>. HIDE DEF more
<1>8. SentFrame(c, more, f)
  BY <1>2, <1>4, <1>5, <1>6, <1>7 DEF SentFrame
<1>. QED
  BY <1>8 DEF more

LEMMA Init5Faithful == Mode5!Init => Faithful5
<1>1. \A n : Mode5!Zeros(n) = Reg!Zeros(n)
  BY DEF Mode5!Zeros, Reg!Zeros
<1>2. Len(<<>>) = 0
  BY EmptySeq
<1>. QED
  BY <1>1, <1>2 DEF Mode5!Init, Faithful5, Searching5, FramesSent

\* Giving up what is in progress, or being done with it.
LEMMA GivenUp ==
  ASSUME Faithful5, Mode5!ResetObject, UNCHANGED conf, FramesSent'
  PROVE  Faithful5'
<1>1. state' = "SEARCHING" /\ cnt' = 0 /\ dsPos' = 0
      /\ syncReg' = Reg!Zeros(Len(conf.sync))
  BY DEF Mode5!ResetObject, Mode5!Zeros, Reg!Zeros
<1>2. Searching5'
  BY <1>1 DEF Faithful5, Searching5
<1>. QED
  BY <1>1, <1>2 DEF Faithful5

\* More items in the input buffer.
LEMMA Send5Faithful ==
  ASSUME Inv5, Faithful5, NEW chunk \in Mode5Chunks, Mode5!Send(chunk)
  PROVE  Faithful5'
<1>1. chunk \in Seq(Bit)
  BY StreamAssumption DEF StreamAssumption, Bit
<1>2. /\ rx \in Seq(Bit) /\ Len(rx) \in Nat /\ nitemsRead \in Nat
      /\ nitemsRead <= Len(rx) /\ frameStart \in Nat
      /\ conf \in Mode5Configs
  BY LenProperties
  DEF Inv5, InputAccounted, MarkedBehind, Faithful5, Searching5
<1>3. /\ rx' = rx \o chunk
      /\ UNCHANGED <<conf, state, syncReg, cnt, len, dsPos, frameStart, pdu,
                     nitemsRead, out>>
  BY DEF Mode5!Send, Mode5!objectVars
<1>4. Searching5'
  <2>1. state # "SEARCHING" => frameStart <= nitemsRead
    BY DEF Inv5, MarkedBehind
  <2>2. Reg!Entered(rx \o chunk, frameStart, nitemsRead, Len(conf.sync))
          = Reg!Entered(rx, frameStart, nitemsRead, Len(conf.sync))
    BY <1>1, <1>2, SettingsAreNumbers, RegEnteredStays DEF Bit
  <2>. QED
    BY <1>3, <2>2 DEF Faithful5, Searching5
<1>5. ASSUME state = "DECODING_FRAME_LEN"
      PROVE  (\E at \in Nat : LengthSent(at))'
  <2>1. PICK at \in Nat : LengthSent(at)
    BY <1>5 DEF Faithful5
  <2>2. Len(pdu) \in Nat
    BY <1>5, LenProperties DEF Inv5, LengthInProgress
  <2>3. at <= Len(rx) /\ at + 8 * Len(pdu) <= Len(rx)
    BY <1>2, <2>1, <2>2 DEF LengthSent
  <2>4. SyncBefore(conf, rx \o chunk, frameStart, at)
    BY <1>1, <1>2, <2>1, <2>3, SyncBeforeStays DEF LengthSent
  <2>5. OctetsIn(rx \o chunk, at, Len(pdu)) = OctetsIn(rx, at, Len(pdu))
    BY <1>1, <1>2, <2>2, <2>3, OctetsInStay DEF Bit
  <2>. QED
    BY <1>3, <2>1, <2>4, <2>5 DEF LengthSent
<1>6. ASSUME state = "DECODING_PAYLOAD"
      PROVE  (\E at \in Nat : PayloadSent(at))'
  <2>1. PICK at \in Nat : PayloadSent(at)
    BY <1>6 DEF Faithful5
  <2>. DEFINE body == at + 8 * LengthFieldLen
  <2>2. /\ Len(pdu) \in Nat /\ body \in Nat /\ at <= Len(rx)
        /\ body <= Len(rx) /\ body + 8 * Len(pdu) <= Len(rx)
    BY <1>2, <2>1, SettingsAreNumbers DEF PayloadSent
  <2>3. SyncBefore(conf, rx \o chunk, frameStart, at)
    BY <1>1, <1>2, <2>1, <2>2, SyncBeforeStays DEF PayloadSent
  <2>4. LengthFrom(rx \o chunk, at) = LengthFrom(rx, at)
    BY <1>1, <1>2, <2>2, LengthStays
  <2>. HIDE DEF body
  <2>5. OctetsIn(rx \o chunk, body, Len(pdu)) = OctetsIn(rx, body, Len(pdu))
    BY <1>1, <1>2, <2>2, OctetsInStay DEF Bit
  <2>. QED
    BY <1>3, <2>1, <2>3, <2>4, <2>5 DEF PayloadSent, body
<1>7. FramesSent'
  <2>1. ASSUME NEW j \in 1 .. Len(out)
        PROVE  SentFrame(conf, rx \o chunk, out[j])
    <3>1. /\ out[j].start \in Nat /\ out[j].cnt \in Nat
          /\ out[j].start + out[j].cnt <= Len(rx)
      <4>1. /\ out[j].start \in Nat /\ out[j].cnt \in Nat
            /\ out[j].start + out[j].cnt <= nitemsRead
        BY DEF Inv5, DeliveredBehind
      <4>. QED
        BY <1>2, <4>1
    <3>2. SentFrame(conf, rx, out[j])
      BY DEF Faithful5, FramesSent
    <3>. QED
      BY <1>1, <1>2, <3>1, <3>2, SentFrameStays
  <2>. QED
    BY <1>3, <2>1 DEF FramesSent
<1>. QED
  BY <1>3, <1>4, <1>5, <1>6, <1>7 DEF Faithful5

LEMMA Reset5Faithful ==
  ASSUME Faithful5, Mode5!Reset
  PROVE  Faithful5'
<1>1. Mode5!ResetObject /\ UNCHANGED <<conf, rx, out>>
  BY DEF Mode5!Reset
<1>2. FramesSent'
  BY <1>1 DEF Faithful5, FramesSent
<1>. QED
  BY <1>1, <1>2, GivenUp

\* The settings of the model are those above.
LEMMA SettingsOfModel ==
  /\ Mode5!SyncLimit = SyncLimitOf(conf) /\ Mode5!CrcLen = CrcLenOf(conf)
  /\ \A octets : Mode5!Data(octets) = DataOf(conf, octets)
  /\ \A data : Mode5!CheckCrc(data) = ChecksOut(conf, data)
<1>1. Mode5!SyncLimit = SyncLimitOf(conf) /\ Mode5!CrcLen = CrcLenOf(conf)
  BY DEF Mode5!SyncLimit, SyncLimitOf, Mode5!CrcLen, CrcLenOf
<1>2. \A octets : Mode5!Data(octets) = DataOf(conf, octets)
  BY DEF Mode5!Data, DataOf
<1>3. \A data : Mode5!CheckCrc(data) = ChecksOut(conf, data)
  BY <1>1 DEF Mode5!CheckCrc, ChecksOut
<1>. QED
  BY <1>1, <1>2, <1>3

\* The items that a call is handed, and the first octets of them, are the next
\* bits of the stream.
NextBits(bits) ==
  /\ bits \in Seq(Bit)
  /\ nitemsRead + Len(bits) <= Len(rx)
  /\ \A k \in 1 .. Len(bits) : bits[k] = rx[nitemsRead + k]

LEMMA InputIsNext ==
  ASSUME InputAccounted, NEW n \in Nat, n <= Len(inp)
  PROVE  NextBits(SubSeq(inp, 1, n)) /\ Len(SubSeq(inp, 1, n)) = n
<1>1. /\ rx \in Seq(Bit) /\ Len(rx) \in Nat /\ nitemsRead \in 0 .. Len(rx)
      /\ inp = Rest(rx, nitemsRead)
  BY LenProperties DEF InputAccounted
<1>2. /\ inp \in Seq(Bit) /\ Len(inp) = Len(rx) - nitemsRead
      /\ \A k \in 1 .. Len(rx) - nitemsRead : inp[k] = rx[k + nitemsRead]
  BY <1>1, RestProperties
<1>3. 1 <= n + 1 /\ n - 1 + 1 = n /\ \A k \in 1 .. n : 1 + k - 1 = k
  OBVIOUS
<1>. DEFINE bits == SubSeq(inp, 1, n)
<1>4. /\ bits \in Seq(Bit) /\ Len(bits) = n
      /\ \A k \in 1 .. n : bits[k] = inp[k]
  <2>1. /\ bits \in Seq(Bit) /\ Len(bits) = n - 1 + 1
        /\ \A k \in 1 .. n - 1 + 1 : bits[k] = inp[1 + k - 1]
    BY <1>2, <1>3, PieceProperties
  <2>. HIDE DEF bits
  <2>. QED
    BY <1>3, <2>1
<1>. HIDE DEF bits
<1>5. \A k \in 1 .. n : k \in 1 .. Len(rx) - nitemsRead /\ k + nitemsRead = nitemsRead + k
  BY <1>1, <1>2
<1>6. nitemsRead + n <= Len(rx)
  BY <1>1, <1>2
<1>. QED
  BY <1>2, <1>4, <1>5, <1>6 DEF NextBits, bits

LEMMA HeadIsNext ==
  ASSUME InputAccounted, NEW in, NextBits(in), NEW n \in Nat, n <= Len(in)
  PROVE  NextBits(SubSeq(in, 1, n)) /\ Len(SubSeq(in, 1, n)) = n
<1>1. /\ in \in Seq(Bit) /\ Len(in) \in Nat
      /\ nitemsRead \in Nat /\ Len(rx) \in Nat /\ nitemsRead + Len(in) <= Len(rx)
      /\ \A k \in 1 .. Len(in) : in[k] = rx[nitemsRead + k]
  BY LenProperties DEF NextBits, InputAccounted
<1>2. 1 <= n + 1 /\ n - 1 + 1 = n /\ \A k \in 1 .. n : 1 + k - 1 = k
  OBVIOUS
<1>. DEFINE bits == SubSeq(in, 1, n)
<1>3. /\ bits \in Seq(Bit) /\ Len(bits) = n
      /\ \A k \in 1 .. n : bits[k] = in[k]
  <2>1. /\ bits \in Seq(Bit) /\ Len(bits) = n - 1 + 1
        /\ \A k \in 1 .. n - 1 + 1 : bits[k] = in[1 + k - 1]
    BY <1>1, <1>2, PieceProperties
  <2>. HIDE DEF bits
  <2>. QED
    BY <1>2, <2>1
<1>. HIDE DEF bits
<1>4. nitemsRead + n <= Len(rx) /\ \A k \in 1 .. n : k \in 1 .. Len(in)
  BY <1>1
<1>. QED
  BY <1>1, <1>3, <1>4 DEF NextBits, bits

\* The octets of these bits are joined to those that are there.
LEMMA OctetsJoined ==
  ASSUME InputAccounted, NEW bits, NextBits(bits), NEW at \in Nat, NEW n \in Nat,
         pdu = OctetsIn(rx, at, n), at + 8 * n = nitemsRead
  PROVE  LET all == pdu \o Mode5!Octets(bits)
         IN  /\ all = OctetsIn(rx, at, n + Len(bits) \div 8)
             /\ Len(all) = n + Len(bits) \div 8
<1>1. /\ bits \in Seq(Bit) /\ Len(bits) \in Nat
      /\ rx \in Seq(Bit) /\ Len(rx) \in Nat
      /\ nitemsRead + Len(bits) <= Len(rx) /\ nitemsRead \in Nat
      /\ \A k \in 1 .. Len(bits) : bits[k] = rx[nitemsRead + k]
  BY LenProperties DEF NextBits, InputAccounted
<1>2. /\ at + 8 * n + Len(bits) <= Len(rx)
      /\ \A k \in 1 .. Len(bits) : bits[k] = rx[at + 8 * n + k]
  BY <1>1
<1>3. Joined(OctetsIn(rx, at, n), Reg!Octets(bits))
        = OctetsIn(rx, at, n + Len(bits) \div 8)
  BY <1>1, <1>2, OctetsInGrow DEF Bit
<1>. DEFINE m == Len(bits) \div 8
<1>4. m \in Nat /\ 8 * m <= Len(bits)
  BY <1>1
<1>. HIDE DEF m
<1>5. n + m \in Nat /\ at + 8 * (n + m) <= Len(rx)
  BY <1>1, <1>2, <1>4
<1>6. Len(OctetsIn(rx, at, n + m)) = n + m
  BY <1>1, <1>5, OctetsInProperties DEF Bit
<1>7. Mode5!Octets(bits) = Reg!Octets(bits)
  BY OctetsAreReg
<1>8. pdu \o Mode5!Octets(bits) = OctetsIn(rx, at, n + m)
  BY <1>3, <1>7 DEF Joined, m
<1>. QED
  BY <1>6, <1>8 DEF m

\* No octets are there before the first.
LEMMA NoOctets ==
  ASSUME NEW s \in Seq(Bit), NEW at \in Nat, at <= Len(s)
  PROVE  <<>> = OctetsIn(s, at, 0)
<1>1. at + 8 * 0 <= Len(s)
  OBVIOUS
<1>2. OctetsIn(s, at, 0) \in Seq(Byte) /\ Len(OctetsIn(s, at, 0)) = 0
  BY <1>1, OctetsInProperties DEF Bit, Byte
<1>. QED
  BY <1>2, EmptySeq

\* Bits of the line behind the ones a register holds enter it.
LEMMA Register5Shifts ==
  ASSUME NEW line \in Seq(Bit), NEW from \in Nat, NEW to \in Nat,
         NEW in \in Seq(Bit), NEW words \in Nat, NEW k \in 0 .. Len(in),
         from <= to, to + Len(in) <= Len(line),
         \A j \in 1 .. Len(in) : in[j] = line[to + j]
  PROVE  Mode5!Shifted(Reg!Entered(line, from, to, words), in, k)
           = Reg!Entered(line, from, to + k, words)
<1>1. Reg!Shifted(Reg!Entered(line, from, to, words), in, k)
        = Reg!Entered(line, from, to + k, words)
  BY RegShifts DEF Bit
<1>. QED
  BY <1>1 DEF Mode5!Shifted, Reg!Shifted

\* The search for the sync word.
LEMMA Sync5Faithful ==
  ASSUME Inv5, Faithful5, NEW in, NextBits(in), Len(in) >= 1,
         Mode5!SearchSync(in), UNCHANGED <<conf, rx, out>>,
         \/ state = "SEARCHING" /\ frameStart' = nitemsRead
         \/ state = "SEARCHING_SYNC" /\ frameStart' = frameStart
  PROVE  Faithful5'
<1>. DEFINE start == frameStart'
            words == Len(conf.sync)
            limit == SyncLimitOf(conf)
<1>1. /\ in \in Seq(Bit) /\ Len(in) \in Nat
      /\ rx \in Seq(Bit) /\ Len(rx) \in Nat
      /\ nitemsRead \in Nat /\ nitemsRead + Len(in) <= Len(rx)
      /\ \A k \in 1 .. Len(in) : in[k] = rx[nitemsRead + k]
      /\ frameStart \in Nat
  BY LenProperties DEF Inv5, InputAccounted, MarkedBehind, NextBits
<1>2. words \in Nat /\ limit \in Nat /\ conf \in Mode5Configs
  BY SettingsAreNumbers DEF Faithful5, Searching5
<1>3. /\ start \in Nat /\ start <= nitemsRead
      /\ cnt = nitemsRead - start /\ cnt <= limit
      /\ syncReg = Reg!Entered(rx, start, nitemsRead, words)
  <2>1. CASE state = "SEARCHING" /\ frameStart' = nitemsRead
    <3>1. Reg!Entered(rx, nitemsRead, nitemsRead, words) = Reg!Zeros(words)
      BY <1>1, <1>2, RegEnteredNone
    <3>. QED
      BY <1>1, <1>2, <2>1, <3>1 DEF Faithful5, Searching5
  <2>2. CASE state = "SEARCHING_SYNC" /\ frameStart' = frameStart
    BY <1>1, <1>2, <2>2 DEF Inv5, MarkedBehind, Faithful5, Searching5
  <2>. QED
    BY <2>1, <2>2
<1>. HIDE DEF start, words, limit
<1>4. ASSUME NEW k \in 0 .. Len(in)
      PROVE  Mode5!Shifted(syncReg, in, k)
               = Reg!Entered(rx, start, nitemsRead + k, words)
  <2>1. PICK line, from, to, w :
          line = rx /\ from = start /\ to = nitemsRead /\ w = words
    OBVIOUS
  <2>2. /\ line \in Seq(Bit) /\ from \in Nat /\ to \in Nat
        /\ in \in Seq(Bit) /\ w \in Nat /\ k \in 0 .. Len(in)
        /\ from <= to /\ to + Len(in) <= Len(line)
        /\ \A j \in 1 .. Len(in) : in[j] = line[to + j]
    BY <1>1, <1>2, <1>3, <2>1
  <2>3. Mode5!Shifted(Reg!Entered(line, from, to, w), in, k)
          = Reg!Entered(line, from, to + k, w)
    BY <2>2, Register5Shifts
  <2>. QED
    BY <1>3, <2>1, <2>3
<1>5. FramesSent'
  BY DEF Faithful5, FramesSent
<1>6. CASE Mode5!NoSync(in)
  <2>1. /\ Mode5!SyncEnds(in) = {}
        /\ syncReg' = Mode5!Shifted(syncReg, in, Len(in))
        /\ cnt' = cnt + Len(in) /\ nitemsRead' = nitemsRead + Len(in)
        /\ state' = "SEARCHING_SYNC" /\ dsPos' = dsPos
    BY <1>6 DEF Mode5!NoSync, Mode5!Consume
  <2>2. Len(in) \in 0 .. Len(in) /\ Len(in) \in 1 .. Len(in)
    BY <1>1
  <2>3. ~ (cnt + Len(in) > limit)
    BY <2>1, <2>2, SettingsOfModel DEF Mode5!SyncEnds, limit
  <2>4. cnt' = nitemsRead' - start /\ cnt' <= limit
    BY <1>1, <1>2, <1>3, <2>1, <2>3
  <2>5. syncReg' = Reg!Entered(rx, start, nitemsRead', words)
    BY <1>4, <2>1, <2>2
  <2>6. Searching5'
    BY <2>1, <2>4, <2>5 DEF Faithful5, Searching5, start, words, limit
  <2>. QED
    BY <1>5, <2>1, <2>6 DEF Faithful5
<1>7. CASE Mode5!SyncFound(in)
  <2>1. PICK k : k = Mode5!Min(Mode5!SyncEnds(in))
    OBVIOUS
  <2>2. /\ Mode5!SyncEnds(in) # {}
        /\ Mode5!IsSyncAt(in, k)
        /\ nitemsRead' = nitemsRead + k
        /\ state' = "DECODING_FRAME_LEN" /\ UNCHANGED <<pdu, dsPos>>
    BY <1>7, <2>1 DEF Mode5!SyncFound, Mode5!Consume
  <2>3. /\ k \in 1 .. Len(in)
        /\ \A n \in Mode5!SyncEnds(in) : k <= n
    <3>1. Mode5!SyncEnds(in) \subseteq 1 .. Len(in)
      BY DEF Mode5!SyncEnds
    <3>2. Mode5!SyncEnds(in) \subseteq Nat
      BY <1>1, <3>1
    <3>3. k \in Mode5!SyncEnds(in) /\ \A n \in Mode5!SyncEnds(in) : k <= n
      BY <2>1, <2>2, <3>2, MinProperties
    <3>. QED
      BY <3>1, <3>3
  <2>4. cnt + k <= limit + 1
    <3>1. CASE k = 1
      BY <1>1, <1>2, <1>3, <3>1
    <3>2. CASE k # 1
      <4>1. k - 1 \in 1 .. Len(in) /\ ~ (k <= k - 1)
        BY <1>1, <2>3, <3>2
      <4>2. k - 1 \notin Mode5!SyncEnds(in)
        BY <2>3, <4>1
      <4>3. ~ (cnt + (k - 1) > limit)
        BY <4>1, <4>2, SettingsOfModel DEF Mode5!SyncEnds, limit
      <4>. QED
        BY <1>1, <1>2, <1>3, <2>3, <4>3
    <3>. QED
      BY <3>1, <3>2
  <2>5. nitemsRead + k \in Nat
    BY <1>1, <2>3
  <2>6. PICK at \in Nat : at = nitemsRead + k
    BY <2>5
  <2>7. at \in Nat /\ at - start \in 1 .. limit + 1 /\ at <= Len(rx)
    <3>1. k \in Nat /\ k >= 1 /\ k <= Len(in)
      BY <1>1, <2>3
    <3>2. at - start = cnt + k
      BY <1>1, <1>3, <2>6, <3>1
    <3>3. cnt \in Nat /\ cnt + k \in 1 .. limit + 1
      BY <1>1, <1>2, <1>3, <2>4, <3>1
    <3>. QED
      BY <1>1, <2>6, <3>1, <3>2, <3>3
  <2>8. Mode5!Distance(Reg!Entered(rx, start, at, words), conf.sync) <= conf.syncThrsh
    BY <1>1, <1>4, <2>2, <2>3, <2>6 DEF Mode5!IsSyncAt
  <2>9. SyncBefore(conf, rx, start, at)
    BY <2>7, <2>8 DEF SyncBefore, words, limit
  <2>10. pdu = <<>> /\ Len(<<>>) = 0
    BY EmptySeq DEF Inv5, LengthInProgress
  <2>11. <<>> = OctetsIn(rx, at, 0)
    BY <1>1, <2>7, NoOctets
  <2>12. at + 8 * 0 = nitemsRead'
    BY <2>2, <2>7, <2>6
  <2>13. LengthSent(at)'
    BY <2>2, <2>9, <2>10, <2>11, <2>12 DEF LengthSent, start
  <2>14. Searching5'
    BY <2>2 DEF Faithful5, Searching5
  <2>. QED
    BY <1>5, <2>2, <2>7, <2>13, <2>14 DEF Faithful5
<1>8. CASE Mode5!SyncOverdue(in)
  BY <1>5, <1>8, GivenUp DEF Mode5!SyncOverdue
<1>. QED
  BY <1>6, <1>7, <1>8 DEF Mode5!SearchSync

\* The search for a preamble, or what takes its place without one.
LEMMA Search5Faithful ==
  ASSUME Inv5, Faithful5, NEW in, NextBits(in), Len(in) >= 1,
         \/ Mode5!NoPreamble(in) \/ Mode5!PreambleFound(in)
         \/ Mode5!NoPreambleGiven(in) \/ Mode5!SyncSearched(in)
  PROVE  Faithful5'
<1>1. /\ in \in Seq(Bit) /\ Len(in) \in Nat /\ nitemsRead \in Nat
      /\ conf \in Mode5Configs
      /\ Len(conf.sync) \in Nat /\ SyncLimitOf(conf) \in Nat
  BY LenProperties, SettingsAreNumbers
  DEF Inv5, InputAccounted, NextBits, Faithful5, Searching5
<1>2. UNCHANGED <<conf, rx, out>>
  BY DEF Mode5!NoPreamble, Mode5!PreambleFound, Mode5!NoPreambleGiven,
         Mode5!SyncSearched, Mode5!env
<1>3. FramesSent'
  BY <1>2 DEF Faithful5, FramesSent
<1>4. CASE Mode5!NoPreamble(in)
  <2>1. state = "SEARCHING" /\ UNCHANGED <<state, syncReg, cnt, dsPos>>
    BY <1>4 DEF Mode5!NoPreamble
  <2>. QED
    BY <1>2, <1>3, <2>1 DEF Faithful5, Searching5
<1>5. CASE Mode5!PreambleFound(in)
  <2>1. PICK k : k = Mode5!Min(Mode5!PreamblesIn(in))
    OBVIOUS
  <2>2. /\ Mode5!PreamblesIn(in) # {}
        /\ nitemsRead' = nitemsRead + k /\ frameStart' = nitemsRead + k
        /\ state = "SEARCHING" /\ state' = "SEARCHING_SYNC"
        /\ cnt' = 0 /\ UNCHANGED <<syncReg, dsPos>>
    BY <1>5, <2>1 DEF Mode5!PreambleFound, Mode5!Consume
  <2>3. k \in Nat
    <3>1. Mode5!PreamblesIn(in) \subseteq Nat
      BY <1>1 DEF Mode5!PreamblesIn
    <3>. QED
      BY <2>1, <2>2, <3>1, MinProperties
  <2>4. nitemsRead' \in Nat /\ frameStart' = nitemsRead'
        /\ 0 = nitemsRead' - frameStart' /\ 0 <= SyncLimitOf(conf)
    BY <1>1, <2>2, <2>3
  <2>5. syncReg' = Reg!Entered(rx, frameStart', nitemsRead', Len(conf.sync))
    <3>1. Reg!Entered(rx, nitemsRead', nitemsRead', Len(conf.sync))
            = Reg!Zeros(Len(conf.sync))
      BY <1>1, <2>4, RegEnteredNone
    <3>. QED
      BY <2>2, <2>4, <3>1 DEF Faithful5, Searching5
  <2>6. Searching5'
    BY <1>2, <2>2, <2>4, <2>5 DEF Faithful5, Searching5
  <2>. QED
    BY <1>3, <2>2, <2>6 DEF Faithful5
<1>6. CASE Mode5!NoPreambleGiven(in) \/ Mode5!SyncSearched(in)
  <2>1. /\ Mode5!SearchSync(in)
        /\ \/ state = "SEARCHING" /\ frameStart' = nitemsRead
           \/ state = "SEARCHING_SYNC" /\ frameStart' = frameStart
    BY <1>6 DEF Mode5!NoPreambleGiven, Mode5!SyncSearched
  <2>. QED
    BY <1>2, <2>1, Sync5Faithful
<1>. QED
  BY <1>4, <1>5, <1>6

\* The length, collected octet by octet.
LEMMA Length5Faithful ==
  ASSUME LengthsAreNumbers, Inv5, Faithful5, NEW in, NextBits(in),
         Mode5!FrameLenPart(in) \/ Mode5!FrameLen(in)
  PROVE  Faithful5'
<1>1. /\ state = "DECODING_FRAME_LEN" /\ UNCHANGED <<conf, rx, out, frameStart>>
  BY DEF Mode5!FrameLenPart, Mode5!FrameLen, Mode5!env
<1>2. /\ InputAccounted /\ in \in Seq(Bit) /\ Len(in) \in Nat
      /\ rx \in Seq(Bit) /\ Len(rx) \in Nat /\ nitemsRead \in Nat
      /\ nitemsRead + Len(in) <= Len(rx)
      /\ pdu \in Seq(Byte) /\ Len(pdu) \in Nat /\ Len(pdu) < LengthFieldLen
      /\ LengthFieldLen \in Nat
  BY <1>1, LenProperties, StreamAssumption
  DEF Inv5, InputAccounted, NextBits, LengthInProgress, StreamAssumption
<1>3. PICK at \in Nat : LengthSent(at)
  BY <1>1 DEF Faithful5
<1>4. /\ SyncBefore(conf, rx, frameStart, at)
      /\ pdu = OctetsIn(rx, at, Len(pdu)) /\ at + 8 * Len(pdu) = nitemsRead
  BY <1>3 DEF LengthSent
<1>5. FramesSent'
  BY <1>1 DEF Faithful5, FramesSent
<1>6. CASE Mode5!FrameLenPart(in)
  <2>. DEFINE m == Len(in) \div 8
  <2>1. /\ pdu' = pdu \o Mode5!Octets(in)
        /\ nitemsRead' = nitemsRead + 8 * m
        /\ UNCHANGED <<state, dsPos>>
    BY <1>6 DEF Mode5!FrameLenPart, Mode5!Consume
  <2>2. pdu' = OctetsIn(rx, at, Len(pdu) + m) /\ Len(pdu') = Len(pdu) + m
    BY <1>2, <1>4, <2>1, OctetsJoined
  <2>3. m \in Nat
    BY <1>2
  <2>. HIDE DEF m
  <2>4. at + 8 * (Len(pdu) + m) = nitemsRead'
    <3>1. nitemsRead' = nitemsRead + 8 * m
      BY <2>1
    <3>2. PICK p : p = Len(pdu) /\ p \in Nat
      BY <1>4
    <3>3. at + 8 * p = nitemsRead
      BY <1>4, <3>2
    <3>4. at + 8 * (p + m) = nitemsRead + 8 * m
      BY <2>3, <3>2, <3>3
    <3>. QED
      BY <3>1, <3>2, <3>4
  <2>5. LengthSent(at)'
    BY <1>1, <1>4, <2>2, <2>4 DEF LengthSent
  <2>6. Searching5'
    BY <1>1, <2>1 DEF Faithful5, Searching5
  <2>. QED
    BY <1>1, <1>5, <2>1, <2>5, <2>6 DEF Faithful5
<1>7. CASE Mode5!FrameLen(in)
  <2>1. PICK missing : missing = LengthFieldLen - Len(pdu)
    OBVIOUS
  <2>2. missing \in Nat /\ Len(pdu) + missing = LengthFieldLen
    BY <1>2, <2>1
  <2>. DEFINE bits == SubSeq(in, 1, 8 * missing)
              octets == pdu \o Mode5!Octets(bits)
  <2>3. /\ Len(in) \div 8 >= missing
        /\ nitemsRead' = nitemsRead + 8 * missing
        /\ \/ /\ GolayDecode(octets) # -1 /\ len' = GolayDecode(octets)
              /\ pdu' = <<>> /\ state' = "DECODING_PAYLOAD" /\ dsPos' = dsPos
           \/ Mode5!ResetObject
    BY <1>7, <2>1 DEF Mode5!FrameLen, Mode5!LengthMissing, Mode5!Consume
  <2>4. 8 * missing \in Nat /\ 8 * missing <= Len(in) /\ (8 * missing) \div 8 = missing
    <3>. DEFINE m == Len(in) \div 8
    <3>1. m \in Nat /\ 8 * m <= Len(in)
      BY <1>2
    <3>2. missing <= m
      BY <2>2, <2>3
    <3>. HIDE DEF m
    <3>. QED
      BY <1>2, <2>2, <3>1, <3>2
  <2>5. NextBits(bits) /\ Len(bits) \div 8 = missing
    BY <1>2, <2>4, HeadIsNext
  <2>. HIDE DEF bits
  <2>6. octets = OctetsIn(rx, at, LengthFieldLen)
    BY <1>2, <1>4, <2>2, <2>5, OctetsJoined
  <2>. HIDE DEF octets
  <2>7. at + 8 * LengthFieldLen = nitemsRead' /\ at + 8 * LengthFieldLen <= Len(rx)
    BY <1>2, <1>4, <2>2, <2>3, <2>4
  <2>8. CASE /\ GolayDecode(octets) # -1 /\ len' = GolayDecode(octets)
             /\ pdu' = <<>> /\ state' = "DECODING_PAYLOAD" /\ dsPos' = dsPos
    <3>1. OctetsIn(rx, at, LengthFieldLen) \in Seq(Byte)
      BY <1>2, <2>7, OctetsInProperties DEF Bit, Byte
    <3>2. len' = LengthFrom(rx, at) /\ len' \in Nat
      BY <2>6, <2>8, <3>1 DEF LengthFrom, LengthsAreNumbers
    <3>. DEFINE body == at + 8 * LengthFieldLen
    <3>3. body \in Nat /\ body <= Len(rx) /\ body + 8 * 0 = nitemsRead'
      BY <1>2, <2>7
    <3>. HIDE DEF body
    <3>4. <<>> = OctetsIn(rx, body, 0) /\ Len(<<>>) = 0
      BY <1>2, <3>3, NoOctets, EmptySeq
    <3>5. PayloadSent(at)'
      BY <1>1, <1>4, <2>8, <3>2, <3>3, <3>4 DEF PayloadSent, body
    <3>6. Searching5'
      BY <1>1, <2>8 DEF Faithful5, Searching5
    <3>. QED
      BY <1>5, <2>8, <3>5, <3>6 DEF Faithful5
  <2>. QED
    BY <1>1, <1>5, <2>3, <2>8, GivenUp
<1>. QED
  BY <1>6, <1>7

\* The payload, collected octet by octet, and the frame it makes.
LEMMA Payload5Faithful ==
  ASSUME Inv5, Inv5', Faithful5, NEW in, NextBits(in),
         Mode5!PayloadPart(in) \/ Mode5!PayloadComplete(in)
  PROVE  Faithful5'
<1>1. /\ state = "DECODING_PAYLOAD" /\ UNCHANGED <<conf, rx, len, frameStart>>
  BY DEF Mode5!PayloadPart, Mode5!PayloadComplete, Mode5!env
<1>2. /\ InputAccounted /\ in \in Seq(Bit) /\ Len(in) \in Nat
      /\ rx \in Seq(Bit) /\ Len(rx) \in Nat /\ nitemsRead \in Nat
      /\ nitemsRead + Len(in) <= Len(rx)
      /\ LengthFieldLen \in Nat /\ frameStart \in Nat
      /\ conf \in Mode5Configs /\ dsPos = 0
  BY LenProperties, StreamAssumption
  DEF Inv5, InputAccounted, NextBits, MarkedBehind, StreamAssumption, Faithful5,
      Searching5
<1>3. PICK at \in Nat : PayloadSent(at)
  BY <1>1 DEF Faithful5
<1>4. PICK body : body = at + 8 * LengthFieldLen
  OBVIOUS
<1>5. /\ SyncBefore(conf, rx, frameStart, at)
      /\ len = LengthFrom(rx, at) /\ len \in Nat
      /\ Len(pdu) \in Nat /\ body \in Nat
      /\ pdu = OctetsIn(rx, body, Len(pdu)) /\ body + 8 * Len(pdu) = nitemsRead
  BY <1>2, <1>3, <1>4 DEF PayloadSent
<1>6. ASSUME out' = out
      PROVE  FramesSent'
  BY <1>1, <1>6 DEF Faithful5, FramesSent
<1>7. CASE Mode5!PayloadPart(in)
  <2>. DEFINE m == Len(in) \div 8
  <2>1. /\ pdu' = pdu \o Mode5!Octets(in)
        /\ nitemsRead' = nitemsRead + 8 * m
        /\ UNCHANGED <<state, dsPos, out>>
    BY <1>7 DEF Mode5!PayloadPart, Mode5!Consume
  <2>2. pdu' = OctetsIn(rx, body, Len(pdu) + m) /\ Len(pdu') = Len(pdu) + m
    BY <1>2, <1>5, <2>1, OctetsJoined
  <2>3. m \in Nat
    BY <1>2
  <2>. HIDE DEF m
  <2>4. body + 8 * (Len(pdu) + m) = nitemsRead' /\ Len(pdu) + m \in Nat
    <3>1. nitemsRead' = nitemsRead + 8 * m
      BY <2>1
    <3>2. \A a, p, k, t \in Nat :
            a + 8 * p = t => a + 8 * (p + k) = t + 8 * k /\ p + k \in Nat
      OBVIOUS
    <3>. QED
      BY <1>2, <1>5, <2>3, <3>1, <3>2
  <2>5. PayloadSent(at)'
    BY <1>1, <1>4, <1>5, <2>2, <2>4 DEF PayloadSent
  <2>6. Searching5'
    BY <1>1, <2>1 DEF Faithful5, Searching5
  <2>. QED
    BY <1>1, <1>6, <2>1, <2>5, <2>6 DEF Faithful5
<1>8. CASE Mode5!PayloadComplete(in)
  <2>1. PICK missing : missing = len - Len(pdu)
    OBVIOUS
  <2>. DEFINE bits == SubSeq(in, 1, 8 * missing)
              octets == pdu \o Mode5!Octets(bits)
              data == DataOf(conf, Mode5!Descrambled(octets, 0))
  <2>2. /\ missing \in 1 .. Len(in) \div 8
        /\ nitemsRead' = nitemsRead + 8 * missing
        /\ Mode5!ResetObject
        /\ IF data # <<>>
             THEN out' = Append(out, Mode5!Metadata(data, nitemsRead'))
             ELSE out' = out
    BY <1>2, <1>8, <2>1, SettingsOfModel
    DEF Mode5!PayloadComplete, Mode5!Missing, Mode5!Consume
  <2>3. missing \in Nat /\ missing <= Len(in) \div 8
    BY <1>2, <2>2
  <2>4. /\ 8 * missing \in Nat /\ 8 * missing <= Len(in)
         /\ (8 * missing) \div 8 = missing
    <3>1. \A k, n \in Nat :
            k <= n \div 8 => 8 * k \in Nat /\ 8 * k <= n /\ (8 * k) \div 8 = k
      OBVIOUS
    <3>. QED
      BY <1>2, <2>3, <3>1
  <2>5. Len(pdu) + missing = len
    BY <1>5, <2>1
  <2>6. NextBits(bits) /\ Len(bits) \div 8 = missing
    BY <1>2, <2>4, HeadIsNext
  <2>. HIDE DEF bits
  <2>7. octets = OctetsIn(rx, body, len)
    <3>1. octets = OctetsIn(rx, body, Len(pdu) + Len(bits) \div 8)
      BY <1>2, <1>5, <2>6, OctetsJoined
    <3>. HIDE DEF octets
    <3>. QED
      BY <2>6, <2>5, <3>1
  <2>. HIDE DEF octets
  <2>8. data = DataFrom(conf, rx, at)
    BY <1>4, <1>5, <2>7 DEF DataFrom
  <2>. HIDE DEF data
  <2>9. /\ body + 8 * len = nitemsRead' /\ nitemsRead' \in Nat
        /\ at + 8 * LengthFieldLen <= Len(rx)
        /\ frameStart + (nitemsRead' - frameStart) = nitemsRead'
    <3>1. nitemsRead' = nitemsRead + 8 * missing
      BY <2>2
    <3>2. PICK p, h, t :
            /\ p = Len(pdu) /\ h = body /\ t = nitemsRead
            /\ p \in Nat /\ h \in Nat /\ t \in Nat
      BY <1>2, <1>5
    <3>3. /\ h + 8 * p = t
          /\ p + missing = len
      BY <1>5, <2>5, <3>2
    <3>4. h + 8 * (p + missing) = t + 8 * missing
      BY <2>3, <3>2, <3>3
    <3>5. h + 8 * len = t + 8 * missing
      BY <3>3, <3>4
    <3>6. h <= t /\ t + 8 * missing \in Nat
      BY <2>3, <3>2, <3>3
    <3>7. /\ body + 8 * len = nitemsRead' /\ nitemsRead' \in Nat
          /\ body <= nitemsRead
      BY <3>1, <3>2, <3>5, <3>6
    <3>8. \A s, n \in Nat : s + (n - s) = n
      OBVIOUS
    <3>9. body <= Len(rx)
      BY <1>2, <1>5, <3>7
    <3>. QED
      BY <1>2, <1>4, <3>7, <3>8, <3>9
  <2>10. CASE data # <<>>
    <3>1. PICK f : f = Mode5!Metadata(data, nitemsRead')
      OBVIOUS
    <3>2. /\ f.pdu = SubSeq(data, 1, Len(data) - CrcLenOf(conf))
          /\ f.crcValid = ChecksOut(conf, data)
          /\ f.start = frameStart /\ f.cnt = nitemsRead' - frameStart
      BY <3>1, SettingsOfModel DEF Mode5!Metadata
    <3>3. SentFrame(conf, rx, f)
      BY <1>4, <1>5, <2>8, <2>9, <2>10, <3>2 DEF SentFrame
    <3>4. /\ out' = Append(out, f) /\ IsSequence(out)
      BY <2>2, <2>10, <3>1 DEF Inv5, DeliveredBehind
    <3>5. /\ Len(out) \in Nat /\ Len(out') = Len(out) + 1
          /\ \A k \in 1 .. Len(out) : out'[k] = out[k]
          /\ out'[Len(out) + 1] = f
      BY <3>4, SequenceAppend
    <3>6. ASSUME NEW j \in 1 .. Len(out')
          PROVE  SentFrame(conf, rx, out'[j])
      <4>1. CASE j \in 1 .. Len(out)
        BY <3>5, <4>1 DEF Faithful5, FramesSent
      <4>2. CASE j = Len(out) + 1
        BY <3>3, <3>5, <4>2
      <4>. QED
        BY <3>5, <4>1, <4>2
    <3>7. FramesSent'
      BY <1>1, <3>6 DEF FramesSent
    <3>. QED
      BY <1>1, <2>2, <3>7, GivenUp
  <2>11. CASE data = <<>>
    BY <1>1, <1>6, <2>2, <2>11, GivenUp
  <2>. QED
    BY <2>10, <2>11
<1>. QED
  BY <1>7, <1>8

LEMMA Run5Faithful ==
  ASSUME LengthsAreNumbers, Inv5, Inv5', Faithful5, Mode5!Run
  PROVE  Faithful5'
<1>1. PICK n \in 1 .. Len(inp) \div 8 : Mode5!Work(SubSeq(inp, 1, 8 * n))
  BY DEF Mode5!Run
<1>. DEFINE in == SubSeq(inp, 1, 8 * n)
<1>2. InputAccounted
  BY DEF Inv5
<1>3. 8 * n \in Nat /\ 8 * n <= Len(inp) /\ 8 * n >= 1
  BY <1>2, InputOfCall
<1>4. NextBits(in) /\ Len(in) >= 1
  BY <1>2, <1>3, InputIsNext
<1>. HIDE DEF in
<1>5. Mode5!Work(in)
  BY <1>1 DEF in
<1>. QED
  BY <1>4, <1>5, Search5Faithful, Length5Faithful, Payload5Faithful DEF Mode5!Work

\* The properties of the model, from those of the stream.
LEMMA FaithfulIsProperty ==
  ASSUME Inv5, Faithful5
  PROVE  Mode5!FrameFaithful
<1>1. /\ rx \in Seq(Bit) /\ Len(rx) \in Nat /\ conf \in Mode5Configs
      /\ LengthFieldLen \in Nat /\ SyncLimitOf(conf) \in Nat
  BY LenProperties, SettingsAreNumbers DEF Inv5, InputAccounted, Faithful5, Searching5
<1>. SUFFICES ASSUME NEW j \in 1 .. Len(out)
              PROVE  LET f == out[j]
                     IN  \E from \in f.start + 2 .. f.start + Mode5!SyncLimit + 2 :
                       /\ from + 8 * LengthFieldLen - 1 <= Len(rx)
                       /\ Mode5!SyncInFront(f.start, from)
                       /\ Mode5!LengthAt(from) # -1
                       /\ Mode5!CloseOf(from) = f.start + f.cnt
                       /\ Mode5!FrameAt(from) # <<>>
                       /\ f.crcValid = Mode5!CheckCrc(Mode5!FrameAt(from))
                       /\ f.pdu = SubSeq(Mode5!FrameAt(from), 1,
                                    Len(Mode5!FrameAt(from)) - Mode5!CrcLen)
  BY DEF Mode5!FrameFaithful
<1>2. PICK f : f = out[j]
  OBVIOUS
<1>3. f.start \in Nat /\ f.cnt \in Nat /\ SentFrame(conf, rx, f)
  BY <1>2 DEF Inv5, DeliveredBehind, Faithful5, FramesSent
<1>4. PICK at \in Nat :
        /\ at + 8 * LengthFieldLen <= Len(rx)
        /\ SyncBefore(conf, rx, f.start, at)
        /\ LengthFrom(rx, at) \in Nat
        /\ at + 8 * LengthFieldLen + 8 * LengthFrom(rx, at) = f.start + f.cnt
        /\ DataFrom(conf, rx, at) # <<>>
        /\ f.crcValid = ChecksOut(conf, DataFrom(conf, rx, at))
        /\ f.pdu = SubSeq(DataFrom(conf, rx, at), 1,
                          Len(DataFrom(conf, rx, at)) - CrcLenOf(conf))
  BY <1>3 DEF SentFrame
<1>5. PICK from : from = at + 1
  OBVIOUS
<1>6. /\ from \in f.start + 2 .. f.start + SyncLimitOf(conf) + 2
      /\ from + 8 * LengthFieldLen - 1 <= Len(rx)
      /\ from - 1 = at
  <2>1. at - f.start \in 1 .. SyncLimitOf(conf) + 1
    BY <1>4 DEF SyncBefore
  <2>2. \A n, s, l \in Nat :
          n - s \in 1 .. l + 1 => n + 1 \in s + 2 .. s + l + 2 /\ (n + 1) - 1 = n
    OBVIOUS
  <2>3. (at + 1) + 8 * LengthFieldLen - 1 <= Len(rx)
    BY <1>1, <1>4
  <2>. QED
    BY <1>1, <1>3, <1>5, <2>1, <2>2, <2>3
<1>7. Mode5!SyncInFront(f.start, from)
  <2>1. \A s, a, b, n : Mode5!Entered(s, a, b, n) = Reg!Entered(s, a, b, n)
    BY DEF Mode5!Entered, Reg!Entered
  <2>. QED
    BY <1>4, <1>6, <2>1, SettingsOfModel DEF Mode5!SyncInFront, SyncBefore
<1>8. ASSUME NEW b \in Nat, NEW n \in Nat
      PROVE  Mode5!SentOctets(b + 1, n) = OctetsIn(rx, b, n)
  <2>1. b + 1 + 8 * n - 1 = b + 8 * n
    OBVIOUS
  <2>. QED
    BY <2>1, OctetsAreReg DEF Mode5!SentOctets, Mode5!Stretch, OctetsIn
<1>9. Mode5!LengthAt(from) = LengthFrom(rx, at)
  BY <1>1, <1>5, <1>8 DEF Mode5!LengthAt, LengthFrom
<1>10. Mode5!FrameAt(from) = DataFrom(conf, rx, at)
  <2>1. PICK b : b = at + 8 * LengthFieldLen
    OBVIOUS
  <2>2. b \in Nat /\ from + 8 * LengthFieldLen = b + 1
    BY <1>1, <1>5, <2>1
  <2>3. Mode5!SentOctets(b + 1, LengthFrom(rx, at)) = OctetsIn(rx, b, LengthFrom(rx, at))
    BY <1>4, <1>8, <2>2
  <2>. QED
    BY <1>9, <2>1, <2>2, <2>3, SettingsOfModel DEF Mode5!FrameAt, DataFrom
<1>11. Mode5!CloseOf(from) = f.start + f.cnt
  <2>1. PICK n : n = LengthFrom(rx, at)
    OBVIOUS
  <2>2. n \in Nat /\ from + 8 * (LengthFieldLen + n) - 1 = at + 8 * LengthFieldLen + 8 * n
    BY <1>1, <1>4, <1>5, <2>1
  <2>. QED
    BY <1>4, <1>9, <2>1, <2>2 DEF Mode5!CloseOf
<1>12. Mode5!LengthAt(from) # -1
  BY <1>4, <1>9
<1>. QED
  BY <1>2, <1>4, <1>6, <1>7, <1>10, <1>11, <1>12, SettingsOfModel

-----------------------------------------------------------------------------
(* The invariants of both modes *)

Inv == mode \in {5, 6} /\ (mode = 5 => Inv5) /\ (mode = 6 => Inv6)

LEMMA InitInv == Init => Inv
BY Init5Inv, Init6Inv DEF Init, Inv

\* No variable that an invariant reads changes in a stutter.
LEMMA StutterInv ==
  ASSUME Inv, UNCHANGED vars
  PROVE  Inv'
<1>1. UNCHANGED <<mode, conf, state, dsPos, frameStart, nitemsRead, rx, out, pdu,
                  inp, decB, prevBit, decodedBits, frame, bitstream, startIdx,
                  pc, i, level>>
  BY DEF vars, shared, only5, only6
<1>2. Inv5 => Inv5'
  BY <1>1 DEF Inv5, InputAccounted, DeliveredBehind, MarkedBehind,
              LengthInProgress, IsSequence, Rest
<1>3. Inv6 => Inv6'
  BY <1>1 DEF Inv6, TypeOK6, Mode6!BufferAccounted, DeliveredBehind, IsSequence
<1>. QED
  BY <1>1, <1>2, <1>3 DEF Inv

LEMMA NextInv ==
  ASSUME CodesInPlace, Inv, [Next]_vars
  PROVE  Inv'
<1>1. CASE mode = 5 /\ Mode5!Next /\ mode' = mode
  <2>1. Inv5
    BY <1>1 DEF Inv
  <2>2. CASE \E chunk \in Mode5Chunks : Mode5!Send(chunk)
    BY <1>1, <2>1, <2>2, Send5Inv DEF Inv
  <2>3. CASE Mode5!Reset
    BY <1>1, <2>1, <2>3, Reset5Inv DEF Inv
  <2>4. CASE Mode5!Run
    BY <1>1, <2>1, <2>4, Run5Inv DEF Inv
  <2>. QED
    BY <1>1, <2>2, <2>3, <2>4 DEF Mode5!Next
<1>2. CASE mode = 6 /\ Mode6!Next /\ mode' = mode
  <2>1. Inv6
    BY <1>2 DEF Inv
  <2>2. Inv6'
    BY <1>2, <2>1, Next6Inv
  <2>. QED
    BY <1>2, <2>2 DEF Inv
<1>3. CASE UNCHANGED vars
  BY <1>3, StutterInv
<1>. QED
  BY <1>1, <1>2, <1>3 DEF Next

\* In every reachable state the invariants hold, if Reed-Solomon and the
\* descrambler work in place.
THEOREM Invariance ==
  ASSUME CodesInPlace
  PROVE  Spec => []Inv
<1>1. Init => Inv
  BY InitInv
<1>2. Inv /\ [Next]_vars => Inv'
  BY NextInv
<1>. QED
  BY <1>1, <1>2, PTL DEF Spec

\* However calls cut the stream, whatever frames are given up, decoded in vain
\* or reset, d_bitstream in mode 6 is what was sent and not read, a frame
\* that is open begins with its first bit, and no index leaves a buffer.
THEOREM BufferIsAccounted ==
  ASSUME CodesInPlace
  PROVE  Spec => []BufferAccounted
<1>1. Inv => BufferAccounted
  BY DEF Inv, Inv6, BufferAccounted
<1>. QED
  BY <1>1, Invariance, PTL

LEMMA NextFaithful ==
  ASSUME LengthsAreNumbers, Inv, Inv', mode = 5 => Faithful5, [Next]_vars
  PROVE  (mode = 5 => Faithful5)'
<1>. SUFFICES ASSUME mode' = 5
              PROVE  Faithful5'
  OBVIOUS
<1>1. mode = 5 /\ Inv5 /\ Inv5' /\ Faithful5
  BY DEF Inv, Next, vars
<1>2. CASE Mode5!Next
  BY <1>1, <1>2, Send5Faithful, Reset5Faithful, Run5Faithful DEF Mode5!Next
<1>3. CASE UNCHANGED vars
  <2>1. UNCHANGED <<conf, dsPos, state, cnt, syncReg, nitemsRead, frameStart, rx,
                    pdu, len, out>>
    BY <1>3 DEF vars, shared, only5
  <2>2. Searching5' /\ FramesSent'
    BY <1>1, <2>1 DEF Faithful5, Searching5, FramesSent
  <2>3. \A at \in Nat : /\ LengthSent(at) => LengthSent(at)'
                        /\ PayloadSent(at) => PayloadSent(at)'
    BY <2>1 DEF LengthSent, PayloadSent
  <2>. QED
    BY <1>1, <2>1, <2>2, <2>3 DEF Faithful5
<1>. QED
  BY <1>1, <1>2, <1>3 DEF Next

\* Whatever mode 5 publishes was sent in the range its metadata names: behind a
\* sync word that the search from its start found, the length, and the octets
\* of which the frame is what the descrambler and Reed-Solomon make.
THEOREM Mode5FramesAreAsSent ==
  ASSUME CodesInPlace, LengthsAreNumbers
  PROVE  Spec => [](mode = 5 => Mode5!FrameFaithful)
<1>1. Init => (mode = 5 => Faithful5)
  BY Init5Faithful DEF Init
<1>2. Inv /\ Inv' /\ (mode = 5 => Faithful5) /\ [Next]_vars
        => (mode = 5 => Faithful5)'
  BY NextFaithful
<1>3. Inv /\ (mode = 5 => Faithful5) => (mode = 5 => Mode5!FrameFaithful)
  BY FaithfulIsProperty DEF Inv
<1>. QED
  BY <1>1, <1>2, <1>3, Invariance, PTL DEF Spec

-----------------------------------------------------------------------------
(* The refinement *)

LEMMA SpansAreRanges == Spans = RangesOf(out) /\ Spans' = RangesOf(out')
BY DEF Spans, RangesOf, RangeOf

LEMMA InitRefines == Init => Contract!Init
<1>. SUFFICES ASSUME Init PROVE Contract!Init
  OBVIOUS
<1>1. rx = <<>> /\ out = <<>> /\ nitemsRead = 0
  BY DEF Init, Mode5!Init, Mode6!Init
<1>2. <<>> \in Seq({}) /\ Len(<<>>) = 0
  BY EmptySeq
<1>3. IsSequence(<<>>)
  BY <1>2, SequenceOver
<1>4. IsSequence(RangesOf(<<>>)) /\ Len(RangesOf(<<>>)) = 0
  BY <1>2, <1>3, RangesProperties
<1>5. RangesOf(<<>>) = <<>>
  BY <1>4, EmptySeq DEF IsSequence
<1>. QED
  BY <1>1, <1>2, <1>5, SpansAreRanges DEF Contract!Init

\* A step that delivers a frame whose range begins where those before end.
LEMMA DeliversInOrder ==
  ASSUME DeliveredBehind, NEW f, out' = Append(out, f), rx' = rx,
         nitemsRead \in Nat, nitemsRead' \in Nat, Len(rx) \in Nat,
         nitemsRead' >= nitemsRead, nitemsRead' <= Len(rx),
         f.start \in Nat, f.cnt \in Nat, f.start + f.cnt <= Len(rx),
         \A n \in 1 .. Len(out) : out[n].start + out[n].cnt <= f.start
  PROVE  Contract!Next
<1>1. /\ IsSequence(Spans) /\ Len(out) \in Nat
      /\ Len(Spans) = Len(out)
      /\ \A j \in 1 .. Len(out) : Spans[j] = RangeOf(out[j])
  BY RangesProperties, SpansAreRanges DEF DeliveredBehind
<1>2. Spans' = Append(Spans, RangeOf(f))
  BY RangesAppend, SpansAreRanges DEF DeliveredBehind
<1>3. Spans'[Len(Spans) + 1] = RangeOf(f)
  BY <1>1, <1>2, SequenceAppend
<1>4. RangeOf(f).start = f.start /\ RangeOf(f).cnt = f.cnt
  BY DEF RangeOf
<1>5. ASSUME Spans # <<>>
      PROVE  RangeOf(f).start + 0 >= Spans[Len(Spans)].start + Spans[Len(Spans)].cnt
  <2>1. Len(out) \in 1 .. Len(out)
    BY <1>1, <1>5, EmptySeq DEF IsSequence
  <2>2. /\ Spans[Len(Spans)].start = out[Len(out)].start
        /\ Spans[Len(Spans)].cnt = out[Len(out)].cnt
    <3>1. Spans[Len(Spans)] = RangeOf(out[Len(out)])
      BY <1>1, <2>1
    <3>. QED
      BY <3>1 DEF RangeOf
  <2>3. /\ out[Len(out)].start + out[Len(out)].cnt <= f.start
        /\ out[Len(out)].start \in Nat /\ out[Len(out)].cnt \in Nat
    BY <2>1 DEF DeliveredBehind
  <2>. QED
    BY <1>4, <2>2, <2>3
<1>6. /\ RangeOf(f).start >= 0 /\ RangeOf(f).cnt >= 0
      /\ RangeOf(f).start + RangeOf(f).cnt <= Len(rx)
  BY <1>4
<1>. QED
  BY <1>2, <1>3, <1>5, <1>6
  DEF Contract!Next, Contract!Deliver, Contract!EndOf

\* A step that delivers nothing: it reads on, or more items are handed over.
LEMMA ReadsOn ==
  ASSUME out' = out, Len(rx) \in Nat, Len(rx') \in Nat,
         \/ rx' = rx /\ nitemsRead' >= nitemsRead /\ nitemsRead' <= Len(rx)
         \/ Len(rx') >= Len(rx) /\ nitemsRead' = nitemsRead
  PROVE  Contract!Next
<1>1. Spans' = Spans
  BY DEF Spans
<1>. QED
  BY <1>1 DEF Contract!Next, Contract!Advance, Contract!Feed

\* The read cursor never passes what was handed over.
LEMMA ReadBehind ==
  ASSUME Inv
  PROVE  nitemsRead \in Nat /\ Len(rx) \in Nat /\ nitemsRead <= Len(rx)
<1>1. CASE Inv5
  <2>1. rx \in Seq(Bit) /\ nitemsRead \in 0 .. Len(rx)
    BY <1>1 DEF Inv5, InputAccounted
  <2>2. Len(rx) \in Nat
    BY <2>1, LenProperties
  <2>. QED
    BY <2>1, <2>2
<1>2. CASE Inv6
  <2>1. /\ rx \in Seq(Bit) /\ bitstream \in Seq(Bit) /\ nitemsRead \in Nat
        /\ nitemsRead + Len(bitstream) = Len(rx)
    BY <1>2, AccountedParts DEF Inv6, TypeOK6, LineAccounted
  <2>2. Len(rx) \in Nat /\ Len(bitstream) \in Nat
    BY <2>1, LenProperties
  <2>. QED
    BY <2>1, <2>2
<1>. QED
  BY <1>1, <1>2 DEF Inv

\* Mode 6 only moves its read cursor forward, and publishes in FrameEnd only.
LEMMA Next6Refines ==
  ASSUME Inv6, Inv, Inv', Mode6!Next
  PROVE  Contract!Next
<1>1. /\ nitemsRead \in Nat /\ Len(rx) \in Nat /\ nitemsRead <= Len(rx)
      /\ Len(bitstream) \in Nat /\ i \in Nat
  BY ReadBehind, LenProperties DEF Inv6, TypeOK6
<1>2. nitemsRead' \in Nat /\ Len(rx') \in Nat /\ nitemsRead' <= Len(rx')
  <2>1. CASE Inv5'
    <3>1. rx' \in Seq(Bit) /\ nitemsRead' \in 0 .. Len(rx')
      BY <2>1 DEF Inv5, InputAccounted
    <3>2. Len(rx') \in Nat
      BY <3>1, LenProperties
    <3>. QED
      BY <3>1, <3>2
  <2>2. CASE Inv6'
    <3>1. /\ rx' \in Seq(Bit) /\ bitstream' \in Seq(Bit) /\ nitemsRead' \in Nat
          /\ nitemsRead' + Len(bitstream') = Len(rx')
      BY <2>2 DEF Inv6, TypeOK6, Mode6!BufferAccounted
    <3>2. Len(rx') \in Nat /\ Len(bitstream') \in Nat
      BY <3>1, LenProperties
    <3>. QED
      BY <3>1, <3>2
  <2>. QED
    BY <2>1, <2>2 DEF Inv
<1>3. CASE \E bits \in Mode6Chunks : Mode6!Decode(bits)
  <2>1. PICK bits \in Mode6Chunks : Mode6!Decode(bits)
    BY <1>3
  <2>2. rx \in Seq(Bit) /\ bits \in Seq(Bit)
    BY StreamAssumption DEF StreamAssumption, Bit, Inv6, TypeOK6
  <2>3. Len(rx \o bits) = Len(rx) + Len(bits) /\ Len(bits) \in Nat
    BY <2>2, ConcatProperties, LenProperties
  <2>4. rx' = rx \o bits /\ out' = out /\ nitemsRead' = nitemsRead
    BY <2>1 DEF Mode6!Decode
  <2>5. Len(rx') >= Len(rx)
    BY <1>1, <2>3, <2>4
  <2>. QED
    BY <1>1, <1>2, <2>4, <2>5, ReadsOn
<1>4. ASSUME out' = out, rx' = rx,
             \/ nitemsRead' = nitemsRead
             \/ \E n \in Nat : nitemsRead' = nitemsRead + n
      PROVE  Contract!Next
  <2>1. nitemsRead' >= nitemsRead
    BY <1>1, <1>4
  <2>. QED
    BY <1>1, <1>2, <1>4, <2>1, ReadsOn
<1>5. CASE Mode6!Reset
  <2>1. out' = out /\ rx' = rx /\ nitemsRead' = nitemsRead
    BY <1>5 DEF Mode6!Reset, Mode6!buffer
  <2>. QED
    BY <1>4, <2>1
<1>6. CASE \/ Mode6!NoSyncBit \/ Mode6!InSyncBit \/ Mode6!InSyncData
           \/ Mode6!OutOfBits \/ Mode6!FrameDropped \/ Mode6!FrameCrcWrong
           \/ Mode6!StuffedBit \/ Mode6!DataBit \/ Mode6!WrongSize
  <2>1. out' = out /\ rx' = rx /\ nitemsRead' = nitemsRead
    BY <1>6 DEF Mode6!NoSyncBit, Mode6!InSyncBit, Mode6!InSyncData,
         Mode6!OutOfBits, Mode6!FrameDropped, Mode6!FrameCrcWrong,
         Mode6!StuffedBit, Mode6!DataBit, Mode6!WrongSize, Mode6!buffer,
         Mode6!env
  <2>. QED
    BY <1>4, <2>1
<1>7. CASE Mode6!NoSyncFlags
  <2>1. out' = out /\ rx' = rx /\ nitemsRead' = nitemsRead + (i + 1)
    BY <1>7 DEF Mode6!NoSyncFlags, Mode6!Erase, Mode6!env
  <2>2. i + 1 \in Nat
    BY <1>1
  <2>. QED
    BY <1>4, <2>1, <2>2
<1>8. CASE Mode6!NoSyncEnd
  <2>1. out' = out /\ rx' = rx /\ nitemsRead' = nitemsRead + Len(bitstream)
    BY <1>8 DEF Mode6!NoSyncEnd, Mode6!Erase, Mode6!env
  <2>. QED
    BY <1>1, <1>4, <2>1
<1>9. CASE Mode6!FrameEnd
  <2>1. PICK f : f = Mode6!Metadata
    OBVIOUS
  <2>2. /\ out' = Append(out, f) /\ f.start = nitemsRead /\ f.cnt = i
        /\ nitemsRead + i <= Len(rx)
    BY <1>9, <2>1, FrameEnds
  <2>3. rx' = rx /\ nitemsRead' = nitemsRead + (i + 1)
    BY <1>9 DEF Mode6!FrameEnd, Mode6!Erase, Mode6!env
  <2>4. /\ nitemsRead' >= nitemsRead /\ nitemsRead' <= Len(rx)
        /\ f.start \in Nat /\ f.cnt \in Nat /\ f.start + f.cnt <= Len(rx)
    BY <1>1, <1>2, <2>2, <2>3
  <2>5. DeliveredBehind
    BY DEF Inv6
  <2>6. \A n \in 1 .. Len(out) : out[n].start + out[n].cnt <= f.start
    BY <2>2, <2>5 DEF DeliveredBehind
  <2>. QED
    BY <1>1, <1>2, <2>2, <2>3, <2>4, <2>5, <2>6, DeliversInOrder
<1>. QED
  BY <1>3, <1>5, <1>6, <1>7, <1>8, <1>9 DEF Mode6!Next, Mode6!Scan

\* Mode 5 reads on in every call, and publishes from its mark on.
LEMMA Next5Refines ==
  ASSUME Inv5, Inv, Mode5!Next
  PROVE  Contract!Next
<1>1. nitemsRead \in Nat /\ Len(rx) \in Nat /\ nitemsRead <= Len(rx)
  BY ReadBehind
<1>2. ASSUME Inv5'
      PROVE  nitemsRead' \in Nat /\ Len(rx') \in Nat /\ nitemsRead' <= Len(rx')
  <2>1. rx' \in Seq(Bit) /\ nitemsRead' \in 0 .. Len(rx')
    BY <1>2 DEF Inv5, InputAccounted
  <2>2. Len(rx') \in Nat
    BY <2>1, LenProperties
  <2>. QED
    BY <2>1, <2>2
<1>3. CASE \E chunk \in Mode5Chunks : Mode5!Send(chunk)
  <2>1. PICK chunk \in Mode5Chunks : Mode5!Send(chunk)
    BY <1>3
  <2>2. Inv5' /\ Len(rx') >= Len(rx)
    BY <2>1, Send5Inv
  <2>3. out' = out /\ nitemsRead' = nitemsRead
    BY <2>1 DEF Mode5!Send
  <2>. QED
    BY <1>1, <1>2, <2>2, <2>3, ReadsOn
<1>4. CASE Mode5!Reset
  <2>1. out' = out /\ rx' = rx /\ nitemsRead' = nitemsRead
    BY <1>4 DEF Mode5!Reset
  <2>2. nitemsRead' >= nitemsRead /\ nitemsRead' <= Len(rx) /\ Len(rx') \in Nat
    BY <1>1, <2>1
  <2>. QED
    BY <1>1, <2>1, <2>2, ReadsOn
<1>5. CASE Mode5!Run
  <2>1. /\ Inv5' /\ nitemsRead' >= nitemsRead /\ rx' = rx
        /\ \/ out' = out
           \/ /\ state # "SEARCHING"
              /\ \E f : /\ out' = Append(out, f)
                        /\ f.start = frameStart
                        /\ f.cnt = nitemsRead' - frameStart
    BY <1>5, Run5Inv
  <2>2. nitemsRead' \in Nat /\ nitemsRead' <= Len(rx) /\ Len(rx') \in Nat
    BY <1>2, <2>1
  <2>3. CASE out' = out
    BY <1>1, <2>1, <2>2, <2>3, ReadsOn
  <2>4. CASE /\ state # "SEARCHING"
             /\ \E f : /\ out' = Append(out, f)
                       /\ f.start = frameStart
                       /\ f.cnt = nitemsRead' - frameStart
    <3>1. PICK f : /\ out' = Append(out, f)
                   /\ f.start = frameStart
                   /\ f.cnt = nitemsRead' - frameStart
      BY <2>4
    <3>2. /\ frameStart \in Nat /\ frameStart <= nitemsRead /\ DeliveredBehind
          /\ \A n \in 1 .. Len(out) : out[n].start + out[n].cnt <= frameStart
      BY <2>4 DEF Inv5, MarkedBehind
    <3>3. \A a, r, t, u \in Nat :
            a <= r /\ r <= t /\ t <= u => t - a \in Nat /\ a + (t - a) <= u
      OBVIOUS
    <3>4. /\ nitemsRead' - frameStart \in Nat
          /\ frameStart + (nitemsRead' - frameStart) <= Len(rx)
      BY <1>1, <2>1, <2>2, <3>2, <3>3
    <3>5. f.start \in Nat /\ f.cnt \in Nat /\ f.start + f.cnt <= Len(rx)
      BY <3>1, <3>2, <3>4
    <3>6. \A n \in 1 .. Len(out) : out[n].start + out[n].cnt <= f.start
      BY <3>1, <3>2
    <3>. QED
      BY <1>1, <2>1, <2>2, <3>1, <3>2, <3>5, <3>6, DeliversInOrder
  <2>. QED
    BY <2>1, <2>3, <2>4
<1>. QED
  BY <1>3, <1>4, <1>5 DEF Mode5!Next

\* Every step of either mode is a step of the contract, or none of it.
LEMMA NextRefines ==
  ASSUME Inv, Inv', [Next]_vars
  PROVE  [Contract!Next]_(Contract!contractVars)
<1>1. CASE mode = 5 /\ Mode5!Next
  BY <1>1, Next5Refines DEF Inv
<1>2. CASE mode = 6 /\ Mode6!Next
  BY <1>2, Next6Refines DEF Inv
<1>3. CASE UNCHANGED vars
  <2>1. UNCHANGED <<out, rx, nitemsRead>>
    BY <1>3 DEF vars, shared
  <2>. QED
    BY <2>1 DEF Contract!contractVars, Spans
<1>. QED
  BY <1>1, <1>2, <1>3 DEF Next

\* Both modes of ax100_decoder keep the contract of the decoders: the read
\* cursor only moves forward over what was handed over, frames come out in
\* stream order and no two ranges overlap.
THEOREM Refinement ==
  ASSUME CodesInPlace
  PROVE  Spec => ImplementsDecoder
<1>1. Init => Contract!Init
  BY InitRefines
<1>2. Inv /\ Inv' /\ [Next]_vars => [Contract!Next]_(Contract!contractVars)
  BY NextRefines
<1>. QED
  BY <1>1, <1>2, Invariance, PTL DEF Spec, ImplementsDecoder, Contract!Spec
=============================================================================
