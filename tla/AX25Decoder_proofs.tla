------------------------ MODULE AX25Decoder_proofs ------------------------
(***************************************************************************)
(* Proofs about AX25Decoder for every frame limit, every FCS function and  *)
(* every set of chunks.  Three inductive invariants carry them:            *)
(*   IInv     the types, the accounting of the bits and the bounds of the  *)
(*            cursors; from it that the decoder implements the contract;   *)
(*   LineInv  what the registers and the octets say of the line behind     *)
(*            them, with OutInv for what is published: FrameFaithful;      *)
(*   FlagInv  what has become of each flag that may open a frame that must *)
(*            be published: NoFrameDiscarded.                              *)
(***************************************************************************)
EXTENDS AX25Decoder, SequenceTheorems, DecoderLemmas, TLAPS

-----------------------------------------------------------------------------
(* Lemmas about the operators *)

\* What is left after n bits are erased.
LEMMA DropProperties ==
  ASSUME NEW S, NEW s \in Seq(S), NEW n \in 0 .. Len(s)
  PROVE  /\ Drop(s, n) \in Seq(S)
         /\ Len(Drop(s, n)) = Len(s) - n
         /\ \A k \in 1 .. Len(s) - n : Drop(s, n)[k] = s[k + n]
BY RestProperties DEF Drop, Rest

\* Erasing m bits and then n is erasing m + n.
LEMMA DropDrop ==
  ASSUME NEW S, NEW s \in Seq(S), NEW m \in 0 .. Len(s),
         NEW n \in 0 .. Len(s) - m
  PROVE  Drop(Drop(s, m), n) = Drop(s, m + n)
BY RestRest DEF Drop, Rest

\* Bits appended behind what is erased are not touched.
LEMMA DropConcat ==
  ASSUME NEW S, NEW s \in Seq(S), NEW t \in Seq(S), NEW n \in 0 .. Len(s)
  PROVE  Drop(s \o t, n) = Drop(s, n) \o t
BY RestConcat DEF Drop, Rest

\* Erasing nothing.
LEMMA DropNone ==
  ASSUME NEW S, NEW s \in Seq(S)
  PROVE  Drop(s, 0) = s
BY RestNone DEF Drop, Rest

-----------------------------------------------------------------------------
(* The registers *)

\* decode_1b leaves an octet in each register.
LEMMA ShiftInType ==
  ASSUME NEW reg \in Byte, NEW b \in Bit
  PROVE  ShiftIn(reg, b) \in Byte
BY DEF ShiftIn, Byte, Bit

\* error_correction leaves octets.
LEMMA ToggleType ==
  ASSUME NEW byte \in Byte, NEW mask \in Masks
  PROVE  Toggle(byte, mask) \in Byte
BY DEF Toggle, Byte, Masks

\* The next bit of the buffer is a bit, the registers stay octets.
LEMMA NextRegType ==
  ASSUME TypeOK, i < Len(bitstream)
  PROVE  CurrentBit \in Bit /\ NextReg \in Byte /\ NextDecB \in Byte
<1>1. i + 1 \in 1 .. Len(bitstream) /\ bitstream \in Seq(Bit)
  BY LenProperties DEF TypeOK
<1>2. CurrentBit \in Bit
  BY <1>1, ElementOfSeq DEF CurrentBit
<1>. QED
  BY <1>2, ShiftInType DEF TypeOK, NextReg, NextDecB

\* Among the corrections that work there is a first one.
LEMMA FirstCorrectionFound ==
  ASSUME NEW bytes \in Seq(Byte), Corrections(bytes) # {}
  PROVE  \E best \in Corrections(bytes) : FirstCorrection(bytes) = Tried(bytes, best)
<1>. DEFINE Rank(try) == 256 * try[1] + try[2]
            ranks == {Rank(try) : try \in Corrections(bytes)}
<1>1. ASSUME NEW try \in Corrections(bytes)
      PROVE  try[1] \in 1 .. Len(bytes) /\ try[2] \in Masks
  BY DEF Corrections, Tries
<1>2. Len(bytes) \in Nat
  BY LenProperties
<1>3. ranks \subseteq Nat /\ ranks # {}
  BY <1>1, <1>2 DEF Masks
<1>. HIDE DEF ranks
<1>4. PICK least \in ranks : \A rank \in ranks : least <= rank
  BY <1>3, LeastNat
<1>5. PICK first \in Corrections(bytes) : least = Rank(first)
  BY DEF ranks
<1>6. ASSUME NEW other \in Corrections(bytes)
      PROVE  IsBefore(first, other)
  <2>1. Rank(other) \in ranks
    BY DEF ranks
  <2>2. ~ (Rank(other) < least)
    <3>1. Rank(other) \in Nat /\ least \in Nat
      BY <1>3, <2>1
    <3>2. least <= Rank(other)
      BY <1>4, <2>1
    <3>. HIDE DEF Rank
    <3>. QED
      BY <3>1, <3>2
  <2>3. first[1] \in 1 .. Len(bytes) /\ first[2] \in Masks
    BY <1>1
  <2>4. other[1] \in 1 .. Len(bytes) /\ other[2] \in Masks
    BY <1>1
  <2>5. /\ first[1] \in Nat /\ first[2] \in 1 .. 128
        /\ other[1] \in Nat /\ other[2] \in 1 .. 128
    BY <1>2, <2>3, <2>4 DEF Masks
  <2>6. ~ (256 * other[1] + other[2] < 256 * first[1] + first[2])
    BY <1>5, <2>2
  <2>7. \A a, c \in Nat, b, d \in 1 .. 128 :
          ~ (256 * c + d < 256 * a + b) => a < c \/ (a = c /\ b <= d)
    OBVIOUS
  <2>8. \/ first[1] < other[1]
        \/ first[1] = other[1] /\ first[2] <= other[2]
    BY <2>5, <2>6, <2>7
  <2>. QED
    BY <2>8 DEF IsBefore
<1>. DEFINE best == CHOOSE try \in Corrections(bytes) :
                      \A other \in Corrections(bytes) : IsBefore(try, other)
<1>7. best \in Corrections(bytes)
  BY <1>6
<1>8. FirstCorrection(bytes) = Tried(bytes, best)
  BY DEF FirstCorrection
<1>. HIDE DEF best
<1>. QED
  BY <1>7, <1>8

\* It leaves octets.
LEMMA FirstCorrectionType ==
  ASSUME NEW bytes \in Seq(Byte), Corrections(bytes) # {}
  PROVE  FirstCorrection(bytes) \in Seq(Byte)
<1>1. PICK best \in Corrections(bytes) : FirstCorrection(bytes) = Tried(bytes, best)
  BY FirstCorrectionFound
<1>2. best[1] \in 1 .. Len(bytes) /\ best[2] \in Masks
  BY DEF Corrections, Tries
<1>3. bytes[best[1]] \in Byte
  BY <1>2, ElementOfSeq
<1>4. Toggle(bytes[best[1]], best[2]) \in Byte
  BY <1>2, <1>3, ToggleType
<1>5. Tried(bytes, best) \in Seq(Byte)
  BY <1>2, <1>4, ExceptSeq DEF Tried
<1>. QED
  BY <1>1, <1>5

-----------------------------------------------------------------------------
(* The line *)

\* The levels on the line are bits, as many as the chunk has.
LEMMA LineType ==
  ASSUME NEW chunk \in Seq(Bit), level \in Bit
  PROVE  Line(chunk) \in Seq(Bit) /\ Len(Line(chunk)) = Len(chunk)
<1>1. Len(chunk) \in Nat
  BY LenProperties
<1>2. ASSUME NEW k \in 1 .. Len(chunk)
      PROVE  (level + chunk[k]) % 2 \in Bit
  <2>1. chunk[k] \in Bit
    BY ElementOfSeq
  <2>. QED
    BY <2>1 DEF Bit
<1>. QED
  BY <1>1, <1>2 DEF Line

\* As long as d_prev_bit_nrzi is the last level on the line, the decoder
\* reads what the transmitter means.
LEMMA NrziMeaning ==
  ASSUME NEW in \in Seq(Bit), level \in Bit, prevBit = level
  PROVE  /\ Nrzi(in) = Meaning(in)
         /\ Nrzi(in) \in Seq(Bit)
         /\ Len(Nrzi(in)) = Len(in)
<1>1. Len(in) \in Nat
  BY LenProperties
<1>2. ASSUME NEW k \in 1 .. Len(in)
      PROVE  /\ 1 - ((in[k] - (IF k = 1 THEN prevBit ELSE in[k - 1])) % 2)
                   = IF in[k] = (IF k = 1 THEN level ELSE in[k - 1])
                       THEN 1 ELSE 0
             /\ 1 - ((in[k] - (IF k = 1 THEN prevBit ELSE in[k - 1])) % 2)
                   \in Bit
  <2>. DEFINE last == IF k = 1 THEN prevBit ELSE in[k - 1]
  <2>1. in[k] \in Bit
    BY ElementOfSeq
  <2>2. last \in Bit
    <3>1. CASE k = 1
      BY <3>1
    <3>2. CASE k # 1
      <4>1. k - 1 \in 1 .. Len(in)
        BY <1>1, <3>2
      <4>. QED
        BY <3>2, <4>1, ElementOfSeq
    <3>. QED
      BY <3>1, <3>2
  <2>. HIDE DEF last
  <2>3. /\ 1 - ((in[k] - last) % 2) = IF in[k] = last THEN 1 ELSE 0
        /\ 1 - ((in[k] - last) % 2) \in Bit
    BY <2>1, <2>2 DEF Bit
  <2>. QED
    BY <2>3 DEF last
<1>. QED
  BY <1>1, <1>2 DEF Nrzi, Meaning

-----------------------------------------------------------------------------
(***************************************************************************)
(* The inductive invariant.  No conjunct is inductive alone: d_nitems_read *)
(* stays a natural number only because the cursors are at least one flag   *)
(* into the buffer, the sample count of a published frame only because the *)
(* frame was marked behind the read cursor, and the octets published are   *)
(* octets only because the buffer holds bits.                              *)
(***************************************************************************)
IInv ==
  /\ TypeOK
  /\ NoBitLost
  /\ Cursors
  /\ FrameInProgress
  /\ DeliveredBehind

\* The decoder starts in the invariant.
LEMMA InitIInv == Init => IInv
<1>. SUFFICES ASSUME Init PROVE IInv
  OBVIOUS
<1>. USE DEF Init
<1>1. TypeOK
  BY EmptySeq DEF TypeOK, States, Byte, Bit
<1>2. NoBitLost
  <2>1. <<>> \in Seq(Bit) /\ Len(<<>>) = 0
    BY EmptySeq
  <2>2. Drop(<<>>, 0) = <<>>
    BY <2>1, DropNone
  <2>. QED
    BY <2>1, <2>2 DEF NoBitLost
<1>3. Cursors /\ FrameInProgress
  BY DEF Cursors, FrameInProgress
<1>4. DeliveredBehind
  BY DEF DeliveredBehind
<1>. QED
  BY <1>1, <1>2, <1>3, <1>4 DEF IInv

\* Erasing n buffered bits and counting them keeps the accounting.
LEMMA ConsumeAccounts ==
  ASSUME TypeOK, NoBitLost, NEW n \in 0 .. Len(bitstream), Consume(n),
         UNCHANGED <<rx, prevBit, level>>
  PROVE  /\ bitstream' \in Seq(Bit)
         /\ Len(bitstream') = Len(bitstream) - n
         /\ nitemsRead' \in Nat
         /\ nitemsRead' = nitemsRead + n
         /\ NoBitLost'
<1>1. /\ bitstream \in Seq(Bit) /\ rx \in Seq(Bit)
      /\ nitemsRead \in Nat /\ Len(bitstream) \in Nat /\ Len(rx) \in Nat
  BY LenProperties DEF TypeOK
<1>2. bitstream' \in Seq(Bit) /\ Len(bitstream') = Len(bitstream) - n
  BY <1>1, DropProperties DEF Consume
<1>3. nitemsRead' = nitemsRead + n /\ nitemsRead' \in Nat
  BY <1>1 DEF Consume
<1>4. /\ nitemsRead + Len(bitstream) = Len(rx)
      /\ bitstream = Drop(rx, nitemsRead)
      /\ prevBit = level
  BY DEF NoBitLost
<1>5. Drop(Drop(rx, nitemsRead), n) = Drop(rx, nitemsRead + n)
  <2>1. nitemsRead \in 0 .. Len(rx) /\ n \in 0 .. Len(rx) - nitemsRead
    BY <1>1, <1>4
  <2>. QED
    BY <1>1, <2>1, DropDrop
<1>6. bitstream' = Drop(rx', nitemsRead')
  BY <1>3, <1>4, <1>5 DEF Consume
<1>7. nitemsRead' + Len(bitstream') = Len(rx')
  BY <1>1, <1>2, <1>3, <1>4
<1>. QED
  BY <1>2, <1>3, <1>4, <1>6, <1>7 DEF NoBitLost

\* Moving the read cursor forward keeps what was published behind it.
LEMMA StillBehind ==
  ASSUME TypeOK, DeliveredBehind, out' = out, rx' = rx,
         nitemsRead' \in Nat, nitemsRead' >= nitemsRead,
         \/ state' = "NO_SYNC"
         \/ state # "NO_SYNC" /\ frameStart' = frameStart
         \/ frameStart' = nitemsRead'
  PROVE  DeliveredBehind'
<1>. SUFFICES ASSUME NEW n \in 1 .. Len(out)
              PROVE  LET end == out[n].start + out[n].cnt
                     IN  /\ end <= nitemsRead' + 7
                         /\ end <= Len(rx)
                         /\ state' # "NO_SYNC" => end <= frameStart' + 7
  BY DEF DeliveredBehind
<1>1. out[n] \in Pdus
  BY ElementOfSeq DEF TypeOK
<1>. DEFINE end == out[n].start + out[n].cnt
<1>2. end \in Nat
  BY <1>1 DEF Pdus
<1>3. /\ end <= nitemsRead + 7
      /\ end <= Len(rx)
      /\ state # "NO_SYNC" => end <= frameStart + 7
  BY DEF DeliveredBehind
<1>. HIDE DEF end
<1>4. end <= nitemsRead' + 7
  <2>1. nitemsRead \in Nat /\ end <= nitemsRead + 7
    BY <1>3 DEF TypeOK
  <2>2. \A e, m, n2 \in Nat : e <= m + 7 /\ n2 >= m => e <= n2 + 7
    OBVIOUS
  <2>. QED
    BY <1>2, <2>1, <2>2
<1>5. state' # "NO_SYNC" => end <= frameStart' + 7
  BY <1>3, <1>4
<1>. QED
  BY <1>3, <1>4, <1>5 DEF end

\* No line bit is erased: the accounting is untouched.
LEMMA NothingErased ==
  ASSUME NoBitLost, UNCHANGED <<bitstream, nitemsRead, prevBit, level, rx>>
  PROVE  NoBitLost'
BY DEF NoBitLost, Drop

-----------------------------------------------------------------------------
(* Every step keeps the invariant: the calls *)

LEMMA DecodeKeepsIInv ==
  ASSUME IInv, NEW chunk \in Chunks, Decode(Line(chunk))
  PROVE  IInv'
<1>. DEFINE in == Line(chunk)
<1>1. chunk \in Seq(Bit) /\ Len(chunk) \in Nat /\ Len(chunk) > 0
  BY ConstantsAssumption, EmptySeq, LenProperties DEF ConstantsAssumption
<1>2. /\ level \in Bit /\ prevBit = level
      /\ bitstream \in Seq(Bit) /\ rx \in Seq(Bit)
      /\ nitemsRead \in Nat /\ startIdx \in Nat /\ calls \in Nat
      /\ nitemsRead + Len(bitstream) = Len(rx)
      /\ bitstream = Drop(rx, nitemsRead)
  BY DEF IInv, TypeOK, NoBitLost
<1>3. in \in Seq(Bit) /\ Len(in) = Len(chunk)
  BY <1>1, <1>2, LineType
<1>4. in[Len(in)] \in Bit
  BY <1>1, <1>3, ElementOfSeq
<1>. HIDE DEF in
<1>. DEFINE new == Nrzi(in)
<1>5. /\ new = Meaning(in)
      /\ new \in Seq(Bit)
      /\ Len(new) = Len(in)
  BY <1>2, <1>3, NrziMeaning
<1>6. bitstream' = bitstream \o new /\ rx' = rx \o new
  BY <1>5 DEF Decode, in
<1>. HIDE DEF new
<1>7. /\ bitstream' \in Seq(Bit) /\ Len(bitstream') = Len(bitstream) + Len(new)
      /\ rx' \in Seq(Bit) /\ Len(rx') = Len(rx) + Len(new)
  BY <1>2, <1>5, <1>6, ConcatProperties
<1>8. Len(bitstream) \in Nat /\ Len(rx) \in Nat /\ Len(new) \in Nat
  BY <1>2, <1>5, LenProperties
<1>9. /\ prevBit' = in[Len(in)] /\ level' = in[Len(in)]
      /\ calls' = calls + 1
      /\ pc = "idle" /\ pc' = "scan"
      /\ i' = IF state = "NO_SYNC" THEN 0 ELSE startIdx
      /\ UNCHANGED <<state, shiftReg, decB, decodedBits, frame, startIdx,
                     frameStart, nitemsRead, resets, out>>
  BY DEF Decode, Continue, in
<1>10. TypeOK'
  BY <1>2, <1>4, <1>7, <1>9 DEF IInv, TypeOK
<1>11. NoBitLost'
  <2>1. nitemsRead \in 0 .. Len(rx)
    BY <1>2, <1>8
  <2>2. Drop(rx \o new, nitemsRead) = Drop(rx, nitemsRead) \o new
    BY <1>2, <1>5, <2>1, DropConcat
  <2>3. bitstream' = Drop(rx', nitemsRead')
    BY <1>2, <1>6, <1>9, <2>2
  <2>4. nitemsRead + (Len(bitstream) + Len(new)) = Len(rx) + Len(new)
    BY <1>2, <1>8
  <2>5. nitemsRead' + Len(bitstream') = Len(rx')
    BY <1>7, <1>9, <2>4
  <2>. QED
    BY <1>9, <2>3, <2>5 DEF NoBitLost
<1>12. Cursors'
  <2>1. /\ i <= Len(bitstream)
        /\ state = "IN_SYNC" => /\ startIdx <= Len(bitstream)
                                /\ startIdx >= decodedBits + 1
        /\ state = "DECODING" => startIdx \in 7 .. Len(bitstream)
        /\ state \in States
    BY <1>9 DEF IInv, Cursors, TypeOK
  <2>. QED
    BY <1>2, <1>7, <1>8, <1>9, <2>1 DEF Cursors, States
<1>13. FrameInProgress'
  BY <1>9 DEF IInv, FrameInProgress
<1>14. DeliveredBehind'
  <2>. SUFFICES ASSUME NEW n \in 1 .. Len(out)
                PROVE  out[n].start + out[n].cnt <= Len(rx')
    BY <1>9 DEF IInv, DeliveredBehind
  <2>1. out[n] \in Pdus
    BY ElementOfSeq DEF IInv, TypeOK
  <2>2. out[n].start + out[n].cnt \in Nat
    BY <2>1 DEF Pdus
  <2>3. out[n].start + out[n].cnt <= Len(rx)
    BY DEF IInv, DeliveredBehind
  <2>. QED
    BY <1>7, <1>8, <2>2, <2>3
<1>. QED
  BY <1>10, <1>11, <1>12, <1>13, <1>14 DEF IInv

LEMMA ResetKeepsIInv ==
  ASSUME IInv, Reset
  PROVE  IInv'
<1>. USE DEF Reset, ClearedTo, env
<1>1. TypeOK'
  <2>1. <<>> \in Seq(Byte)
    BY EmptySeq
  <2>2. [sent |-> Len(rx), published |-> Len(out)]
          \in [sent : Nat, published : Nat]
    BY LenProperties DEF IInv, TypeOK
  <2>3. resets' \in Seq([sent : Nat, published : Nat])
    BY <2>2, AppendProperties DEF IInv, TypeOK
  <2>. QED
    BY <2>1, <2>3 DEF IInv, TypeOK, States, Byte
<1>2. NoBitLost'
  BY NothingErased DEF IInv
<1>3. Cursors'
  BY DEF IInv, Cursors
<1>4. FrameInProgress'
  BY DEF IInv, FrameInProgress
<1>5. DeliveredBehind'
  BY StillBehind DEF IInv, TypeOK
<1>. QED
  BY <1>1, <1>2, <1>3, <1>4, <1>5 DEF IInv

-----------------------------------------------------------------------------
(* Every step keeps the invariant: case NO_SYNC *)

LEMMA NoSyncBitKeepsIInv ==
  ASSUME IInv, NoSyncBit
  PROVE  IInv'
<1>. USE DEF NoSyncBit, InScan, env
<1>1. NextReg \in Byte /\ NextDecB \in Byte
  BY NextRegType DEF IInv
<1>2. i \in Nat /\ Len(bitstream) \in Nat /\ i < Len(bitstream)
  BY LenProperties DEF IInv, TypeOK
<1>3. TypeOK'
  BY <1>1, <1>2 DEF IInv, TypeOK
<1>4. NoBitLost'
  BY NothingErased DEF IInv
<1>5. Cursors' /\ FrameInProgress'
  BY <1>2 DEF IInv, Cursors, FrameInProgress
<1>6. DeliveredBehind'
  BY DEF IInv, DeliveredBehind
<1>. QED
  BY <1>3, <1>4, <1>5, <1>6 DEF IInv

LEMMA NoSyncFlagKeepsIInv ==
  ASSUME IInv, NoSyncFlag
  PROVE  IInv'
<1>. USE DEF NoSyncFlag, InScan, ClearedTo, Continue, env
<1>1. i \in Nat /\ Len(bitstream) \in Nat /\ i < Len(bitstream)
      /\ nitemsRead \in Nat
  BY LenProperties DEF IInv, TypeOK
<1>2. /\ bitstream' \in Seq(Bit)
      /\ Len(bitstream') = Len(bitstream) - i
      /\ nitemsRead' \in Nat
      /\ nitemsRead' = nitemsRead + i
      /\ NoBitLost'
  BY <1>1, ConsumeAccounts DEF IInv
<1>3. TypeOK'
  BY <1>2, EmptySeq DEF IInv, TypeOK, States, Byte
<1>4. Cursors'
  <2>1. 1 <= Len(bitstream')
    BY <1>1, <1>2
  <2>. QED
    BY <2>1 DEF Cursors
<1>5. FrameInProgress'
  BY <1>2 DEF FrameInProgress
<1>6. DeliveredBehind'
  BY <1>1, <1>2, StillBehind DEF IInv
<1>. QED
  BY <1>2, <1>3, <1>4, <1>5, <1>6 DEF IInv

LEMMA NoSyncEndKeepsIInv ==
  ASSUME IInv, NoSyncEnd
  PROVE  IInv'
<1>. USE DEF NoSyncEnd, InScan, Return, env
<1>1. Len(bitstream) \in Nat /\ nitemsRead \in Nat
  BY LenProperties DEF IInv, TypeOK
<1>2. /\ bitstream' \in Seq(Bit)
      /\ Len(bitstream') = 0
      /\ nitemsRead' \in Nat
      /\ nitemsRead' >= nitemsRead
      /\ NoBitLost'
  <2>1. /\ bitstream' \in Seq(Bit)
        /\ Len(bitstream') = Len(bitstream) - Len(bitstream)
        /\ nitemsRead' \in Nat
        /\ nitemsRead' = nitemsRead + Len(bitstream)
        /\ NoBitLost'
    BY <1>1, ConsumeAccounts DEF IInv
  <2>. QED
    BY <1>1, <2>1
<1>3. TypeOK'
  BY <1>2 DEF IInv, TypeOK
<1>4. Cursors' /\ FrameInProgress'
  BY <1>2 DEF IInv, Cursors, FrameInProgress
<1>5. DeliveredBehind'
  BY <1>2, StillBehind DEF IInv
<1>. QED
  BY <1>2, <1>3, <1>4, <1>5 DEF IInv

-----------------------------------------------------------------------------
(* Every step keeps the invariant: case IN_SYNC *)

LEMMA InSyncBitKeepsIInv ==
  ASSUME IInv, InSyncBit
  PROVE  IInv'
<1>. USE DEF InSyncBit, InScan, env
<1>1. NextReg \in Byte /\ NextDecB \in Byte
  BY NextRegType DEF IInv
<1>2. /\ i \in Nat /\ Len(bitstream) \in Nat /\ i < Len(bitstream)
      /\ decodedBits \in 0 .. 7 /\ i >= decodedBits + 1
      /\ startIdx \in Nat /\ startIdx <= Len(bitstream)
  BY LenProperties DEF IInv, TypeOK, Cursors
<1>3. (decodedBits + 1) % 8 \in 0 .. 7 /\ (decodedBits + 1) % 8 <= decodedBits + 1
  BY <1>2
<1>4. TypeOK'
  BY <1>1, <1>2, <1>3 DEF IInv, TypeOK
<1>5. NoBitLost'
  BY NothingErased DEF IInv
<1>6. Cursors'
  <2>1. i' <= Len(bitstream') /\ i' >= decodedBits' + 1
    BY <1>2, <1>3
  <2>. QED
    BY <1>2, <2>1 DEF Cursors
<1>7. FrameInProgress'
  BY DEF IInv, FrameInProgress
<1>8. DeliveredBehind'
  BY DEF IInv, DeliveredBehind
<1>. QED
  BY <1>4, <1>5, <1>6, <1>7, <1>8 DEF IInv

LEMMA InSyncDataKeepsIInv ==
  ASSUME IInv, InSyncData
  PROVE  IInv'
<1>. USE DEF InSyncData, InScan, Continue, env
<1>1. NextReg \in Byte /\ NextDecB \in Byte
  BY NextRegType DEF IInv
<1>2. /\ i \in Nat /\ Len(bitstream) \in Nat /\ i < Len(bitstream)
      /\ i >= 8 /\ nitemsRead \in Nat
  BY LenProperties DEF IInv, TypeOK, Cursors
<1>3. i + 1 - 7 \in 0 .. Len(bitstream)
  BY <1>2
<1>4. /\ bitstream' \in Seq(Bit)
      /\ Len(bitstream') = Len(bitstream) - (i + 1 - 7)
      /\ nitemsRead' \in Nat
      /\ nitemsRead' = nitemsRead + (i + 1 - 7)
      /\ NoBitLost'
  BY <1>3, ConsumeAccounts DEF IInv
<1>5. /\ decB' \in Byte /\ decodedBits' \in 0 .. 7
      /\ frame' \in Seq(Byte) /\ Len(frame') <= 1
  <2>1. (2 * NextDecB) % 256 \in Byte
    BY <1>1 DEF Byte
  <2>2. <<>> \in Seq(Byte) /\ Len(<<>>) = 0
    BY EmptySeq
  <2>3. <<NextDecB>> \in Seq(Byte) /\ Len(<<NextDecB>>) = 1
    BY <1>1
  <2>4. CASE IsStuffed(NextReg)
    BY <2>1, <2>2, <2>4
  <2>5. CASE ~ IsStuffed(NextReg)
    <3>1. decB' = NextDecB /\ decodedBits' = 0 /\ frame' = <<NextDecB>>
      BY <2>5
    <3>2. frame' \in Seq(Byte) /\ Len(frame') <= 1
      BY <2>3, <3>1
    <3>. QED
      BY <1>1, <3>1, <3>2
  <2>. QED
    BY <2>4, <2>5
<1>6. TypeOK'
  BY <1>1, <1>4, <1>5 DEF IInv, TypeOK, States
<1>7. Cursors'
  <2>1. 7 <= Len(bitstream')
    BY <1>2, <1>4
  <2>2. Len(bitstream') \in Nat
    BY <1>4, LenProperties
  <2>. QED
    BY <2>1, <2>2 DEF Cursors
<1>8. nitemsRead' >= nitemsRead
  BY <1>2, <1>4
<1>9. FrameInProgress'
  <2>1. Len(frame') < MaxFrameLen
    <3>1. Len(frame') \in Nat /\ Len(frame') <= 1
      BY <1>5, LenProperties
    <3>2. MaxFrameLen \in Nat /\ MaxFrameLen >= 2
      BY ConstantsAssumption DEF ConstantsAssumption
    <3>. QED
      BY <3>1, <3>2
  <2>2. frameStart <= nitemsRead'
    <3>1. frameStart <= nitemsRead /\ frameStart \in Nat
      BY DEF IInv, FrameInProgress, TypeOK
    <3>. QED
      BY <3>1, <1>2, <1>4
  <2>. QED
    BY <2>1, <2>2 DEF FrameInProgress
<1>10. DeliveredBehind'
  BY <1>4, <1>8, StillBehind DEF IInv
<1>. QED
  BY <1>4, <1>6, <1>7, <1>9, <1>10 DEF IInv

LEMMA OutOfBitsKeepsIInv ==
  ASSUME IInv, OutOfBits
  PROVE  IInv'
<1>. USE DEF OutOfBits, Return, env
<1>1. i = Len(bitstream) /\ Len(bitstream) \in Nat
  BY LenProperties DEF IInv, TypeOK
<1>2. TypeOK'
  BY <1>1 DEF IInv, TypeOK
<1>3. NoBitLost'
  BY NothingErased DEF IInv
<1>4. Cursors'
  BY <1>1 DEF IInv, TypeOK, Cursors
<1>5. FrameInProgress'
  BY DEF IInv, FrameInProgress
<1>6. DeliveredBehind'
  BY DEF IInv, DeliveredBehind
<1>. QED
  BY <1>2, <1>3, <1>4, <1>5, <1>6 DEF IInv

-----------------------------------------------------------------------------
(* Every step keeps the invariant: case DECODING *)

\* What the steps that erase all but the last eight bits have in common.
LEMMA EraseToLastOctet ==
  ASSUME IInv, InScan("DECODING"), i < Len(bitstream), Consume(i + 1 - 8),
         UNCHANGED <<rx, prevBit, level>>
  PROVE  /\ i \in Nat /\ i >= 7 /\ nitemsRead \in Nat
         /\ bitstream' \in Seq(Bit)
         /\ Len(bitstream') \in Nat
         /\ nitemsRead' \in Nat
         /\ nitemsRead' = nitemsRead + (i + 1 - 8)
         /\ nitemsRead' >= nitemsRead
         /\ NoBitLost'
<1>1. /\ i \in Nat /\ Len(bitstream) \in Nat /\ i >= 7 /\ nitemsRead \in Nat
  BY LenProperties DEF IInv, TypeOK, Cursors, InScan
<1>2. i + 1 - 8 \in 0 .. Len(bitstream)
  BY <1>1
<1>3. /\ bitstream' \in Seq(Bit)
      /\ Len(bitstream') = Len(bitstream) - (i + 1 - 8)
      /\ nitemsRead' \in Nat
      /\ nitemsRead' = nitemsRead + (i + 1 - 8)
      /\ NoBitLost'
  BY <1>2, ConsumeAccounts DEF IInv
<1>. QED
  BY <1>1, <1>3, LenProperties

LEMMA MisalignedFlagKeepsIInv ==
  ASSUME IInv, MisalignedFlag
  PROVE  IInv'
<1>. USE DEF MisalignedFlag, ClearedTo, Continue, env
<1>1. /\ bitstream' \in Seq(Bit) /\ Len(bitstream') \in Nat
      /\ nitemsRead' \in Nat /\ nitemsRead' >= nitemsRead
      /\ NoBitLost'
  BY EraseToLastOctet
<1>2. TypeOK'
  BY <1>1, EmptySeq DEF IInv, TypeOK, States, Byte
<1>3. Cursors' /\ FrameInProgress'
  BY <1>1 DEF Cursors, FrameInProgress
<1>4. DeliveredBehind'
  BY <1>1, StillBehind DEF IInv
<1>. QED
  BY <1>1, <1>2, <1>3, <1>4 DEF IInv

LEMMA InvalidBitsKeepsIInv ==
  ASSUME IInv, InvalidBits
  PROVE  IInv'
<1>. USE DEF InvalidBits, ClearedTo, Continue, env
<1>1. /\ bitstream' \in Seq(Bit) /\ Len(bitstream') \in Nat
      /\ nitemsRead' \in Nat /\ nitemsRead' >= nitemsRead
      /\ NoBitLost'
  BY EraseToLastOctet
<1>2. TypeOK'
  BY <1>1, EmptySeq DEF IInv, TypeOK, States, Byte
<1>3. Cursors' /\ FrameInProgress'
  BY <1>1 DEF Cursors, FrameInProgress
<1>4. DeliveredBehind'
  BY <1>1, StillBehind DEF IInv
<1>. QED
  BY <1>1, <1>2, <1>3, <1>4 DEF IInv

LEMMA StuffedBitKeepsIInv ==
  ASSUME IInv, StuffedBit
  PROVE  IInv'
<1>. USE DEF StuffedBit, InScan, env
<1>1. NextReg \in Byte /\ NextDecB \in Byte
  BY NextRegType DEF IInv
<1>2. (2 * NextDecB) % 256 \in Byte
  BY <1>1 DEF Byte
<1>3. i \in Nat /\ Len(bitstream) \in Nat /\ i < Len(bitstream) /\ i >= 7
  BY LenProperties DEF IInv, TypeOK, Cursors
<1>4. TypeOK'
  BY <1>1, <1>2, <1>3 DEF IInv, TypeOK
<1>5. NoBitLost'
  BY NothingErased DEF IInv
<1>6. Cursors' /\ FrameInProgress'
  BY <1>3 DEF IInv, Cursors, FrameInProgress
<1>7. DeliveredBehind'
  BY DEF IInv, DeliveredBehind
<1>. QED
  BY <1>4, <1>5, <1>6, <1>7 DEF IInv

LEMMA DataBitKeepsIInv ==
  ASSUME IInv, DataBit
  PROVE  IInv'
<1>. USE DEF DataBit, InScan, env
<1>1. NextReg \in Byte /\ NextDecB \in Byte
  BY NextRegType DEF IInv
<1>2. i \in Nat /\ Len(bitstream) \in Nat /\ i < Len(bitstream) /\ i >= 7
  BY LenProperties DEF IInv, TypeOK, Cursors
<1>3. (decodedBits + 1) % 8 \in 0 .. 7
  BY DEF IInv, TypeOK
<1>4. frame' \in Seq(Byte) /\ Len(frame') < MaxFrameLen
  <2>1. frame \in Seq(Byte) /\ Len(frame) < MaxFrameLen
    BY DEF IInv, TypeOK, FrameInProgress
  <2>2. CASE decodedBits = 7
    <3>1. frame' = Append(frame, NextDecB) /\ Len(frame) + 1 < MaxFrameLen
      BY <2>2
    <3>2. /\ Append(frame, NextDecB) \in Seq(Byte)
          /\ Len(Append(frame, NextDecB)) = Len(frame) + 1
      BY <1>1, <2>1, AppendProperties
    <3>. QED
      BY <3>1, <3>2
  <2>3. CASE decodedBits # 7
    BY <2>1, <2>3
  <2>. QED
    BY <2>2, <2>3
<1>5. TypeOK'
  BY <1>1, <1>2, <1>3, <1>4 DEF IInv, TypeOK
<1>6. NoBitLost'
  BY NothingErased DEF IInv
<1>7. Cursors'
  BY <1>2 DEF IInv, Cursors
<1>8. FrameInProgress'
  BY <1>4 DEF IInv, FrameInProgress
<1>9. DeliveredBehind'
  BY DEF IInv, DeliveredBehind
<1>. QED
  BY <1>5, <1>6, <1>7, <1>8, <1>9 DEF IInv

LEMMA WrongSizeKeepsIInv ==
  ASSUME IInv, WrongSize
  PROVE  IInv'
<1>. USE DEF WrongSize, ClearedTo, Continue, env
<1>1. Len(bitstream) \in Nat
  BY LenProperties DEF IInv, TypeOK
<1>2. TypeOK'
  BY EmptySeq DEF IInv, TypeOK, States, Byte
<1>3. NoBitLost'
  BY NothingErased DEF IInv
<1>4. Cursors' /\ FrameInProgress'
  BY <1>1 DEF Cursors, FrameInProgress
<1>5. DeliveredBehind'
  BY StillBehind DEF IInv, TypeOK
<1>. QED
  BY <1>2, <1>3, <1>4, <1>5 DEF IInv

\* The record of what enter_frame_end adds to the status.
LEMMA MetadataType ==
  ASSUME NEW bytes \in Seq(Byte), NEW valid \in BOOLEAN,
         i \in Nat, nitemsRead \in Nat, frameStart \in Nat, frameStart <= nitemsRead
  PROVE  /\ Metadata(bytes, valid) \in Pdus
         /\ Metadata(bytes, valid).start = frameStart
         /\ Metadata(bytes, valid).start + Metadata(bytes, valid).cnt = nitemsRead + i
<1>1. SubSeq(bytes, 1, Len(bytes) - 2) \in Seq(Byte)
  <2>1. Len(bytes) \in Nat
    BY LenProperties
  <2>2. \A k \in 1 .. Len(bytes) - 2 : bytes[k] \in Byte
    BY <2>1, ElementOfSeq
  <2>. QED
    BY <2>1, <2>2, SubSeqProperties
<1>2. nitemsRead + i - frameStart \in Nat
  OBVIOUS
<1>3. frameStart + (nitemsRead + i - frameStart) = nitemsRead + i
  OBVIOUS
<1>. QED
  BY <1>1, <1>2, <1>3 DEF Metadata, Pdus

\* The two outcomes of enter_frame_end.
LEMMA FrameEndOutcome ==
  ASSUME IInv, FrameEnd
  PROVE  \/ out' = out
         \/ \E f \in Pdus : /\ out' = Append(out, f)
                            /\ f.start = frameStart
                            /\ f.start + f.cnt = nitemsRead + i
<1>1. i \in Nat /\ i >= 7 /\ nitemsRead \in Nat
  BY EraseToLastOctet DEF FrameEnd, env
<1>2. frame \in Seq(Byte) /\ Len(frame) \in Nat
  BY LenProperties DEF IInv, TypeOK
<1>3. frameStart \in Nat /\ frameStart <= nitemsRead
  BY DEF FrameEnd, InScan, IInv, TypeOK, FrameInProgress
<1>4. ASSUME NEW bytes \in Seq(Byte), NEW valid \in BOOLEAN
      PROVE  /\ Metadata(bytes, valid) \in Pdus
             /\ Metadata(bytes, valid).start = frameStart
             /\ Metadata(bytes, valid).start + Metadata(bytes, valid).cnt
                  = nitemsRead + i
  BY <1>1, <1>3, MetadataType
<1>5. CASE out' = out
  BY <1>5
<1>6. CASE out' = Append(out, Metadata(frame, TRUE))
  BY <1>2, <1>4, <1>6
<1>7. CASE /\ Corrections(frame) # {}
           /\ out' = Append(out, Metadata(FirstCorrection(frame), TRUE))
  <2>1. FirstCorrection(frame) \in Seq(Byte)
    BY <1>2, <1>7, FirstCorrectionType
  <2>. QED
    BY <1>4, <1>7, <2>1
<1>8. CASE out' = Append(out, Metadata(frame, FALSE))
  BY <1>2, <1>4, <1>8
<1>. QED
  BY <1>5, <1>6, <1>7, <1>8 DEF FrameEnd, EnterFrameEnd, Publish

LEMMA FrameEndKeepsIInv ==
  ASSUME IInv, FrameEnd
  PROVE  IInv'
<1>1. /\ i \in Nat /\ i >= 7 /\ nitemsRead \in Nat
      /\ bitstream' \in Seq(Bit) /\ Len(bitstream') \in Nat
      /\ nitemsRead' \in Nat /\ nitemsRead' = nitemsRead + (i + 1 - 8)
      /\ nitemsRead' >= nitemsRead
      /\ NoBitLost'
  BY EraseToLastOctet DEF FrameEnd, env
<1>2. /\ state' = "NO_SYNC" /\ decB' = 0 /\ shiftReg' = 0
      /\ decodedBits' = 0 /\ frame' = <<>> /\ pc' = "idle" /\ i' = 0
      /\ UNCHANGED <<startIdx, frameStart, prevBit, calls, level, rx, resets>>
  BY DEF FrameEnd, EnterFrameEnd, ClearedTo, Return, env
<1>3. out' \in Seq(Pdus)
  <2>1. out \in Seq(Pdus)
    BY DEF IInv, TypeOK
  <2>. QED
    BY <2>1, FrameEndOutcome, AppendProperties
<1>4. TypeOK'
  BY <1>1, <1>2, <1>3, EmptySeq DEF IInv, TypeOK, States, Byte
<1>5. Cursors' /\ FrameInProgress'
  BY <1>1, <1>2 DEF Cursors, FrameInProgress
<1>6. DeliveredBehind'
  <2>1. CASE out' = out
    BY <1>1, <1>2, <2>1, StillBehind DEF IInv
  <2>2. ASSUME NEW f \in Pdus, out' = Append(out, f),
               f.start + f.cnt = nitemsRead + i
        PROVE  DeliveredBehind'
    <3>. SUFFICES ASSUME NEW n \in 1 .. Len(out')
                  PROVE  /\ out'[n].start + out'[n].cnt <= nitemsRead' + 7
                         /\ out'[n].start + out'[n].cnt <= Len(rx)
      BY <1>2 DEF DeliveredBehind
    <3>1. /\ out \in Seq(Pdus) /\ Len(out) \in Nat
      BY LenProperties DEF IInv, TypeOK
    <3>2. /\ Len(out') = Len(out) + 1
          /\ \A k \in 1 .. Len(out) : out'[k] = out[k]
          /\ out'[Len(out) + 1] = f
      BY <2>2, <3>1, AppendProperties
    <3>3. CASE n \in 1 .. Len(out)
      <4>1. out[n] \in Pdus /\ out'[n] = out[n]
        BY <3>1, <3>2, <3>3, ElementOfSeq
      <4>. DEFINE end == out[n].start + out[n].cnt
      <4>2. end \in Nat
        BY <4>1 DEF Pdus
      <4>3. end <= nitemsRead + 7 /\ end <= Len(rx)
        BY <3>3 DEF IInv, DeliveredBehind
      <4>. HIDE DEF end
      <4>4. end <= nitemsRead' + 7
        BY <1>1, <4>2, <4>3
      <4>. QED
        BY <4>1, <4>3, <4>4 DEF end
    <3>4. CASE n = Len(out) + 1
      <4>1. out'[n].start + out'[n].cnt = nitemsRead + i
        BY <2>2, <3>2, <3>4
      <4>2. nitemsRead + i <= nitemsRead' + 7
        BY <1>1
      <4>3. nitemsRead + i <= Len(rx)
        <5>1. i < Len(bitstream) /\ nitemsRead + Len(bitstream) = Len(rx)
          BY DEF FrameEnd, IInv, NoBitLost
        <5>2. Len(bitstream) \in Nat
          BY LenProperties DEF IInv, TypeOK
        <5>. QED
          BY <1>1, <5>1, <5>2
      <4>. QED
        BY <4>1, <4>2, <4>3
    <3>. QED
      BY <3>1, <3>2, <3>3, <3>4
  <2>. QED
    BY <2>1, <2>2, FrameEndOutcome
<1>. QED
  BY <1>1, <1>4, <1>5, <1>6 DEF IInv

-----------------------------------------------------------------------------
(* The theorems *)

LEMMA NextIInv == IInv /\ [Next]_vars => IInv'
<1>. SUFFICES ASSUME IInv, [Next]_vars PROVE IInv'
  OBVIOUS
<1>1. CASE \E chunk \in Chunks : Decode(Line(chunk))
  BY <1>1, DecodeKeepsIInv
<1>2. CASE Reset
  BY <1>2, ResetKeepsIInv
<1>3. CASE Scan
  BY <1>3, NoSyncBitKeepsIInv, NoSyncFlagKeepsIInv, NoSyncEndKeepsIInv,
     InSyncBitKeepsIInv, InSyncDataKeepsIInv, OutOfBitsKeepsIInv,
     MisalignedFlagKeepsIInv, FrameEndKeepsIInv, StuffedBitKeepsIInv,
     InvalidBitsKeepsIInv, DataBitKeepsIInv, WrongSizeKeepsIInv DEF Scan
<1>4. CASE UNCHANGED vars
  <2>. USE <1>4 DEF vars, objectVars, env
  <2>1. TypeOK'
    BY DEF IInv, TypeOK
  <2>2. NoBitLost'
    BY NothingErased DEF IInv
  <2>3. Cursors' /\ FrameInProgress'
    BY DEF IInv, Cursors, FrameInProgress
  <2>4. DeliveredBehind'
    BY DEF IInv, DeliveredBehind
  <2>. QED
    BY <2>1, <2>2, <2>3, <2>4 DEF IInv
<1>. QED
  BY <1>1, <1>2, <1>3, <1>4 DEF Next

\* The inductive invariant holds in every behaviour of the decoder.
THEOREM Invariance == Spec => []IInv
<1>1. Init => IInv
  BY InitIInv
<1>2. IInv /\ [Next]_vars => IInv'
  BY NextIInv
<1>. QED
  BY <1>1, <1>2, PTL DEF Spec

\* Every variable keeps the type and the width of its field, in particular
\* what is published is made of octets and has a sample range.
THEOREM TypeCorrect == Spec => []TypeOK
<1>1. IInv => TypeOK
  BY DEF IInv
<1>. QED
  BY <1>1, Invariance, PTL

\* However the stream is cut into calls and whatever resets fall between
\* them, d_bitstream holds exactly the bits sent and not counted as read.
THEOREM NoBitIsLost == Spec => []NoBitLost
<1>1. IInv => NoBitLost
  BY DEF IInv
<1>. QED
  BY <1>1, Invariance, PTL

\* No index of the three loops leaves d_bitstream, and no unsigned difference
\* of theirs wraps.
THEOREM CursorsInRange == Spec => []Cursors
<1>1. IInv => Cursors
  BY DEF IInv
<1>. QED
  BY <1>1, Invariance, PTL

\* The frame buffer never holds d_max_frame_len octets while more may come.
THEOREM FrameBufferBounded == Spec => []FrameInProgress
<1>1. IInv => FrameInProgress
  BY DEF IInv
<1>. QED
  BY <1>1, Invariance, PTL

\* d_nitems_read never goes back, and only decode() is handed new bits.
LEMMA ScanOnlyAdvances ==
  ASSUME IInv, Scan \/ Reset
  PROVE  nitemsRead' >= nitemsRead /\ rx' = rx
<1>1. /\ i \in Nat /\ nitemsRead \in Nat /\ Len(bitstream) \in Nat
      /\ nitemsRead >= nitemsRead
  BY LenProperties DEF IInv, TypeOK
<1>2. CASE NoSyncFlag \/ NoSyncEnd
  BY <1>1, <1>2 DEF NoSyncFlag, NoSyncEnd, Consume, env
<1>3. CASE InSyncData
  <2>1. i >= 8 /\ nitemsRead' = nitemsRead + (i + 1 - 7)
    BY <1>3 DEF InSyncData, InScan, Consume, IInv, Cursors, TypeOK
  <2>. QED
    BY <1>1, <1>3, <2>1 DEF InSyncData, env
<1>4. CASE MisalignedFlag
  BY <1>4, EraseToLastOctet DEF MisalignedFlag, env
<1>5. CASE FrameEnd
  BY <1>5, EraseToLastOctet DEF FrameEnd, env
<1>6. CASE InvalidBits
  BY <1>6, EraseToLastOctet DEF InvalidBits, env
<1>7. CASE \/ NoSyncBit \/ InSyncBit \/ OutOfBits \/ StuffedBit \/ DataBit
           \/ WrongSize \/ Reset
  BY <1>1, <1>7 DEF NoSyncBit, InSyncBit, OutOfBits, StuffedBit, DataBit,
                    WrongSize, Reset, env
<1>. QED
  BY <1>2, <1>3, <1>4, <1>5, <1>6, <1>7 DEF Scan

-----------------------------------------------------------------------------
(* The refinement *)

Spans == [start : Nat, cnt : Nat]

LEMMA SpansType ==
  ASSUME NEW frames \in Seq(Pdus)
  PROVE  /\ SpansOf(frames) \in Seq(Spans)
         /\ Len(SpansOf(frames)) = Len(frames)
         /\ \A n \in 1 .. Len(frames) : SpansOf(frames)[n] = SpanOf(frames[n])
<1>1. Len(frames) \in Nat
  BY LenProperties
<1>2. ASSUME NEW n \in 1 .. Len(frames)
      PROVE  SpanOf(frames[n]) \in Spans
  <2>1. frames[n] \in Pdus
    BY ElementOfSeq
  <2>. QED
    BY <2>1 DEF SpanOf, Spans, Pdus
<1>. QED
  BY <1>1, <1>2 DEF SpansOf

LEMMA SpansAppend ==
  ASSUME NEW frames \in Seq(Pdus), NEW f \in Pdus
  PROVE  SpansOf(Append(frames, f)) = Append(SpansOf(frames), SpanOf(f))
<1>. DEFINE more == Append(frames, f)
<1>1. /\ more \in Seq(Pdus) /\ Len(more) = Len(frames) + 1
      /\ \A n \in 1 .. Len(frames) : more[n] = frames[n]
      /\ more[Len(frames) + 1] = f
      /\ Len(frames) \in Nat
  BY AppendProperties, LenProperties
<1>2. SpanOf(f) \in Spans
  BY DEF SpanOf, Spans, Pdus
<1>3. /\ SpansOf(frames) \in Seq(Spans)
      /\ Len(SpansOf(frames)) = Len(frames)
      /\ \A n \in 1 .. Len(frames) : SpansOf(frames)[n] = SpanOf(frames[n])
  BY SpansType
<1>. HIDE DEF more
<1>4. /\ SpansOf(more) \in Seq(Spans)
      /\ Len(SpansOf(more)) = Len(more)
      /\ \A n \in 1 .. Len(more) : SpansOf(more)[n] = SpanOf(more[n])
  BY <1>1, SpansType
<1>. DEFINE longer == Append(SpansOf(frames), SpanOf(f))
<1>5. /\ longer \in Seq(Spans)
      /\ Len(longer) = Len(SpansOf(frames)) + 1
      /\ \A n \in 1 .. Len(SpansOf(frames)) : longer[n] = SpansOf(frames)[n]
      /\ longer[Len(SpansOf(frames)) + 1] = SpanOf(f)
  BY <1>2, <1>3, AppendProperties
<1>. HIDE DEF longer
<1>6. ASSUME NEW n \in 1 .. Len(frames) + 1
      PROVE  SpansOf(more)[n] = longer[n]
  <2>1. CASE n \in 1 .. Len(frames)
    BY <1>1, <1>3, <1>4, <1>5, <2>1
  <2>2. CASE n = Len(frames) + 1
    BY <1>1, <1>3, <1>4, <1>5, <2>2
  <2>. QED
    BY <1>1, <2>1, <2>2
<1>7. SpansOf(more) = longer
  BY <1>1, <1>3, <1>4, <1>5, <1>6, SeqEqual
<1>. QED
  BY <1>7 DEF more, longer

LEMMA InitRefines == Init => Contract!Init
<1>. SUFFICES ASSUME Init PROVE Contract!Init
  OBVIOUS
<1>1. <<>> \in Seq(Pdus) /\ Len(<<>>) = 0
  BY EmptySeq
<1>2. SpansOf(<<>>) \in Seq(Spans) /\ Len(SpansOf(<<>>)) = 0
  BY <1>1, SpansType
<1>3. SpansOf(<<>>) = <<>>
  BY <1>2, EmptySeq
<1>. QED
  BY <1>1, <1>3 DEF Init, Contract!Init

\* Every step of the decoder is a step of the contract, or none of it.
LEMMA NextRefines ==
  ASSUME IInv, IInv', [Next]_vars
  PROVE  [Contract!Next]_(Contract!contractVars)
<1>1. /\ nitemsRead \in Nat /\ nitemsRead' \in Nat
      /\ Len(rx) \in Nat /\ Len(rx') \in Nat
      /\ nitemsRead' <= Len(rx')
  <2>1. /\ nitemsRead' + Len(bitstream') = Len(rx')
        /\ Len(bitstream') \in Nat
    BY LenProperties DEF IInv, TypeOK, NoBitLost
  <2>2. /\ nitemsRead \in Nat /\ nitemsRead' \in Nat
        /\ Len(rx) \in Nat /\ Len(rx') \in Nat
    BY LenProperties DEF IInv, TypeOK
  <2>. QED
    BY <2>1, <2>2
<1>2. ASSUME NEW chunk \in Chunks, Decode(Line(chunk))
      PROVE  Contract!Feed
  <2>1. out' = out /\ nitemsRead' = nitemsRead /\ rx' = rx \o Meaning(Line(chunk))
    BY <1>2 DEF Decode
  <2>2. Len(rx') >= Len(rx)
    <3>1. chunk \in Seq(Bit)
      BY ConstantsAssumption DEF ConstantsAssumption
    <3>2. level \in Bit /\ prevBit = level /\ rx \in Seq(Bit)
      BY DEF IInv, TypeOK, NoBitLost
    <3>. DEFINE in == Line(chunk)
    <3>3. in \in Seq(Bit)
      BY <3>1, <3>2, LineType
    <3>. HIDE DEF in
    <3>. DEFINE new == Meaning(in)
    <3>4. new \in Seq(Bit)
      BY <3>2, <3>3, NrziMeaning
    <3>5. rx' = rx \o new
      BY <2>1 DEF in
    <3>. HIDE DEF new
    <3>6. Len(rx \o new) = Len(rx) + Len(new) /\ Len(new) \in Nat
      BY <3>2, <3>4, ConcatProperties, LenProperties
    <3>. QED
      BY <1>1, <3>5, <3>6
  <2>. QED
    BY <1>1, <2>1, <2>2 DEF Contract!Feed
<1>3. ASSUME Scan \/ Reset, out' = out
      PROVE  Contract!Advance
  BY <1>1, <1>3, ScanOnlyAdvances DEF Contract!Advance
<1>4. ASSUME FrameEnd, out' # out
      PROVE  Contract!Deliver
  <2>1. PICK f \in Pdus : /\ out' = Append(out, f)
                          /\ f.start = frameStart
                          /\ f.start + f.cnt = nitemsRead + i
    BY <1>4, FrameEndOutcome
  <2>2. out \in Seq(Pdus) /\ Len(out) \in Nat
    BY LenProperties DEF IInv, TypeOK
  <2>3. /\ SpansOf(out) \in Seq(Spans)
        /\ Len(SpansOf(out)) = Len(out)
        /\ \A n \in 1 .. Len(out) : SpansOf(out)[n] = SpanOf(out[n])
    BY <2>2, SpansType
  <2>4. /\ SpansOf(out') = Append(SpansOf(out), SpanOf(f))
        /\ SpanOf(f) \in Spans
    BY <2>1, <2>2, SpansAppend DEF SpanOf, Spans, Pdus
  <2>5. SpansOf(out')[Len(SpansOf(out)) + 1] = SpanOf(f)
    BY <2>3, <2>4, AppendProperties
  <2>6. nitemsRead' >= nitemsRead /\ rx' = rx
    BY <1>4, ScanOnlyAdvances DEF Scan
  <2>7. SpanOf(f).start >= 0 /\ SpanOf(f).cnt >= 0
    BY DEF SpanOf, Pdus
  <2>8. SpanOf(f).start + SpanOf(f).cnt <= Len(rx)
    <3>1. out'[Len(out) + 1] = f /\ Len(out') = Len(out) + 1
      BY <2>1, <2>2, AppendProperties
    <3>2. Len(out) + 1 \in 1 .. Len(out')
      BY <2>2, <3>1
    <3>3. f.start + f.cnt <= Len(rx')
      BY <3>1, <3>2 DEF IInv, DeliveredBehind
    <3>. QED
      BY <2>6, <3>3 DEF SpanOf
  <2>9. ASSUME SpansOf(out) # <<>>
        PROVE  SpanOf(f).start + 7
                 >= SpansOf(out)[Len(SpansOf(out))].start
                      + SpansOf(out)[Len(SpansOf(out))].cnt
    <3>1. Len(out) \in 1 .. Len(out)
      BY <2>2, <2>3, <2>9, EmptySeq
    <3>2. SpansOf(out)[Len(SpansOf(out))] = SpanOf(out[Len(out)])
      BY <2>3, <3>1
    <3>3. out[Len(out)].start + out[Len(out)].cnt <= frameStart + 7
      BY <1>4, <3>1 DEF FrameEnd, InScan, IInv, DeliveredBehind
    <3>4. /\ frameStart \in Nat
          /\ out[Len(out)].start \in Nat /\ out[Len(out)].cnt \in Nat
      <4>1. out[Len(out)] \in Pdus
        BY <2>2, <3>1, ElementOfSeq
      <4>. QED
        BY <4>1 DEF IInv, TypeOK, Pdus
    <3>. QED
      BY <2>1, <3>2, <3>3, <3>4 DEF SpanOf
  <2>. QED
    BY <1>1, <2>4, <2>5, <2>6, <2>7, <2>8, <2>9
    DEF Contract!Deliver, Contract!EndOf
<1>5. CASE UNCHANGED vars
  <2>1. rx' = rx /\ nitemsRead' = nitemsRead /\ out' = out
    BY <1>5 DEF vars, objectVars, env
  <2>2. SpansOf(out') = SpansOf(out)
    BY <2>1
  <2>. QED
    BY <2>1, <2>2 DEF Contract!contractVars
<1>6. ASSUME Scan, out' # out
      PROVE  FrameEnd
  BY <1>6 DEF Scan, NoSyncBit, NoSyncFlag, NoSyncEnd, InSyncBit, InSyncData,
              OutOfBits, MisalignedFlag, StuffedBit, InvalidBits, DataBit,
              WrongSize
<1>7. Reset => out' = out
  BY DEF Reset
<1>. QED
  BY <1>2, <1>3, <1>4, <1>5, <1>6, <1>7 DEF Next, Contract!Next

\* What is published ends at most a flag's seven bits behind the read cursor,
\* and before the frame being received.
THEOREM DeliveredIsBehind == Spec => []DeliveredBehind
<1>1. IInv => DeliveredBehind
  BY DEF IInv
<1>. QED
  BY <1>1, Invariance, PTL

\* ax25_decoder keeps the contract of the decoders: its read cursor only moves
\* forward, and the sample ranges it publishes lie inside what it was handed,
\* in the order of the stream.
THEOREM Refinement == Spec => ImplementsDecoder
<1>1. Init => Contract!Init
  BY InitRefines
<1>2. IInv /\ IInv' /\ [Next]_vars => [Contract!Next]_(Contract!contractVars)
  BY NextRefines
<1>. QED
  BY <1>1, <1>2, Invariance, PTL DEF Spec, ImplementsDecoder, Contract!Spec

-----------------------------------------------------------------------------
(* Octets and their bits *)

LEMMA RegisterSums ==
  \A b1, b2, b3, b4, b5, b6, b7, b8, b \in 0 .. 1 :
    LET v == b1 + 2 * b2 + 4 * b3 + 8 * b4 + 16 * b5 + 32 * b6 + 64 * b7 + 128 * b8
    IN  /\ (v \div 2) + 128 * b
              = b2 + 2 * b3 + 4 * b4 + 8 * b5 + 16 * b6 + 32 * b7 + 64 * b8 + 128 * b
        /\ (2 * v) % 256
              = 2 * b1 + 4 * b2 + 8 * b3 + 16 * b4 + 32 * b5 + 64 * b6 + 128 * b7
        /\ v = 126 <=> b1 = 0 /\ b2 = 1 /\ b3 = 1 /\ b4 = 1 /\ b5 = 1 /\ b6 = 1 /\ b7 = 1 /\ b8 = 0
        /\ v \div 4 = 31 <=> b3 = 1 /\ b4 = 1 /\ b5 = 1 /\ b6 = 1 /\ b7 = 1 /\ b8 = 0
        /\ v \div 2 = 127 <=> b2 = 1 /\ b3 = 1 /\ b4 = 1 /\ b5 = 1 /\ b6 = 1 /\ b7 = 1 /\ b8 = 1
OBVIOUS

\* What decode_1b, the shift behind a stuffed bit and the masks of _decode()
\* do to the bits of a register.
LEMMA RegisterBits ==
  ASSUME NEW v \in Byte, NEW b \in Bit
  PROVE  LET new == ShiftIn(v, b)
             up  == (2 * new) % 256
             bit == ByteBits(v)
         IN  /\ \A j \in 1 .. 8 : bit[j] \in Bit
             /\ new \in Byte /\ up \in Byte
             /\ \A j \in 1 .. 7 : ByteBits(new)[j] = bit[j + 1]
             /\ ByteBits(new)[8] = b
             /\ \A j \in 2 .. 8 : ByteBits(up)[j] = bit[j]
             /\ v = SyncFlag <=> /\ bit[1] = 0 /\ bit[2] = 1 /\ bit[3] = 1
                                /\ bit[4] = 1 /\ bit[5] = 1 /\ bit[6] = 1
                                /\ bit[7] = 1 /\ bit[8] = 0
             /\ IsStuffed(v) <=> /\ bit[3] = 1 /\ bit[4] = 1 /\ bit[5] = 1
                                /\ bit[6] = 1 /\ bit[7] = 1 /\ bit[8] = 0
             /\ IsAbort(v) <=> /\ bit[2] = 1 /\ bit[3] = 1 /\ bit[4] = 1
                              /\ bit[5] = 1 /\ bit[6] = 1 /\ bit[7] = 1
                              /\ bit[8] = 1
<1>1. PICK b1, b2, b3, b4, b5, b6, b7, b8 \in 0 .. 1 :
        v = b1 + 2 * b2 + 4 * b3 + 8 * b4 + 16 * b5 + 32 * b6 + 64 * b7 + 128 * b8
  BY OctetSum DEF Byte
<1>2. b \in 0 .. 1 /\ v \in Int /\ 0 \in 0 .. 1
  BY DEF Bit, Byte
<1>3. PICK new : new = ShiftIn(v, b)
  OBVIOUS
<1>4. PICK up : up = (2 * new) % 256
  OBVIOUS
<1>5. new = b2 + 2 * b3 + 4 * b4 + 8 * b5 + 16 * b6 + 32 * b7 + 64 * b8 + 128 * b
  BY <1>1, <1>2, <1>3, RegisterSums DEF ShiftIn
<1>6. up = 0 + 2 * b2 + 4 * b3 + 8 * b4 + 16 * b5 + 32 * b6 + 64 * b7 + 128 * b8
  BY <1>2, <1>4, <1>5, RegisterSums
<1>7. new \in 0 .. 255 /\ up \in 0 .. 255
  BY <1>2, <1>5, <1>6, SumBits
<1>8. /\ ByteBits(v)[1] = b1 /\ ByteBits(v)[2] = b2 /\ ByteBits(v)[3] = b3
      /\ ByteBits(v)[4] = b4 /\ ByteBits(v)[5] = b5 /\ ByteBits(v)[6] = b6
      /\ ByteBits(v)[7] = b7 /\ ByteBits(v)[8] = b8
  <2>1. v % 2 = b1 /\ (v \div 2) % 2 = b2 /\ (v \div 4) % 2 = b3
        /\ (v \div 8) % 2 = b4 /\ (v \div 16) % 2 = b5 /\ (v \div 32) % 2 = b6
        /\ (v \div 64) % 2 = b7 /\ (v \div 128) % 2 = b8
    BY <1>1, SumBits
  <2>. QED
    BY <1>2, <2>1, OctetBits
<1>9. /\ ByteBits(new)[1] = b2 /\ ByteBits(new)[2] = b3 /\ ByteBits(new)[3] = b4
      /\ ByteBits(new)[4] = b5 /\ ByteBits(new)[5] = b6 /\ ByteBits(new)[6] = b7
      /\ ByteBits(new)[7] = b8 /\ ByteBits(new)[8] = b
  <2>1. new \in Int
    BY <1>7
  <2>2. new % 2 = b2 /\ (new \div 2) % 2 = b3 /\ (new \div 4) % 2 = b4
        /\ (new \div 8) % 2 = b5 /\ (new \div 16) % 2 = b6 /\ (new \div 32) % 2 = b7
        /\ (new \div 64) % 2 = b8 /\ (new \div 128) % 2 = b
    BY <1>2, <1>5, SumBits
  <2>. QED
    BY <2>1, <2>2, OctetBits
<1>10. /\ ByteBits(up)[2] = b2 /\ ByteBits(up)[3] = b3 /\ ByteBits(up)[4] = b4
       /\ ByteBits(up)[5] = b5 /\ ByteBits(up)[6] = b6 /\ ByteBits(up)[7] = b7
       /\ ByteBits(up)[8] = b8
  <2>1. up \in Int
    BY <1>7
  <2>2. up % 2 = 0 /\ (up \div 2) % 2 = b2 /\ (up \div 4) % 2 = b3
        /\ (up \div 8) % 2 = b4 /\ (up \div 16) % 2 = b5 /\ (up \div 32) % 2 = b6
        /\ (up \div 64) % 2 = b7 /\ (up \div 128) % 2 = b8
    BY <1>2, <1>6, SumBits
  <2>. QED
    BY <2>1, <2>2, OctetBits
<1>11. v = 126 <=> /\ b1 = 0 /\ b2 = 1 /\ b3 = 1 /\ b4 = 1 /\ b5 = 1 /\ b6 = 1
                   /\ b7 = 1 /\ b8 = 0
  BY <1>1, <1>2, RegisterSums
<1>12. v \div 4 = 31 <=> /\ b3 = 1 /\ b4 = 1 /\ b5 = 1 /\ b6 = 1 /\ b7 = 1
                         /\ b8 = 0
  BY <1>1, <1>2, RegisterSums
<1>13. v \div 2 = 127 <=> /\ b2 = 1 /\ b3 = 1 /\ b4 = 1 /\ b5 = 1 /\ b6 = 1
                          /\ b7 = 1 /\ b8 = 1
  BY <1>1, <1>2, RegisterSums
<1>14. \A j \in 1 .. 8 : ByteBits(v)[j] \in Bit
  BY <1>8 DEF Bit
<1>15. \A j \in 1 .. 7 : ByteBits(new)[j] = ByteBits(v)[j + 1]
  BY <1>8, <1>9
<1>16. \A j \in 2 .. 8 : ByteBits(up)[j] = ByteBits(v)[j]
  BY <1>8, <1>10
<1>17. ByteBits(new)[8] = b
  BY <1>9
<1>18. v = SyncFlag <=> /\ ByteBits(v)[1] = 0 /\ ByteBits(v)[2] = 1
                        /\ ByteBits(v)[3] = 1 /\ ByteBits(v)[4] = 1
                        /\ ByteBits(v)[5] = 1 /\ ByteBits(v)[6] = 1
                        /\ ByteBits(v)[7] = 1 /\ ByteBits(v)[8] = 0
  BY <1>8, <1>11 DEF SyncFlag
<1>19. IsStuffed(v) <=> /\ ByteBits(v)[3] = 1 /\ ByteBits(v)[4] = 1
                        /\ ByteBits(v)[5] = 1 /\ ByteBits(v)[6] = 1
                        /\ ByteBits(v)[7] = 1 /\ ByteBits(v)[8] = 0
  BY <1>8, <1>12 DEF IsStuffed
<1>20. IsAbort(v) <=> /\ ByteBits(v)[2] = 1 /\ ByteBits(v)[3] = 1
                      /\ ByteBits(v)[4] = 1 /\ ByteBits(v)[5] = 1
                      /\ ByteBits(v)[6] = 1 /\ ByteBits(v)[7] = 1
                      /\ ByteBits(v)[8] = 1
  BY <1>8, <1>13 DEF IsAbort
<1>. HIDE DEF Bit, Byte
<1>21. new \in Byte /\ up \in Byte
  BY <1>7 DEF Byte
<1>. QED
  BY <1>3, <1>4, <1>14, <1>15, <1>16, <1>17, <1>18, <1>19, <1>20, <1>21

-----------------------------------------------------------------------------
(* The register and the line *)

\* The register holds the last bits of the line up to the p-th; those up to
\* the z-th came before it was cleared.
Holds(reg, line, p, z) ==
  \A j \in 1 .. 8 :
    ByteBits(reg)[j] = IF p - 8 + j > z THEN line[p - 8 + j] ELSE 0

\* The next bit of the line enters the register.
LEMMA HoldsShift ==
  ASSUME NEW reg \in Byte, NEW line \in Seq(Bit), NEW p \in Nat, NEW z \in Nat,
         p + 1 <= Len(line), z <= p, Holds(reg, line, p, z)
  PROVE  Holds(ShiftIn(reg, line[p + 1]), line, p + 1, z)
<1>1. PICK b \in Bit : b = line[p + 1]
  <2>1. p + 1 \in 1 .. Len(line)
    BY LenProperties
  <2>. QED
    BY <2>1, ElementOfSeq
<1>2. PICK new : new = ShiftIn(reg, b)
  OBVIOUS
<1>3. /\ \A j \in 1 .. 7 : ByteBits(new)[j] = ByteBits(reg)[j + 1]
      /\ ByteBits(new)[8] = b
  <2>1. /\ \A j \in 1 .. 7 : ByteBits(ShiftIn(reg, b))[j] = ByteBits(reg)[j + 1]
        /\ ByteBits(ShiftIn(reg, b))[8] = b
    BY <1>1, RegisterBits
  <2>. QED
    BY <1>2, <2>1
<1>4. ASSUME NEW j \in 1 .. 8
      PROVE  ByteBits(new)[j] = IF (p + 1) - 8 + j > z THEN line[(p + 1) - 8 + j] ELSE 0
  <2>1. CASE j = 8
    BY <1>1, <1>3, <2>1
  <2>2. CASE j # 8
    <3>1. j \in 1 .. 7 /\ j + 1 \in 1 .. 8 /\ p - 8 + (j + 1) = (p + 1) - 8 + j
      BY <2>2
    <3>2. ByteBits(reg)[j + 1] = IF p - 8 + (j + 1) > z THEN line[p - 8 + (j + 1)] ELSE 0
      BY <3>1 DEF Holds
    <3>. QED
      BY <1>3, <3>1, <3>2
  <2>. QED
    BY <2>1, <2>2
<1>5. Holds(new, line, p + 1, z)
  BY <1>4 DEF Holds
<1>. QED
  BY <1>1, <1>2, <1>5

\* The p-th bit of the line is the last one of a flag.
FlagEndsAt(line, p) ==
  /\ line[p - 7] = 0
  /\ \A k \in 1 .. 6 : line[p - k] = 1
  /\ line[p] = 0

\* What the register says of the line, once it is filled.
LEMMA HoldsMeaning ==
  ASSUME NEW reg \in Byte, NEW line, NEW p \in Nat, NEW z \in Nat,
         z + 8 <= p, Holds(reg, line, p, z)
  PROVE  /\ reg = SyncFlag <=> FlagEndsAt(line, p)
         /\ IsStuffed(reg) <=> (\A k \in 1 .. 5 : line[p - k] = 1) /\ line[p] = 0
         /\ IsAbort(reg) <=> \A k \in 0 .. 6 : line[p - k] = 1
<1>1. \A j \in 1 .. 8 : ByteBits(reg)[j] = line[p - 8 + j]
  BY DEF Holds
<1>2. /\ ByteBits(reg)[1] = line[p - 7] /\ ByteBits(reg)[2] = line[p - 6]
      /\ ByteBits(reg)[3] = line[p - 5] /\ ByteBits(reg)[4] = line[p - 4]
      /\ ByteBits(reg)[5] = line[p - 3] /\ ByteBits(reg)[6] = line[p - 2]
      /\ ByteBits(reg)[7] = line[p - 1] /\ ByteBits(reg)[8] = line[p]
  BY <1>1
<1>3. /\ reg = SyncFlag <=> /\ ByteBits(reg)[1] = 0 /\ ByteBits(reg)[2] = 1
                           /\ ByteBits(reg)[3] = 1 /\ ByteBits(reg)[4] = 1
                           /\ ByteBits(reg)[5] = 1 /\ ByteBits(reg)[6] = 1
                           /\ ByteBits(reg)[7] = 1 /\ ByteBits(reg)[8] = 0
      /\ IsStuffed(reg) <=> /\ ByteBits(reg)[3] = 1 /\ ByteBits(reg)[4] = 1
                           /\ ByteBits(reg)[5] = 1 /\ ByteBits(reg)[6] = 1
                           /\ ByteBits(reg)[7] = 1 /\ ByteBits(reg)[8] = 0
      /\ IsAbort(reg) <=> /\ ByteBits(reg)[2] = 1 /\ ByteBits(reg)[3] = 1
                         /\ ByteBits(reg)[4] = 1 /\ ByteBits(reg)[5] = 1
                         /\ ByteBits(reg)[6] = 1 /\ ByteBits(reg)[7] = 1
                         /\ ByteBits(reg)[8] = 1
  <2>1. PICK b \in Bit : b = 0
    BY DEF Bit
  <2>. QED
    BY <2>1, RegisterBits
<1>4. /\ (\A k \in 1 .. 5 : line[p - k] = 1)
          <=> /\ line[p - 1] = 1 /\ line[p - 2] = 1 /\ line[p - 3] = 1
              /\ line[p - 4] = 1 /\ line[p - 5] = 1
      /\ (\A k \in 1 .. 6 : line[p - k] = 1)
          <=> /\ line[p - 1] = 1 /\ line[p - 2] = 1 /\ line[p - 3] = 1
              /\ line[p - 4] = 1 /\ line[p - 5] = 1 /\ line[p - 6] = 1
      /\ (\A k \in 0 .. 6 : line[p - k] = 1)
          <=> /\ line[p] = 1 /\ line[p - 1] = 1 /\ line[p - 2] = 1 /\ line[p - 3] = 1
              /\ line[p - 4] = 1 /\ line[p - 5] = 1 /\ line[p - 6] = 1
  <2>1. 1 .. 5 = {1, 2, 3, 4, 5} /\ 1 .. 6 = {1, 2, 3, 4, 5, 6}
        /\ 0 .. 6 = {0, 1, 2, 3, 4, 5, 6} /\ p - 0 = p
    OBVIOUS
  <2>. QED
    BY <2>1
<1>. QED
  BY <1>2, <1>3, <1>4 DEF FlagEndsAt

\* A register with the value of a flag in it, filled or not: only the zero in
\* front may be missing on the line.
LEMMA HoldsFlagTail ==
  ASSUME NEW reg \in Byte, NEW line, NEW p \in Nat, NEW z \in Nat,
         z < p, Holds(reg, line, p, z), reg = SyncFlag
  PROVE  /\ z + 7 <= p
         /\ \A k \in 1 .. 6 : line[p - k] = 1
         /\ line[p] = 0
<1>1. /\ ByteBits(reg)[2] = 1 /\ ByteBits(reg)[3] = 1 /\ ByteBits(reg)[4] = 1
      /\ ByteBits(reg)[5] = 1 /\ ByteBits(reg)[6] = 1 /\ ByteBits(reg)[7] = 1
      /\ ByteBits(reg)[8] = 0
  <2>1. PICK b \in Bit : b = 0
    BY DEF Bit
  <2>. QED
    BY <2>1, RegisterBits
<1>2. /\ ByteBits(reg)[2] = IF p - 6 > z THEN line[p - 6] ELSE 0
      /\ ByteBits(reg)[3] = IF p - 5 > z THEN line[p - 5] ELSE 0
      /\ ByteBits(reg)[4] = IF p - 4 > z THEN line[p - 4] ELSE 0
      /\ ByteBits(reg)[5] = IF p - 3 > z THEN line[p - 3] ELSE 0
      /\ ByteBits(reg)[6] = IF p - 2 > z THEN line[p - 2] ELSE 0
      /\ ByteBits(reg)[7] = IF p - 1 > z THEN line[p - 1] ELSE 0
      /\ ByteBits(reg)[8] = IF p > z THEN line[p] ELSE 0
  BY DEF Holds
<1>3. p - 6 > z
  BY <1>1, <1>2
<1>4. 1 .. 6 = {1, 2, 3, 4, 5, 6}
  OBVIOUS
<1>5. p - 5 > z /\ p - 4 > z /\ p - 3 > z /\ p - 2 > z /\ p - 1 > z
  BY <1>3
<1>6. z + 7 <= p
  BY <1>3
<1>. QED
  BY <1>1, <1>2, <1>3, <1>4, <1>5, <1>6

-----------------------------------------------------------------------------
(* Line bits and the data bits under them *)

\* There are m ones behind the first n bits.
Ones(bits, n, m) == \A k \in 1 .. m : bits[n + k] = 1

\* The first n data bits make the line bits behind b0 up to q, with so many
\* ones at the end.
Stuffed(d, n, line, b0, q, ones) ==
  Stuffing(Prefix(d, n)) = [out |-> Piece(line, b0, q), ones |-> ones]

\* Behind them, m ones follow among the data bits and on the line.
StuffedThenOnes(d, n, line, b0, q, m) ==
  Stuffed(d, n, line, b0, q, 0) /\ Ones(d, n, m) /\ Ones(line, q, m)

\* Up to four ones pass as they are.
LEMMA StuffOnes ==
  ASSUME NEW d \in Seq(Bit), NEW line \in Seq(Bit), NEW n \in Nat,
         NEW b0 \in Nat, NEW q \in Nat, NEW m \in 0 .. 4,
         n + m <= Len(d), b0 <= q, q + m <= Len(line),
         StuffedThenOnes(d, n, line, b0, q, m)
  PROVE  Stuffed(d, n + m, line, b0, q + m, m)
<1>. DEFINE good == {k \in 0 .. m : Stuffing(Prefix(d, n + k))
                                  = [out |-> Piece(line, b0, q + k), ones |-> k]}
<1>1. 0 \in good
  <2>1. n + 0 = n /\ q + 0 = q
    OBVIOUS
  <2>. QED
    BY <2>1 DEF Stuffed, StuffedThenOnes
<1>2. ASSUME NEW k \in 0 .. m, k \in good, k < m
      PROVE  k + 1 \in good
  <2>1. PICK x \in Nat : x = n + k
    OBVIOUS
  <2>2. PICK y \in Nat : y = q + k
    OBVIOUS
  <2>3. /\ k + 1 \in 1 .. m /\ k + 1 \in 0 .. m /\ k + 1 # 5
        /\ n + (k + 1) = x + 1 /\ q + (k + 1) = y + 1
        /\ x + 1 <= Len(d) /\ y + 1 <= Len(line) /\ b0 <= y
    BY <1>2, <2>1, <2>2, LenProperties
  <2>4. d[x + 1] = 1 /\ line[y + 1] = 1
    BY <2>3 DEF Ones, StuffedThenOnes
  <2>5. /\ Prefix(d, x) \in Seq(Bit) /\ Prefix(d, x + 1) = Append(Prefix(d, x), 1)
        /\ 1 \in Bit
    BY <2>3, <2>4, PrefixGrows
  <2>6. Piece(line, b0, y + 1) = Append(Piece(line, b0, y), 1)
    <3>1. Piece(line, b0, y + 1) = Append(Piece(line, b0, y), line[y + 1])
      BY <2>3, PieceGrows
    <3>. QED
      BY <2>4, <3>1
  <2>7. Stuffing(Prefix(d, x + 1)) = StuffStep(Stuffing(Prefix(d, x)), 1)
    BY <2>5, StuffingAppend
  <2>8. Stuffing(Prefix(d, x)) = [out |-> Piece(line, b0, y), ones |-> k]
    BY <1>2, <2>1, <2>2
  <2>9. StuffStep([out |-> Piece(line, b0, y), ones |-> k], 1)
          = [out |-> Append(Piece(line, b0, y), 1), ones |-> k + 1]
    BY <2>3 DEF StuffStep
  <2>. QED
    BY <2>3, <2>6, <2>7, <2>8, <2>9
<1>3. 0 .. m \subseteq good
  <2>. HIDE DEF good
  <2>1. \A k \in 0 .. m : k \in good /\ k < m => k + 1 \in good
    BY <1>2
  <2>. QED
    BY <1>1, <2>1, UpToNat
<1>. QED
  BY <1>3 DEF Stuffed

\* And so does a zero behind them.
LEMMA StuffZero ==
  ASSUME NEW d \in Seq(Bit), NEW line \in Seq(Bit), NEW n \in Nat,
         NEW b0 \in Nat, NEW q \in Nat, NEW m \in 0 .. 4,
         n + m + 1 <= Len(d), b0 <= q, q + m + 1 <= Len(line),
         StuffedThenOnes(d, n, line, b0, q, m),
         d[n + m + 1] = 0, line[q + m + 1] = 0
  PROVE  Stuffed(d, n + m + 1, line, b0, q + m + 1, 0)
<1>1. /\ n + m \in Nat /\ q + m \in Nat /\ b0 <= q + m /\ n + m <= Len(d)
      /\ q + m <= Len(line)
  BY LenProperties
<1>2. Stuffed(d, n + m, line, b0, q + m, m)
  BY <1>1, StuffOnes
<1>3. /\ Prefix(d, n + m) \in Seq(Bit)
      /\ Prefix(d, n + m + 1) = Append(Prefix(d, n + m), 0)
      /\ 0 \in Bit
  BY <1>1, PrefixGrows
<1>4. Piece(line, b0, q + m + 1) = Append(Piece(line, b0, q + m), 0)
  BY <1>1, PieceGrows
<1>5. Stuffing(Prefix(d, n + m + 1)) = StuffStep(Stuffing(Prefix(d, n + m)), 0)
  BY <1>3, StuffingAppend
<1>6. StuffStep([out |-> Piece(line, b0, q + m), ones |-> m], 0)
        = [out |-> Append(Piece(line, b0, q + m), 0), ones |-> 0]
  BY DEF StuffStep
<1>. QED
  BY <1>2, <1>4, <1>5, <1>6 DEF Stuffed

\* Two bits appended one by one.
LEMMA AppendTwo ==
  ASSUME NEW s \in Seq(Bit), NEW a \in Bit, NEW b \in Bit
  PROVE  Append(Append(s, a), b) = s \o <<a, b>>
<1>1. PICK t : t = Append(s, a)
  OBVIOUS
<1>2. PICK u : u = Append(t, b)
  OBVIOUS
<1>3. PICK w : w = s \o <<a, b>>
  OBVIOUS
<1>4. /\ t \in Seq(Bit) /\ Len(t) = Len(s) + 1 /\ Len(s) \in Nat
      /\ \A k \in 1 .. Len(s) : t[k] = s[k]
      /\ t[Len(s) + 1] = a
  BY <1>1, AppendProperties, LenProperties
<1>5. /\ u \in Seq(Bit) /\ Len(u) = Len(t) + 1
      /\ \A k \in 1 .. Len(t) : u[k] = t[k]
      /\ u[Len(t) + 1] = b
  BY <1>2, <1>4, AppendProperties
<1>. HIDE DEF Bit
<1>6. PICK pair \in Seq(Bit) : pair = <<a, b>>
  <2>1. <<a, b>> \in Seq(Bit)
    OBVIOUS
  <2>. QED
    BY <2>1
<1>7. Len(pair) = 2 /\ pair[1] = a /\ pair[2] = b
  BY <1>6
<1>8. /\ w \in Seq(Bit) /\ Len(w) = Len(s) + Len(pair)
      /\ \A k \in 1 .. Len(s) + Len(pair) :
           w[k] = IF k <= Len(s) THEN s[k] ELSE pair[k - Len(s)]
  BY <1>3, <1>6, ConcatProperties
<1>9. Len(u) = Len(w)
  BY <1>4, <1>5, <1>7, <1>8
<1>10. ASSUME NEW k \in 1 .. Len(u)
       PROVE  u[k] = w[k]
  <2>1. CASE k <= Len(s)
    <3>1. k \in 1 .. Len(s) /\ k \in 1 .. Len(t) /\ k \in 1 .. Len(s) + Len(pair)
      BY <1>4, <1>7, <2>1
    <3>. QED
      BY <1>4, <1>5, <1>8, <2>1, <3>1
  <2>2. CASE k = Len(s) + 1
    <3>1. /\ k \in 1 .. Len(t) /\ k \in 1 .. Len(s) + Len(pair)
          /\ ~ (k <= Len(s)) /\ k - Len(s) = 1
      BY <1>4, <1>7, <2>2
    <3>2. u[k] = a /\ w[k] = pair[1]
      BY <1>4, <1>5, <1>8, <2>2, <3>1
    <3>. QED
      BY <1>7, <3>2
  <2>3. CASE k = Len(s) + 2
    <3>1. /\ k = Len(t) + 1 /\ k \in 1 .. Len(s) + Len(pair)
          /\ ~ (k <= Len(s)) /\ k - Len(s) = 2
      BY <1>4, <1>7, <2>3
    <3>2. u[k] = b /\ w[k] = pair[2]
      BY <1>5, <1>8, <3>1
    <3>. QED
      BY <1>7, <3>2
  <2>. QED
    BY <1>4, <1>5, <2>1, <2>2, <2>3
<1>. QED
  BY <1>1, <1>2, <1>3, <1>5, <1>8, <1>9, <1>10, SeqEqual

\* Five ones bring a zero with them.
LEMMA StuffFive ==
  ASSUME NEW d \in Seq(Bit), NEW line \in Seq(Bit), NEW n \in Nat,
         NEW b0 \in Nat, NEW q \in Nat,
         n + 5 <= Len(d), b0 <= q, q + 6 <= Len(line),
         StuffedThenOnes(d, n, line, b0, q, 5),
         line[q + 6] = 0
  PROVE  Stuffed(d, n + 5, line, b0, q + 6, 0)
<1>1. PICK x \in Nat : x = n + 4
  OBVIOUS
<1>2. PICK y \in Nat : y = q + 4
  OBVIOUS
<1>3. PICK z \in Nat : z = q + 5
  OBVIOUS
<1>4. /\ b0 <= y /\ b0 <= z /\ n + 4 <= Len(d) /\ q + 4 <= Len(line)
      /\ n + 5 = x + 1 /\ q + 5 = y + 1 /\ q + 6 = z + 1 /\ z = y + 1
      /\ x + 1 <= Len(d) /\ y + 1 <= Len(line) /\ z + 1 <= Len(line)
  BY <1>1, <1>2, <1>3, LenProperties
<1>5. StuffedThenOnes(d, n, line, b0, q, 4)
  BY DEF Ones, StuffedThenOnes
<1>6. d[x + 1] = 1 /\ line[y + 1] = 1
  <2>1. d[n + 5] = 1 /\ line[q + 5] = 1
    BY DEF Ones, StuffedThenOnes
  <2>. QED
    BY <1>4, <2>1
<1>7. Stuffed(d, x, line, b0, y, 4)
  <2>1. 4 \in 0 .. 4
    OBVIOUS
  <2>. QED
    BY <1>1, <1>2, <1>4, <1>5, <2>1, StuffOnes
<1>8. /\ Prefix(d, x) \in Seq(Bit) /\ Prefix(d, x + 1) = Append(Prefix(d, x), 1)
      /\ 1 \in Bit
  BY <1>4, <1>6, PrefixGrows
<1>9. /\ Piece(line, b0, y) \in Seq(Bit)
      /\ Piece(line, b0, y + 1) = Append(Piece(line, b0, y), 1)
  <2>1. b0 <= y /\ y + 1 <= Len(line)
    BY <1>4
  <2>2. /\ Piece(line, b0, y) \in Seq(Bit)
        /\ Piece(line, b0, y + 1) = Append(Piece(line, b0, y), line[y + 1])
    BY <2>1, PieceGrows
  <2>. QED
    BY <1>6, <2>2
<1>10. Piece(line, b0, z + 1) = Append(Piece(line, b0, z), 0) /\ 0 \in Bit
  <2>1. b0 <= z /\ z + 1 <= Len(line) /\ line[z + 1] = 0
    BY <1>4
  <2>2. Piece(line, b0, z + 1) = Append(Piece(line, b0, z), line[z + 1])
    BY <2>1, PieceGrows
  <2>. QED
    BY <2>1, <2>2 DEF Bit
<1>11. Piece(line, b0, z + 1) = Piece(line, b0, y) \o <<1, 0>>
  BY <1>4, <1>8, <1>9, <1>10, AppendTwo
<1>12. Stuffing(Prefix(d, x + 1)) = StuffStep(Stuffing(Prefix(d, x)), 1)
  BY <1>8, StuffingAppend
<1>13. StuffStep([out |-> Piece(line, b0, y), ones |-> 4], 1)
         = [out |-> Piece(line, b0, y) \o <<1, 0>>, ones |-> 0]
  BY DEF StuffStep
<1>. QED
  BY <1>4, <1>7, <1>11, <1>12, <1>13 DEF Stuffed

\* d are the data bits of the line bits behind b0 up to p, both with r ones at
\* the end; nothing is said yet of what these ones are.
Destuffed(line, b0, p, d, r) ==
  /\ r \in 0 .. 6 /\ r <= Len(d) /\ b0 + r <= p
  /\ line[p - r] = 0
  /\ Ones(line, p - r, r)
  /\ Ones(d, Len(d) - r, r)
  /\ Stuffed(d, Len(d) - r, line, b0, p - r, 0)

\* The run of ones of the line is what the register shows of it.
LEMMA RunLength ==
  ASSUME NEW line, NEW b0 \in Nat, NEW p \in Nat, NEW d \in Seq(Bit), NEW r,
         Destuffed(line, b0, p, d, r)
  PROVE  /\ (\A k \in 1 .. 5 : line[(p + 1) - k] = 1) => r >= 5
         /\ r >= 5 => \A k \in 1 .. 5 : line[(p + 1) - k] = 1
         /\ line[p + 1] = 1 /\ r = 6 => \A k \in 0 .. 6 : line[(p + 1) - k] = 1
         /\ line[p + 1] = 0 /\ r = 6 => FlagEndsAt(line, p + 1)
         /\ FlagEndsAt(line, p + 1) => r = 6
<1>1. r \in 0 .. 6 /\ line[p - r] = 0 /\ \A k \in 1 .. r : line[p - r + k] = 1
  BY DEF Destuffed, Ones
<1>2. ASSUME NEW j \in 1 .. r
      PROVE  line[(p + 1) - j] = 1
  <2>1. r + 1 - j \in 1 .. r /\ p - r + (r + 1 - j) = (p + 1) - j
    BY <1>1
  <2>2. line[p - r + (r + 1 - j)] = 1
    BY <1>1, <2>1
  <2>. QED
    BY <2>1, <2>2
<1>3. (\A k \in 1 .. 5 : line[(p + 1) - k] = 1) => r >= 5
  <2>. SUFFICES ASSUME \A k \in 1 .. 5 : line[(p + 1) - k] = 1, r < 5
                PROVE  FALSE
    BY <1>1
  <2>1. r + 1 \in 1 .. 5 /\ (p + 1) - (r + 1) = p - r
    BY <1>1
  <2>2. line[(p + 1) - (r + 1)] = 1
    BY <2>1
  <2>. QED
    BY <1>1, <2>1, <2>2
<1>4. r >= 5 => \A k \in 1 .. 5 : line[(p + 1) - k] = 1
  BY <1>1, <1>2
<1>5. line[p + 1] = 1 /\ r = 6 => \A k \in 0 .. 6 : line[(p + 1) - k] = 1
  <2>1. \A k \in 0 .. 6 : k \in 1 .. 6 \/ (p + 1) - k = p + 1
    OBVIOUS
  <2>. QED
    BY <1>2, <2>1
<1>6. line[p + 1] = 0 /\ r = 6 => FlagEndsAt(line, p + 1)
  <2>1. r = 6 => line[(p + 1) - 7] = 0
    BY <1>1
  <2>. QED
    BY <1>2, <2>1 DEF FlagEndsAt
<1>7. FlagEndsAt(line, p + 1) => r = 6
  <2>. SUFFICES ASSUME FlagEndsAt(line, p + 1), r < 6
                PROVE  FALSE
    BY <1>1
  <2>1. \A k \in 1 .. 6 : line[(p + 1) - k] = 1
    BY DEF FlagEndsAt
  <2>2. r + 1 \in 1 .. 6 /\ (p + 1) - (r + 1) = p - r
    BY <1>1
  <2>3. line[(p + 1) - (r + 1)] = 1
    BY <2>1, <2>2
  <2>. QED
    BY <1>1, <2>2, <2>3
<1>. QED
  BY <1>3, <1>4, <1>5, <1>6, <1>7

\* The last bit of what is appended to.
LEMMA AppendOnes ==
  ASSUME NEW s \in Seq(Bit), NEW r \in 0 .. Len(s), Ones(s, Len(s) - r, r)
  PROVE  LET t == Append(s, 1)
         IN  Ones(t, Len(t) - (r + 1), r + 1) /\ Len(t) - (r + 1) = Len(s) - r
<1>1. PICK t : t = Append(s, 1)
  OBVIOUS
<1>2. /\ t \in Seq(Bit) /\ Len(t) = Len(s) + 1 /\ Len(s) \in Nat
      /\ \A k \in 1 .. Len(s) : t[k] = s[k]
      /\ t[Len(s) + 1] = 1
  <2>1. 1 \in Bit
    BY DEF Bit
  <2>. QED
    BY <1>1, <2>1, AppendProperties, LenProperties
<1>3. Len(t) - (r + 1) = Len(s) - r
  BY <1>2
<1>4. ASSUME NEW k \in 1 .. r + 1
      PROVE  t[Len(s) - r + k] = 1
  <2>1. CASE k = r + 1
    BY <1>2, <2>1
  <2>2. CASE k # r + 1
    <3>1. k \in 1 .. r /\ Len(s) - r + k \in 1 .. Len(s)
      BY <1>2, <2>2
    <3>. QED
      BY <1>2, <3>1 DEF Ones
  <2>. QED
    BY <2>1, <2>2
<1>5. Ones(t, Len(s) - r, r + 1)
  BY <1>4 DEF Ones
<1>. QED
  BY <1>1, <1>3, <1>5

\* A one that is not the seventh is a data bit.
LEMMA DestuffOne ==
  ASSUME NEW line \in Seq(Bit), NEW b0 \in Nat, NEW p \in Nat,
         p + 1 <= Len(line), NEW d \in Seq(Bit), NEW r,
         Destuffed(line, b0, p, d, r), line[p + 1] = 1,
         ~ \A k \in 0 .. 6 : line[(p + 1) - k] = 1
  PROVE  Destuffed(line, b0, p + 1, Append(d, 1), r + 1)
<1>1. /\ r \in 0 .. 6 /\ r <= Len(d) /\ b0 + r <= p /\ line[p - r] = 0
      /\ Ones(line, p - r, r) /\ Ones(d, Len(d) - r, r)
      /\ Stuffed(d, Len(d) - r, line, b0, p - r, 0)
  BY DEF Destuffed
<1>2. r # 6
  BY RunLength
<1>3. PICK t : t = Append(d, 1)
  OBVIOUS
<1>4. /\ t \in Seq(Bit) /\ Len(t) = Len(d) + 1 /\ Len(d) \in Nat /\ 1 \in Bit
  <2>1. 1 \in Bit
    BY DEF Bit
  <2>. QED
    BY <1>3, <2>1, AppendProperties, LenProperties
<1>5. Ones(t, Len(t) - (r + 1), r + 1) /\ Len(t) - (r + 1) = Len(d) - r
  BY <1>1, <1>3, <1>4, AppendOnes
<1>6. (p + 1) - (r + 1) = p - r
  BY <1>1
<1>7. Ones(line, p - r, r + 1)
  <2>1. ASSUME NEW k \in 1 .. r + 1
        PROVE  line[p - r + k] = 1
    <3>1. CASE k = r + 1
      <4>1. p - r + (r + 1) = p + 1
        BY <1>1
      <4>. QED
        BY <3>1, <4>1
    <3>2. CASE k # r + 1
      <4>1. k \in 1 .. r
        BY <1>1, <3>2
      <4>. QED
        BY <1>1, <4>1 DEF Ones
    <3>. QED
      BY <3>1, <3>2
  <2>. QED
    BY <2>1 DEF Ones
<1>8. Stuffed(t, Len(d) - r, line, b0, p - r, 0)
  <2>1. Len(d) - r \in 0 .. Len(d)
    BY <1>1, <1>4
  <2>2. Prefix(t, Len(d) - r) = Prefix(d, Len(d) - r)
    BY <1>3, <1>4, <2>1, PrefixAppend
  <2>. QED
    BY <1>1, <2>2 DEF Stuffed
<1>9. r + 1 \in 0 .. 6 /\ r + 1 <= Len(t) /\ b0 + (r + 1) <= p + 1
  BY <1>1, <1>2, <1>4
<1>10. Destuffed(line, b0, p + 1, t, r + 1)
  BY <1>1, <1>5, <1>6, <1>7, <1>8, <1>9 DEF Destuffed
<1>. QED
  BY <1>3, <1>10

\* A zero that is not stuffed is a data bit.
LEMMA DestuffZero ==
  ASSUME NEW line \in Seq(Bit), NEW b0 \in Nat, NEW p \in Nat,
         p + 1 <= Len(line), NEW d \in Seq(Bit), NEW r,
         Destuffed(line, b0, p, d, r), line[p + 1] = 0,
         ~ \A k \in 1 .. 5 : line[(p + 1) - k] = 1
  PROVE  Destuffed(line, b0, p + 1, Append(d, 0), 0)
<1>1. /\ r \in 0 .. 6 /\ r <= Len(d) /\ b0 + r <= p /\ line[p - r] = 0
      /\ Ones(line, p - r, r) /\ Ones(d, Len(d) - r, r)
      /\ Stuffed(d, Len(d) - r, line, b0, p - r, 0)
  BY DEF Destuffed
<1>2. r \in 0 .. 4
  <2>1. ~ (r >= 5)
    BY RunLength
  <2>. QED
    BY <1>1, <2>1
<1>3. PICK t : t = Append(d, 0)
  OBVIOUS
<1>4. /\ t \in Seq(Bit) /\ Len(t) = Len(d) + 1 /\ Len(d) \in Nat /\ 0 \in Bit
      /\ \A k \in 1 .. Len(d) : t[k] = d[k]
      /\ t[Len(d) + 1] = 0
  <2>1. 0 \in Bit
    BY DEF Bit
  <2>. QED
    BY <1>3, <2>1, AppendProperties, LenProperties
<1>5. PICK n \in Nat : n = Len(d) - r
  <2>1. Len(d) - r \in Nat
    BY <1>1, <1>4
  <2>. QED
    BY <2>1
<1>6. PICK q \in Nat : q = p - r
  BY <1>1
<1>7. StuffedThenOnes(t, n, line, b0, q, r)
  <2>1. Prefix(t, n) = Prefix(d, n)
    BY <1>1, <1>3, <1>4, <1>5, PrefixAppend
  <2>2. Stuffed(t, n, line, b0, q, 0)
    BY <1>1, <1>5, <1>6, <2>1 DEF Stuffed
  <2>3. Ones(t, n, r)
    <3>1. \A k \in 1 .. r : n + k \in 1 .. Len(d)
      BY <1>1, <1>4, <1>5
    <3>. QED
      BY <1>1, <1>4, <1>5, <3>1 DEF Ones
  <2>. QED
    BY <1>1, <1>6, <2>2, <2>3 DEF StuffedThenOnes
<1>8. /\ n + r + 1 = Len(t) /\ q + r + 1 = p + 1 /\ b0 <= q
      /\ n + r + 1 <= Len(t) /\ q + r + 1 <= Len(line)
      /\ t[n + r + 1] = 0 /\ line[q + r + 1] = 0
  <2>1. n + r + 1 = Len(t) /\ q + r + 1 = p + 1 /\ b0 <= q /\ n + r + 1 = Len(d) + 1
    BY <1>1, <1>4, <1>5, <1>6
  <2>. QED
    BY <1>4, <2>1
<1>9. Stuffed(t, n + r + 1, line, b0, q + r + 1, 0)
  BY <1>2, <1>4, <1>7, <1>8, StuffZero
<1>10. /\ Stuffed(t, Len(t) - 0, line, b0, (p + 1) - 0, 0)
       /\ line[(p + 1) - 0] = 0
  <2>1. Len(t) - 0 = Len(t) /\ (p + 1) - 0 = p + 1
    BY <1>4
  <2>. QED
    BY <1>8, <1>9, <2>1
<1>11. Ones(line, (p + 1) - 0, 0) /\ Ones(t, Len(t) - 0, 0)
  BY DEF Ones
<1>12. 0 \in 0 .. 6 /\ 0 <= Len(t) /\ b0 + 0 <= p + 1
  BY <1>1, <1>4
<1>13. Destuffed(line, b0, p + 1, t, 0)
  BY <1>10, <1>11, <1>12 DEF Destuffed
<1>. QED
  BY <1>3, <1>13

\* A zero behind exactly five ones carries no data.
LEMMA DestuffStuffed ==
  ASSUME NEW line \in Seq(Bit), NEW b0 \in Nat, NEW p \in Nat,
         p + 1 <= Len(line), NEW d \in Seq(Bit), NEW r,
         Destuffed(line, b0, p, d, r), line[p + 1] = 0,
         \A k \in 1 .. 5 : line[(p + 1) - k] = 1,
         ~ FlagEndsAt(line, p + 1)
  PROVE  Destuffed(line, b0, p + 1, d, 0)
<1>1. /\ r \in 0 .. 6 /\ r <= Len(d) /\ b0 + r <= p /\ line[p - r] = 0
      /\ Ones(line, p - r, r) /\ Ones(d, Len(d) - r, r)
      /\ Stuffed(d, Len(d) - r, line, b0, p - r, 0)
  BY DEF Destuffed
<1>2. r = 5
  <2>1. (\A k \in 1 .. 5 : line[(p + 1) - k] = 1) => r >= 5
    BY RunLength
  <2>2. line[p + 1] = 0 /\ r = 6 => FlagEndsAt(line, p + 1)
    BY RunLength
  <2>. QED
    BY <1>1, <2>1, <2>2
<1>3. Len(d) \in Nat
  BY LenProperties
<1>4. PICK n \in Nat : n = Len(d) - r
  <2>1. Len(d) - r \in Nat
    BY <1>1, <1>3
  <2>. QED
    BY <2>1
<1>5. PICK q \in Nat : q = p - r
  BY <1>1
<1>6. StuffedThenOnes(d, n, line, b0, q, 5)
  BY <1>1, <1>2, <1>4, <1>5 DEF StuffedThenOnes
<1>7. /\ n + 5 = Len(d) /\ q + 6 = p + 1 /\ b0 <= q
      /\ n + 5 <= Len(d) /\ q + 6 <= Len(line) /\ line[q + 6] = 0
  <2>1. n + 5 = Len(d) /\ q + 6 = p + 1 /\ b0 <= q
    BY <1>1, <1>2, <1>3, <1>4, <1>5
  <2>. QED
    BY <1>3, <2>1
<1>8. Stuffed(d, n + 5, line, b0, q + 6, 0)
  BY <1>6, <1>7, StuffFive
<1>9. /\ Stuffed(d, Len(d) - 0, line, b0, (p + 1) - 0, 0)
      /\ line[(p + 1) - 0] = 0
  <2>1. Len(d) - 0 = Len(d) /\ (p + 1) - 0 = p + 1
    BY <1>3
  <2>. QED
    BY <1>7, <1>8, <2>1
<1>10. Ones(line, (p + 1) - 0, 0) /\ Ones(d, Len(d) - 0, 0)
  BY DEF Ones
<1>11. 0 \in 0 .. 6 /\ 0 <= Len(d) /\ b0 + 0 <= p + 1
  BY <1>1, <1>3
<1>. QED
  BY <1>9, <1>10, <1>11 DEF Destuffed

\* Behind a flag there is nothing yet.
LEMMA DestuffNone ==
  ASSUME NEW line \in Seq(Bit), NEW b0 \in Nat, b0 >= 1, b0 <= Len(line), line[b0] = 0
  PROVE  Destuffed(line, b0, b0, Piece(line, b0, b0), 0)
<1>1. PICK none : none = Piece(line, b0, b0)
  OBVIOUS
<1>2. none \in Seq(Bit) /\ Len(none) = 0
  <2>1. /\ b0 + 1 \in Nat /\ b0 + 1 >= 1 /\ b0 + 1 <= b0 + 1
        /\ b0 - (b0 + 1) + 1 = 0
    OBVIOUS
  <2>. QED
    BY <1>1, <2>1, PieceProperties DEF Piece
<1>3. none = <<>>
  BY <1>2, EmptySeq
<1>4. Prefix(none, Len(none)) = none
  BY <1>2, PrefixFull
<1>5. Stuffed(none, Len(none), line, b0, b0, 0)
  BY <1>1, <1>3, <1>4, StuffingEmpty DEF Stuffed, NoLine
<1>6. Len(none) - 0 = Len(none) /\ b0 - 0 = b0 /\ 0 \in 0 .. 6 /\ 0 <= Len(none)
      /\ b0 + 0 <= b0
  BY <1>2
<1>7. Ones(line, b0, 0) /\ Ones(none, Len(none), 0)
  BY DEF Ones
<1>8. Destuffed(line, b0, b0, none, 0)
  BY <1>5, <1>6, <1>7 DEF Destuffed
<1>. QED
  BY <1>1, <1>8

\* The first line octet has no stuffed bit before its eighth bit.
PlainBehind(line, b0) ==
  ~ Ones(line, b0, 5) /\ ~ Ones(line, b0 + 1, 5)

\* Its bits are data bits, but perhaps the last one.
LEMMA FirstBits ==
  ASSUME NEW line \in Seq(Bit), NEW b0 \in Nat, b0 >= 1, b0 + 8 <= Len(line),
         line[b0] = 0, PlainBehind(line, b0)
  PROVE  /\ \E r : Destuffed(line, b0, b0 + 7, Piece(line, b0, b0 + 7), r)
         /\ IF (\A k \in 1 .. 5 : line[b0 + 8 - k] = 1) /\ line[b0 + 8] = 0
              THEN \E r : Destuffed(line, b0, b0 + 8, Piece(line, b0, b0 + 7), r)
              ELSE \E r : Destuffed(line, b0, b0 + 8, Piece(line, b0, b0 + 8), r)
<1>1. /\ \E k \in 1 .. 5 : line[b0 + k] # 1
      /\ \E k \in 1 .. 5 : line[b0 + 1 + k] # 1
  BY DEF PlainBehind, Ones
<1>2. ASSUME NEW m \in 0 .. 6
      PROVE  ~ \A k \in 1 .. 5 : line[b0 + m + 1 - k] = 1
  <2>1. CASE m \in 0 .. 4
    <3>1. m + 1 \in 1 .. 5 /\ b0 + m + 1 - (m + 1) = b0
      BY <2>1
    <3>. QED
      BY <3>1
  <2>2. CASE m = 5
    <3>. SUFFICES ASSUME \A k \in 1 .. 5 : line[b0 + m + 1 - k] = 1
                  PROVE  \A k \in 1 .. 5 : line[b0 + k] = 1
      BY <1>1
    <3>1. TAKE k \in 1 .. 5
    <3>2. PICK j \in 1 .. 5 : j = 6 - k
      OBVIOUS
    <3>3. line[b0 + m + 1 - j] = 1 /\ b0 + m + 1 - j = b0 + k
      BY <2>2, <3>2
    <3>. QED
      BY <3>3
  <2>3. CASE m = 6
    <3>. SUFFICES ASSUME \A k \in 1 .. 5 : line[b0 + m + 1 - k] = 1
                  PROVE  \A k \in 1 .. 5 : line[b0 + 1 + k] = 1
      BY <1>1
    <3>1. TAKE k \in 1 .. 5
    <3>2. PICK j \in 1 .. 5 : j = 6 - k
      OBVIOUS
    <3>3. line[b0 + m + 1 - j] = 1 /\ b0 + m + 1 - j = b0 + 1 + k
      BY <2>3, <3>2
    <3>. QED
      BY <3>3
  <2>. QED
    BY <2>1, <2>2, <2>3
<1>3. ASSUME NEW m \in 0 .. 7
      PROVE  ~ \A k \in 0 .. 6 : line[b0 + m + 1 - k] = 1
  <2>1. CASE m \in 0 .. 5
    <3>1. m + 1 \in 0 .. 6 /\ b0 + m + 1 - (m + 1) = b0
      BY <2>1
    <3>. QED
      BY <3>1
  <2>2. CASE m = 6
    <3>. SUFFICES ASSUME \A k \in 0 .. 6 : line[b0 + m + 1 - k] = 1
                  PROVE  \A k \in 1 .. 5 : line[b0 + k] = 1
      BY <1>1
    <3>1. TAKE k \in 1 .. 5
    <3>2. PICK j \in 0 .. 6 : j = 7 - k
      OBVIOUS
    <3>3. line[b0 + m + 1 - j] = 1 /\ b0 + m + 1 - j = b0 + k
      BY <2>2, <3>2
    <3>. QED
      BY <3>3
  <2>3. CASE m = 7
    <3>. SUFFICES ASSUME \A k \in 0 .. 6 : line[b0 + m + 1 - k] = 1
                  PROVE  \A k \in 1 .. 5 : line[b0 + 1 + k] = 1
      BY <1>1
    <3>1. TAKE k \in 1 .. 5
    <3>2. PICK j \in 0 .. 6 : j = 7 - k
      OBVIOUS
    <3>3. line[b0 + m + 1 - j] = 1 /\ b0 + m + 1 - j = b0 + 1 + k
      BY <2>3, <3>2
    <3>. QED
      BY <3>3
  <2>. QED
    BY <2>1, <2>2, <2>3
<1>4. ASSUME NEW m \in 0 .. 7, NEW r,
             Destuffed(line, b0, b0 + m, Piece(line, b0, b0 + m), r),
             line[b0 + m + 1] = 1 \/ ~ \A k \in 1 .. 5 : line[b0 + m + 1 - k] = 1
      PROVE  \E t : Destuffed(line, b0, b0 + m + 1, Piece(line, b0, b0 + m + 1), t)
  <2>1. PICK p \in Nat : p = b0 + m
    OBVIOUS
  <2>2. p + 1 <= Len(line) /\ b0 <= p
    BY <2>1, LenProperties
  <2>3. PICK d : d = Piece(line, b0, p)
    OBVIOUS
  <2>4. /\ d \in Seq(Bit) /\ Piece(line, b0, p + 1) = Append(d, line[p + 1])
        /\ line[p + 1] \in Bit
    BY <2>2, <2>3, PieceGrows
  <2>5. Destuffed(line, b0, p, d, r)
    BY <1>4, <2>1, <2>3
  <2>6. CASE line[p + 1] = 1
    <3>1. ~ \A k \in 0 .. 6 : line[(p + 1) - k] = 1
      BY <1>3, <2>1
    <3>2. Destuffed(line, b0, p + 1, Append(d, 1), r + 1)
      BY <2>2, <2>4, <2>5, <2>6, <3>1, DestuffOne
    <3>3. Destuffed(line, b0, p + 1, Piece(line, b0, p + 1), r + 1)
      BY <2>4, <2>6, <3>2
    <3>. QED
      BY <2>1, <3>3
  <2>7. CASE line[p + 1] # 1
    <3>1. line[p + 1] = 0
      BY <2>4, <2>7 DEF Bit
    <3>2. ~ \A k \in 1 .. 5 : line[(p + 1) - k] = 1
      BY <1>4, <2>1, <2>7
    <3>3. Destuffed(line, b0, p + 1, Append(d, 0), 0)
      BY <2>2, <2>4, <2>5, <3>1, <3>2, DestuffZero
    <3>. QED
      BY <2>1, <2>4, <3>1, <3>3
  <2>. QED
    BY <2>6, <2>7
<1>5. \E r : Destuffed(line, b0, b0 + 7, Piece(line, b0, b0 + 7), r)
  <2>. DEFINE good == {m \in 0 .. 7 :
                         \E r : Destuffed(line, b0, b0 + m, Piece(line, b0, b0 + m), r)}
  <2>1. 0 \in good
    <3>1. b0 + 0 = b0 /\ b0 <= Len(line)
      BY LenProperties
    <3>2. Destuffed(line, b0, b0, Piece(line, b0, b0), 0)
      BY <3>1, DestuffNone
    <3>. QED
      BY <3>1, <3>2
  <2>2. ASSUME NEW m \in 0 .. 7, m \in good, m < 7
        PROVE  m + 1 \in good
    <3>1. m \in 0 .. 6 /\ m + 1 \in 0 .. 7 /\ b0 + m + 1 = b0 + (m + 1)
      BY <2>2
    <3>2. ~ \A k \in 1 .. 5 : line[b0 + m + 1 - k] = 1
      BY <1>2, <3>1
    <3>3. PICK r : Destuffed(line, b0, b0 + m, Piece(line, b0, b0 + m), r)
      BY <2>2
    <3>4. \E t : Destuffed(line, b0, b0 + m + 1, Piece(line, b0, b0 + m + 1), t)
      BY <1>4, <3>2, <3>3
    <3>. QED
      BY <3>1, <3>4
  <2>3. 0 .. 7 \subseteq good
    <3>. HIDE DEF good
    <3>1. \A m \in 0 .. 7 : m \in good /\ m < 7 => m + 1 \in good
      BY <2>2
    <3>. QED
      BY <2>1, <3>1, UpToNat
  <2>. QED
    BY <2>3
<1>6. PICK r : Destuffed(line, b0, b0 + 7, Piece(line, b0, b0 + 7), r)
  BY <1>5
<1>7. PICK p \in Nat : p = b0 + 7
  OBVIOUS
<1>8. PICK d : d = Piece(line, b0, p)
  OBVIOUS
<1>9. /\ d \in Seq(Bit) /\ p + 1 = b0 + 8 /\ p + 1 <= Len(line) /\ b0 <= p
      /\ line[p + 1] \in Bit
  BY <1>7, <1>8, PieceGrows
<1>10. CASE (\A k \in 1 .. 5 : line[b0 + 8 - k] = 1) /\ line[b0 + 8] = 0
  <2>1. ~ FlagEndsAt(line, p + 1)
    <3>. SUFFICES ASSUME \A k \in 1 .. 6 : line[(p + 1) - k] = 1
                  PROVE  \A k \in 1 .. 5 : line[b0 + 1 + k] = 1
      BY <1>1 DEF FlagEndsAt
    <3>1. TAKE k \in 1 .. 5
    <3>2. PICK j \in 1 .. 6 : j = 7 - k
      OBVIOUS
    <3>3. line[(p + 1) - j] = 1 /\ (p + 1) - j = b0 + 1 + k
      BY <1>7, <3>2
    <3>. QED
      BY <3>3
  <2>2. (\A k \in 1 .. 5 : line[(p + 1) - k] = 1) /\ line[p + 1] = 0
    BY <1>9, <1>10
  <2>3. Destuffed(line, b0, p, d, r)
    BY <1>6, <1>7, <1>8
  <2>4. Destuffed(line, b0, p + 1, d, 0)
    BY <1>9, <2>1, <2>2, <2>3, DestuffStuffed
  <2>. QED
    BY <1>5, <1>7, <1>8, <1>9, <1>10, <2>4
<1>11. CASE ~ ((\A k \in 1 .. 5 : line[b0 + 8 - k] = 1) /\ line[b0 + 8] = 0)
  <2>1. 7 \in 0 .. 7 /\ b0 + 7 + 1 = b0 + 8
    OBVIOUS
  <2>2. line[b0 + 7 + 1] = 1 \/ ~ \A k \in 1 .. 5 : line[b0 + 7 + 1 - k] = 1
    BY <1>9, <1>11, <2>1 DEF Bit
  <2>3. \E t : Destuffed(line, b0, b0 + 7 + 1, Piece(line, b0, b0 + 7 + 1), t)
    BY <1>4, <1>6, <2>1, <2>2
  <2>. QED
    BY <1>5, <1>11, <2>1, <2>3
<1>. QED
  BY <1>10, <1>11

-----------------------------------------------------------------------------
(* The data bits that have been received *)

\* The octets of d_frame_buffer, then the last n bits of the data register.
DataOf(octets, reg, n) ==
  [k \in 1 .. 8 * Len(octets) + n |->
     IF k <= 8 * Len(octets) THEN BitsOf(octets)[k]
                             ELSE ByteBits(reg)[k - 8 * Len(octets) + 8 - n]]

LEMMA DataProperties ==
  ASSUME NEW octets \in Seq(Byte), NEW reg \in Byte, NEW n \in 0 .. 7
  PROVE  /\ DataOf(octets, reg, n) \in Seq(Bit)
         /\ Len(DataOf(octets, reg, n)) = 8 * Len(octets) + n
         /\ Len(octets) \in Nat
         /\ \A k \in 1 .. 8 * Len(octets) + n :
              DataOf(octets, reg, n)[k] =
                IF k <= 8 * Len(octets)
                  THEN BitsOf(octets)[k]
                  ELSE ByteBits(reg)[k - 8 * Len(octets) + 8 - n]
<1>1. Len(octets) \in Nat
  BY LenProperties
<1>2. PICK a \in Nat : a = 8 * Len(octets)
  BY <1>1
<1>3. PICK f : f = DataOf(octets, reg, n)
  OBVIOUS
<1>4. f = [k \in 1 .. a + n |->
             IF k <= a THEN BitsOf(octets)[k] ELSE ByteBits(reg)[k - a + 8 - n]]
  BY <1>2, <1>3 DEF DataOf
<1>5. ASSUME NEW k \in 1 .. a + n
      PROVE  (IF k <= a THEN BitsOf(octets)[k] ELSE ByteBits(reg)[k - a + 8 - n]) \in Bit
  <2>1. CASE k <= a
    <3>1. BitsOf(octets) \in Seq(Bit) /\ k \in 1 .. Len(BitsOf(octets))
      BY <1>2, <2>1, BitsOfProperties
    <3>. QED
      BY <2>1, <3>1, ElementOfSeq
  <2>2. CASE ~ (k <= a)
    <3>1. k - a + 8 - n \in 1 .. 8
      BY <2>2
    <3>2. PICK b \in Bit : b = 0
      BY DEF Bit
    <3>. QED
      BY <2>2, <3>1, <3>2, RegisterBits
  <2>. QED
    BY <2>1, <2>2
<1>6. f \in [1 .. a + n -> Bit] /\ a + n \in Nat
  BY <1>4, <1>5
<1>7. f \in Seq(Bit) /\ Len(f) = a + n
  BY <1>6, FunctionSequence
<1>8. \A k \in 1 .. a + n :
        f[k] = IF k <= a THEN BitsOf(octets)[k] ELSE ByteBits(reg)[k - a + 8 - n]
  BY <1>4
<1>. QED
  BY <1>1, <1>2, <1>3, <1>7, <1>8

\* A bit enters the data register.
LEMMA DataShift ==
  ASSUME NEW octets \in Seq(Byte), NEW reg \in Byte, NEW b \in Bit, NEW n \in 0 .. 7
  PROVE  (IF n = 7 THEN DataOf(Append(octets, ShiftIn(reg, b)), ShiftIn(reg, b), 0)
                   ELSE DataOf(octets, ShiftIn(reg, b), n + 1))
           = Append(DataOf(octets, reg, n), b)
<1>1. PICK new \in Byte : new = ShiftIn(reg, b)
  BY RegisterBits
<1>2. /\ \A j \in 1 .. 7 : ByteBits(new)[j] = ByteBits(reg)[j + 1]
      /\ ByteBits(new)[8] = b
  <2>1. /\ \A j \in 1 .. 7 : ByteBits(ShiftIn(reg, b))[j] = ByteBits(reg)[j + 1]
        /\ ByteBits(ShiftIn(reg, b))[8] = b
    BY RegisterBits
  <2>. QED
    BY <1>1, <2>1
<1>3. PICK d : d = DataOf(octets, reg, n)
  OBVIOUS
<1>4. PICK a \in Nat : a = 8 * Len(octets)
  BY LenProperties
<1>5. /\ d \in Seq(Bit) /\ Len(d) = a + n
      /\ \A k \in 1 .. a + n :
           d[k] = IF k <= a THEN BitsOf(octets)[k] ELSE ByteBits(reg)[k - a + 8 - n]
  BY <1>3, <1>4, DataProperties
<1>6. PICK t : t = Append(d, b)
  OBVIOUS
<1>7. /\ t \in Seq(Bit) /\ Len(t) = a + n + 1
      /\ \A k \in 1 .. a + n : t[k] = d[k]
      /\ t[a + n + 1] = b
  BY <1>5, <1>6, AppendProperties
<1>8. CASE n = 7
  <2>1. PICK more : more = Append(octets, new)
    OBVIOUS
  <2>2. more \in Seq(Byte) /\ Len(more) = Len(octets) + 1 /\ Len(octets) \in Nat
    BY <2>1, AppendProperties, LenProperties
  <2>3. 8 * Len(more) = a + 8 /\ 8 * Len(more) + 0 = a + 8
    BY <1>4, <2>2
  <2>4. PICK e : e = DataOf(more, new, 0)
    OBVIOUS
  <2>5. /\ e \in Seq(Bit) /\ Len(e) = a + 8
        /\ \A k \in 1 .. a + 8 : e[k] = BitsOf(more)[k]
    <3>1. /\ e \in Seq(Bit) /\ Len(e) = 8 * Len(more) + 0
          /\ \A k \in 1 .. 8 * Len(more) + 0 :
               e[k] = IF k <= 8 * Len(more) THEN BitsOf(more)[k]
                      ELSE ByteBits(new)[k - 8 * Len(more) + 8 - 0]
      <4>1. 0 \in 0 .. 7
        OBVIOUS
      <4>. QED
        BY <2>2, <2>4, <4>1, DataProperties
    <3>. QED
      BY <2>3, <3>1
  <2>6. /\ \A k \in 1 .. a : BitsOf(more)[k] = BitsOf(octets)[k]
        /\ \A j \in 1 .. 8 : BitsOf(more)[a + j] = ByteBits(new)[j]
    BY <1>4, <2>1, BitsOfAppend
  <2>7. ASSUME NEW k \in 1 .. a + 8
        PROVE  e[k] = t[k]
    <3>1. CASE k <= a
      <4>1. k \in 1 .. a /\ k \in 1 .. a + n
        BY <3>1
      <4>2. e[k] = BitsOf(octets)[k]
        BY <2>5, <2>6, <4>1
      <4>3. t[k] = BitsOf(octets)[k]
        BY <1>5, <1>7, <4>1
      <4>. QED
        BY <4>2, <4>3
    <3>2. CASE k \in a + 1 .. a + 7
      <4>1. k - a \in 1 .. 7 /\ a + (k - a) = k /\ k - a + 8 - 7 = (k - a) + 1
            /\ k \in 1 .. a + n /\ ~ (k <= a)
        BY <1>8, <3>2
      <4>2. BitsOf(more)[a + (k - a)] = ByteBits(new)[k - a]
        <5>1. PICK j \in 1 .. 8 : j = k - a
          BY <4>1
        <5>. QED
          BY <2>6, <5>1
      <4>3. d[k] = ByteBits(reg)[(k - a) + 1]
        BY <1>5, <1>8, <4>1
      <4>. QED
        BY <1>2, <1>7, <2>5, <4>1, <4>2, <4>3
    <3>3. CASE k = a + 8
      <4>1. BitsOf(more)[a + 8] = ByteBits(new)[8]
        BY <2>6
      <4>2. t[a + 8] = b
        <5>1. a + n + 1 = a + 8
          BY <1>8
        <5>. QED
          BY <1>7, <5>1
      <4>. QED
        BY <1>2, <2>5, <3>3, <4>1, <4>2
    <3>. QED
      BY <3>1, <3>2, <3>3
  <2>8. e = t
    <3>1. Len(e) = Len(t)
      BY <1>7, <1>8, <2>5
    <3>. QED
      BY <1>7, <2>5, <2>7, <3>1, SeqEqual
  <2>. QED
    BY <1>1, <1>3, <1>6, <1>8, <2>1, <2>4, <2>8
<1>9. CASE n # 7
  <2>1. n + 1 \in 0 .. 7
    BY <1>9
  <2>2. PICK e : e = DataOf(octets, new, n + 1)
    OBVIOUS
  <2>3. /\ e \in Seq(Bit) /\ Len(e) = a + (n + 1)
        /\ \A k \in 1 .. a + (n + 1) :
             e[k] = IF k <= a THEN BitsOf(octets)[k]
                    ELSE ByteBits(new)[k - a + 8 - (n + 1)]
    BY <1>4, <2>1, <2>2, DataProperties
  <2>4. ASSUME NEW k \in 1 .. a + (n + 1)
        PROVE  e[k] = t[k]
    <3>1. CASE k <= a
      <4>1. k \in 1 .. a + n
        BY <3>1
      <4>2. e[k] = BitsOf(octets)[k]
        BY <2>3, <3>1
      <4>3. t[k] = BitsOf(octets)[k]
        BY <1>5, <1>7, <3>1, <4>1
      <4>. QED
        BY <4>2, <4>3
    <3>2. CASE k \in a + 1 .. a + n
      <4>1. /\ k - a + 8 - (n + 1) \in 1 .. 7 /\ k \in 1 .. a + n /\ ~ (k <= a)
            /\ (k - a + 8 - (n + 1)) + 1 = k - a + 8 - n
        BY <1>9, <3>2
      <4>2. ByteBits(new)[k - a + 8 - (n + 1)] = ByteBits(reg)[k - a + 8 - n]
        BY <1>2, <4>1
      <4>. QED
        BY <1>5, <1>7, <2>3, <4>1, <4>2
    <3>3. CASE k = a + n + 1
      <4>1. k - a + 8 - (n + 1) = 8 /\ ~ (k <= a)
        BY <3>3
      <4>. QED
        BY <1>2, <1>7, <2>3, <3>3, <4>1
    <3>. QED
      BY <3>1, <3>2, <3>3
  <2>5. e = t
    <3>1. Len(e) = Len(t) /\ Len(e) = a + (n + 1)
      BY <1>7, <2>3
    <3>. QED
      BY <1>7, <2>3, <2>4, <3>1, SeqEqual
  <2>. QED
    BY <1>1, <1>3, <1>6, <1>9, <2>2, <2>5
<1>. QED
  BY <1>8, <1>9

\* The shift behind a stuffed bit takes it out again.
LEMMA DataUp ==
  ASSUME NEW octets \in Seq(Byte), NEW reg \in Byte, NEW b \in Bit, NEW n \in 0 .. 7
  PROVE  DataOf(octets, (2 * ShiftIn(reg, b)) % 256, n) = DataOf(octets, reg, n)
<1>1. PICK up \in Byte : up = (2 * ShiftIn(reg, b)) % 256
  BY RegisterBits
<1>2. \A j \in 2 .. 8 : ByteBits(up)[j] = ByteBits(reg)[j]
  BY <1>1, RegisterBits
<1>3. PICK a \in Nat : a = 8 * Len(octets)
  BY LenProperties
<1>4. ASSUME NEW k \in 1 .. a + n, ~ (k <= a)
      PROVE  ByteBits(up)[k - a + 8 - n] = ByteBits(reg)[k - a + 8 - n]
  <2>1. k - a + 8 - n \in 2 .. 8
    BY <1>4
  <2>. QED
    BY <1>2, <2>1
<1>5. /\ \A k \in 1 .. a + n :
           DataOf(octets, up, n)[k] =
             IF k <= a THEN BitsOf(octets)[k] ELSE ByteBits(up)[k - a + 8 - n]
      /\ \A k \in 1 .. a + n :
           DataOf(octets, reg, n)[k] =
             IF k <= a THEN BitsOf(octets)[k] ELSE ByteBits(reg)[k - a + 8 - n]
      /\ DataOf(octets, up, n) \in Seq(Bit) /\ Len(DataOf(octets, up, n)) = a + n
      /\ DataOf(octets, reg, n) \in Seq(Bit) /\ Len(DataOf(octets, reg, n)) = a + n
  BY <1>3, DataProperties
<1>6. \A k \in 1 .. a + n : DataOf(octets, up, n)[k] = DataOf(octets, reg, n)[k]
  BY <1>4, <1>5
<1>7. DataOf(octets, up, n) = DataOf(octets, reg, n)
  BY <1>5, <1>6, SeqEqual
<1>. QED
  BY <1>1, <1>7

-----------------------------------------------------------------------------
(* What the decoder knows of the line behind it *)

\* The p-th bit of the line is the last one of a flag that may share its first
\* zero with what precedes it.
TailAt(line, p) ==
  p >= 7 /\ p <= Len(line) /\ line[p] = 0 /\ \A k \in 1 .. 6 : line[p - k] = 1

IdleFlags(line, from, flags) ==
  \A k \in 1 .. 8 * flags : line[from + k] = Flag[((k - 1) % 8) + 1]

\* In NO_SYNC, p bits of the line seen.
Searching(reg, line, p) ==
  p <= Len(line) /\ \E z \in Nat : z <= p /\ Holds(reg, line, p, z)

\* In IN_SYNC: behind the flag that ends with the from-th bit there are whole
\* flags and n more bits.
AtFlags(reg, dec, n, line, from, p) ==
  /\ p <= Len(line)
  /\ TailAt(line, from)
  /\ Holds(reg, line, p, from)
  /\ dec = reg
  /\ \E flags \in Nat : p = from + 8 * flags + n /\ IdleFlags(line, from, flags)

\* In DECODING: behind whole flags, the last of which ends with the b0-th bit,
\* eight bits that are no flag, and the data bits d.
InFrame(reg, line, from, b0, p, d) ==
  /\ p <= Len(line)
  /\ TailAt(line, from)
  /\ Holds(reg, line, p, from)
  /\ \E flags \in Nat : b0 = from + 8 * flags /\ IdleFlags(line, from, flags)
  /\ b0 + 8 <= p
  /\ ~ FlagEndsAt(line, b0 + 8)
  /\ PlainBehind(line, b0) => \E r : Destuffed(line, b0, p, d, r)

\* A cleared register.
LEMMA HoldsNothing ==
  ASSUME NEW line, NEW p \in Nat
  PROVE  Holds(0, line, p, p)
<1>1. ASSUME NEW j \in 1 .. 8
      PROVE  ByteBits(0)[j] = IF p - 8 + j > p THEN line[p - 8 + j] ELSE 0
  <2>1. ~ (p - 8 + j > p)
    OBVIOUS
  <2>2. 0 \in Int /\ \A m \in {1, 2, 4, 8, 16, 32, 64, 128} : (0 \div m) % 2 = 0
    OBVIOUS
  <2>3. ByteBits(0)[j] = (0 \div PlaceValues[j]) % 2
    BY DEF ByteBits
  <2>4. PlaceValues[j] \in {1, 2, 4, 8, 16, 32, 64, 128}
    BY DEF PlaceValues
  <2>. QED
    BY <2>1, <2>2, <2>3, <2>4
<1>. QED
  BY <1>1 DEF Holds

\* The last bit of the flags is a zero.
LEMMA FlagsEndInZero ==
  ASSUME NEW line, NEW from \in Nat, NEW flags \in Nat, TailAt(line, from),
         IdleFlags(line, from, flags)
  PROVE  line[from + 8 * flags] = 0
<1>1. CASE flags = 0
  BY <1>1 DEF TailAt
<1>2. CASE flags # 0
  <2>1. PICK k \in 1 .. 8 * flags : k = 8 * flags
    BY <1>2
  <2>2. ((k - 1) % 8) + 1 = 8
    <3>1. k - 1 = 8 * (flags - 1) + 7 /\ flags - 1 \in Nat
      BY <1>2, <2>1
    <3>2. \A a \in Nat : (8 * a + 7) % 8 = 7
      OBVIOUS
    <3>. QED
      BY <3>1, <3>2
  <2>3. line[from + k] = Flag[8]
    BY <2>2 DEF IdleFlags
  <2>. QED
    BY <2>1, <2>3 DEF Flag
<1>. QED
  BY <1>1, <1>2

\* One more flag.
LEMMA IdleFlagsGrow ==
  ASSUME NEW line, NEW from \in Nat, NEW flags \in Nat,
         IdleFlags(line, from, flags), FlagEndsAt(line, from + 8 * flags + 8)
  PROVE  IdleFlags(line, from, flags + 1)
<1>1. PICK e \in Nat : e = from + 8 * flags + 8
  OBVIOUS
<1>2. /\ line[e - 7] = 0 /\ line[e - 6] = 1 /\ line[e - 5] = 1 /\ line[e - 4] = 1
      /\ line[e - 3] = 1 /\ line[e - 2] = 1 /\ line[e - 1] = 1 /\ line[e] = 0
  BY <1>1 DEF FlagEndsAt
<1>3. ASSUME NEW k \in 1 .. 8 * (flags + 1)
      PROVE  line[from + k] = Flag[((k - 1) % 8) + 1]
  <2>1. CASE k \in 1 .. 8 * flags
    BY <2>1 DEF IdleFlags
  <2>2. CASE ~ (k \in 1 .. 8 * flags)
    <3>1. PICK j \in 1 .. 8 : k = 8 * flags + j
      <4>1. k - 8 * flags \in 1 .. 8 /\ k = 8 * flags + (k - 8 * flags)
        BY <2>2
      <4>. QED
        BY <4>1
    <3>2. ((k - 1) % 8) + 1 = j
      <4>1. k - 1 = 8 * flags + (j - 1) /\ j - 1 \in 0 .. 7
        BY <3>1
      <4>2. \A a \in Nat, c \in 0 .. 7 : (8 * a + c) % 8 = c
        OBVIOUS
      <4>3. (k - 1) % 8 = j - 1
        BY <4>1, <4>2
      <4>. QED
        BY <4>3
    <3>3. from + k = e - 8 + j
      BY <1>1, <3>1
    <3>4. line[e - 8 + j] = Flag[j]
      <4>1. /\ Flag[1] = 0 /\ Flag[2] = 1 /\ Flag[3] = 1 /\ Flag[4] = 1
            /\ Flag[5] = 1 /\ Flag[6] = 1 /\ Flag[7] = 1 /\ Flag[8] = 0
        BY DEF Flag
      <4>2. \/ j = 1 /\ e - 8 + j = e - 7
            \/ j = 2 /\ e - 8 + j = e - 6
            \/ j = 3 /\ e - 8 + j = e - 5
            \/ j = 4 /\ e - 8 + j = e - 4
            \/ j = 5 /\ e - 8 + j = e - 3
            \/ j = 6 /\ e - 8 + j = e - 2
            \/ j = 7 /\ e - 8 + j = e - 1
            \/ j = 8 /\ e - 8 + j = e
        OBVIOUS
      <4>. QED
        BY <1>2, <4>1, <4>2
    <3>. QED
      BY <3>2, <3>3, <3>4
  <2>. QED
    BY <2>1, <2>2
<1>. QED
  BY <1>3 DEF IdleFlags

\* The last of these flags is one.
LEMMA IdleFlagsLast ==
  ASSUME NEW line, NEW from \in Nat, NEW flags \in Nat,
         IdleFlags(line, from, flags + 1)
  PROVE  FlagEndsAt(line, from + 8 * flags + 8)
<1>1. PICK e \in Nat : e = from + 8 * flags + 8
  OBVIOUS
<1>2. ASSUME NEW j \in 1 .. 8
      PROVE  line[e - 8 + j] = Flag[j]
  <2>1. PICK k \in 1 .. 8 * (flags + 1) : k = 8 * flags + j
    OBVIOUS
  <2>2. k - 1 = 8 * flags + (j - 1) /\ j - 1 \in 0 .. 7
    BY <2>1
  <2>3. \A a \in Nat, c \in 0 .. 7 : (8 * a + c) % 8 = c
    OBVIOUS
  <2>4. ((k - 1) % 8) + 1 = j
    BY <2>2, <2>3
  <2>5. line[from + k] = Flag[((k - 1) % 8) + 1]
    BY DEF IdleFlags
  <2>6. from + k = e - 8 + j
    BY <1>1, <2>1
  <2>. QED
    BY <2>4, <2>5, <2>6
<1>3. /\ Flag[1] = 0 /\ Flag[2] = 1 /\ Flag[3] = 1 /\ Flag[4] = 1
      /\ Flag[5] = 1 /\ Flag[6] = 1 /\ Flag[7] = 1 /\ Flag[8] = 0
  BY DEF Flag
<1>4. /\ e - 7 = e - 8 + 1 /\ e = e - 8 + 8
      /\ \A k \in 1 .. 6 : e - k = e - 8 + (8 - k) /\ 8 - k \in 2 .. 7
  BY <1>1
<1>5. line[e - 7] = 0 /\ line[e] = 0
  <2>1. 1 \in 1 .. 8 /\ 8 \in 1 .. 8
    OBVIOUS
  <2>. QED
    BY <1>2, <1>3, <1>4, <2>1
<1>6. ASSUME NEW k \in 1 .. 6
      PROVE  line[e - k] = 1
  <2>1. PICK j \in 2 .. 7 : j = 8 - k
    BY <1>4
  <2>2. e - k = e - 8 + j /\ j \in 1 .. 8
    BY <1>1, <2>1
  <2>3. Flag[j] = 1
    <3>1. j = 2 \/ j = 3 \/ j = 4 \/ j = 5 \/ j = 6 \/ j = 7
      OBVIOUS
    <3>. QED
      BY <1>3, <3>1
  <2>. QED
    BY <1>2, <2>2, <2>3
<1>7. FlagEndsAt(line, e)
  BY <1>5, <1>6 DEF FlagEndsAt
<1>. QED
  BY <1>1, <1>7

\* NO_SYNC: the next bit.
LEMMA SearchingBit ==
  ASSUME NEW reg \in Byte, NEW line \in Seq(Bit), NEW p \in Nat,
         p + 1 <= Len(line), Searching(reg, line, p)
  PROVE  Searching(ShiftIn(reg, line[p + 1]), line, p + 1)
<1>1. PICK z \in Nat : z <= p /\ Holds(reg, line, p, z)
  BY DEF Searching
<1>2. Holds(ShiftIn(reg, line[p + 1]), line, p + 1, z)
  BY <1>1, HoldsShift
<1>3. z <= p + 1
  BY <1>1
<1>. QED
  BY <1>2, <1>3 DEF Searching

\* NO_SYNC: a flag, the registers are cleared.
LEMMA SearchingFlag ==
  ASSUME NEW reg \in Byte, NEW line \in Seq(Bit), NEW p \in Nat,
         p + 1 <= Len(line), Searching(reg, line, p),
         ShiftIn(reg, line[p + 1]) = SyncFlag
  PROVE  AtFlags(0, 0, 0, line, p + 1, p + 1)
<1>1. PICK z \in Nat : z <= p /\ Holds(reg, line, p, z)
  BY DEF Searching
<1>2. Holds(ShiftIn(reg, line[p + 1]), line, p + 1, z)
  BY <1>1, HoldsShift
<1>3. PICK e \in Nat : e = p + 1
  OBVIOUS
<1>4. SyncFlag \in Byte /\ Holds(SyncFlag, line, e, z) /\ z < e
  BY <1>1, <1>2, <1>3 DEF SyncFlag, Byte
<1>5. /\ z + 7 <= e
      /\ \A k \in 1 .. 6 : line[e - k] = 1
      /\ line[e] = 0
  BY <1>4, HoldsFlagTail
<1>6. e >= 7 /\ e <= Len(line)
  BY <1>3, <1>5
<1>7. TailAt(line, e)
  BY <1>5, <1>6 DEF TailAt
<1>8. Holds(0, line, e, e)
  BY HoldsNothing
<1>9. IdleFlags(line, e, 0) /\ e = e + 8 * 0 + 0
  BY DEF IdleFlags
<1>10. AtFlags(0, 0, 0, line, e, e)
  BY <1>6, <1>7, <1>8, <1>9 DEF AtFlags
<1>. QED
  BY <1>3, <1>10

\* IN_SYNC: a bit, the eighth only if it ends another flag.
LEMMA FlagsBit ==
  ASSUME NEW reg \in Byte, NEW line \in Seq(Bit), NEW from \in Nat,
         NEW p \in Nat, p + 1 <= Len(line), NEW n \in 0 .. 7, NEW dec,
         AtFlags(reg, dec, n, line, from, p),
         n = 7 => ShiftIn(reg, line[p + 1]) = SyncFlag
  PROVE  AtFlags(ShiftIn(reg, line[p + 1]), ShiftIn(dec, line[p + 1]),
                 (n + 1) % 8, line, from, p + 1)
<1>1. /\ TailAt(line, from) /\ Holds(reg, line, p, from) /\ dec = reg
  BY DEF AtFlags
<1>2. PICK flags \in Nat : p = from + 8 * flags + n /\ IdleFlags(line, from, flags)
  BY DEF AtFlags
<1>3. from <= p
  BY <1>2
<1>4. PICK e \in Nat : e = p + 1
  OBVIOUS
<1>5. PICK new \in Byte : new = ShiftIn(reg, line[e])
  <2>1. line[e] \in Bit
    <3>1. e \in 1 .. Len(line)
      BY <1>4, LenProperties
    <3>. QED
      BY <3>1, ElementOfSeq
  <2>. QED
    BY <2>1, ShiftInType
<1>6. Holds(new, line, e, from)
  BY <1>1, <1>3, <1>4, <1>5, HoldsShift
<1>7. \E more \in Nat : e = from + 8 * more + ((n + 1) % 8) /\ IdleFlags(line, from, more)
  <2>1. CASE n = 7
    <3>1. e = from + 8 * flags + 8 /\ from + 8 <= e
      BY <1>2, <1>4, <2>1
    <3>2. FlagEndsAt(line, e)
      BY <1>4, <1>5, <1>6, <2>1, <3>1, HoldsMeaning
    <3>3. IdleFlags(line, from, flags + 1)
      BY <1>2, <3>1, <3>2, IdleFlagsGrow
    <3>4. e = from + 8 * (flags + 1) + ((n + 1) % 8) /\ flags + 1 \in Nat
      BY <2>1, <3>1
    <3>. QED
      BY <3>3, <3>4
  <2>2. CASE n # 7
    <3>1. (n + 1) % 8 = n + 1
      BY <2>2
    <3>2. e = from + 8 * flags + ((n + 1) % 8)
      BY <1>2, <1>4, <3>1
    <3>. QED
      BY <1>2, <3>2
  <2>. QED
    BY <2>1, <2>2
<1>8. e <= Len(line)
  BY <1>4
<1>9. AtFlags(new, new, (n + 1) % 8, line, from, e)
  BY <1>1, <1>6, <1>7, <1>8 DEF AtFlags
<1>. QED
  BY <1>1, <1>4, <1>5, <1>9

\* IN_SYNC: the octet behind the flags is the first of a frame.
LEMMA FlagsData ==
  ASSUME NEW reg \in Byte, NEW line \in Seq(Bit), NEW from \in Nat,
         NEW p \in Nat, p + 1 <= Len(line), NEW dec,
         AtFlags(reg, dec, 7, line, from, p),
         NEW new, new = ShiftIn(reg, line[p + 1]), new # SyncFlag,
         NEW b0 \in Nat, b0 + 7 = p
  PROVE  InFrame(new, line, from, b0, p + 1,
                 IF IsStuffed(new) THEN DataOf(<<>>, (2 * new) % 256, 7)
                                   ELSE DataOf(<<new>>, new, 0))
<1>1. /\ TailAt(line, from) /\ Holds(reg, line, p, from) /\ dec = reg
  BY DEF AtFlags
<1>2. PICK flags \in Nat : p = from + 8 * flags + 7 /\ IdleFlags(line, from, flags)
  BY DEF AtFlags
<1>3. b0 = from + 8 * flags
  BY <1>2
<1>4. /\ p = b0 + 7 /\ p + 1 = b0 + 8 /\ from <= p /\ from + 8 <= p + 1
      /\ b0 + 8 <= Len(line) /\ from >= 7 /\ b0 >= 1
  BY <1>1, <1>2, <1>3 DEF TailAt
<1>5. line[p + 1] \in Bit /\ new \in Byte
  <2>1. p + 1 \in 1 .. Len(line)
    BY LenProperties
  <2>2. line[p + 1] \in Bit
    BY <2>1, ElementOfSeq
  <2>. QED
    BY <2>2, ShiftInType
<1>6. Holds(new, line, p + 1, from)
  BY <1>1, <1>4, HoldsShift
<1>7. IsStuffed(new) <=> (\A k \in 1 .. 5 : line[b0 + 8 - k] = 1) /\ line[b0 + 8] = 0
  <2>1. p + 1 \in Nat
    OBVIOUS
  <2>2. IsStuffed(new) <=> (\A k \in 1 .. 5 : line[p + 1 - k] = 1) /\ line[p + 1] = 0
    BY <1>4, <1>5, <1>6, <2>1, HoldsMeaning
  <2>. QED
    BY <1>4, <2>2
<1>8. line[b0] = 0
  BY <1>1, <1>2, <1>3, FlagsEndInZero
<1>8a. ~ FlagEndsAt(line, b0 + 8)
  <2>1. PICK e \in Nat : e = p + 1
    OBVIOUS
  <2>2. from + 8 <= e /\ Holds(new, line, e, from) /\ e = b0 + 8
    BY <1>4, <1>6, <2>1
  <2>3. new = SyncFlag <=> FlagEndsAt(line, e)
    BY <1>5, <2>2, HoldsMeaning
  <2>. QED
    BY <2>2, <2>3
<1>9. ASSUME NEW n \in 7 .. 8
      PROVE  /\ Piece(line, b0, b0 + n) \in Seq(Bit) /\ Len(Piece(line, b0, b0 + n)) = n
             /\ \A k \in 1 .. n : Piece(line, b0, b0 + n)[k] = line[b0 + k]
  <2>1. n \in Nat /\ b0 + n <= Len(line)
    BY <1>4, LenProperties
  <2>. QED
    BY <2>1, PieceBits
<1>10. CASE IsStuffed(new)
  <2>1. PICK d : d = DataOf(<<>>, reg, 7)
    OBVIOUS
  <2>2. PICK none \in Seq(Byte) : none = <<>> /\ Len(none) = 0
    BY EmptySeq
  <2>3. DataOf(<<>>, (2 * new) % 256, 7) = d
    <3>1. PICK n \in 0 .. 7 : n = 7
      OBVIOUS
    <3>2. PICK b \in Bit : b = line[p + 1]
      BY <1>5
    <3>3. DataOf(none, (2 * ShiftIn(reg, b)) % 256, n) = DataOf(none, reg, n)
      BY DataUp
    <3>. QED
      BY <2>1, <2>2, <3>1, <3>2, <3>3
  <2>4. d \in Seq(Bit) /\ Len(d) = 7 /\ \A k \in 1 .. 7 : d[k] = ByteBits(reg)[k + 1]
    <3>1. 8 * Len(none) + 7 = 7 /\ 8 * Len(none) = 0
      BY <2>2
    <3>2. /\ d \in Seq(Bit) /\ Len(d) = 7
          /\ \A k \in 1 .. 7 : d[k] = IF k <= 0 THEN BitsOf(none)[k]
                                 ELSE ByteBits(reg)[k - 0 + 8 - 7]
      <4>1. PICK n \in 0 .. 7 : n = 7
        OBVIOUS
      <4>2. /\ DataOf(none, reg, n) \in Seq(Bit)
            /\ Len(DataOf(none, reg, n)) = 8 * Len(none) + n
            /\ \A k \in 1 .. 8 * Len(none) + n :
                 DataOf(none, reg, n)[k] =
                   IF k <= 8 * Len(none) THEN BitsOf(none)[k]
                     ELSE ByteBits(reg)[k - 8 * Len(none) + 8 - n]
        BY DataProperties
      <4>. QED
        BY <2>1, <2>2, <3>1, <4>1, <4>2
    <3>3. \A k \in 1 .. 7 : ~ (k <= 0) /\ k - 0 + 8 - 7 = k + 1
      OBVIOUS
    <3>. QED
      BY <3>2, <3>3
  <2>5. d = Piece(line, b0, b0 + 7)
    <3>1. \A k \in 1 .. 7 : ByteBits(reg)[k + 1] = line[b0 + k]
      <4>1. ASSUME NEW k \in 1 .. 7
            PROVE  ByteBits(reg)[k + 1] = line[b0 + k]
        <5>1. k + 1 \in 1 .. 8 /\ p - 8 + (k + 1) = b0 + k /\ b0 + k > from
          BY <1>2, <1>3, <1>4
        <5>2. ByteBits(reg)[k + 1] = IF p - 8 + (k + 1) > from
                                       THEN line[p - 8 + (k + 1)] ELSE 0
          BY <1>1, <5>1 DEF Holds
        <5>. QED
          BY <5>1, <5>2
      <4>. QED
        BY <4>1
    <3>2. PICK piece : piece = Piece(line, b0, b0 + 7)
      OBVIOUS
    <3>3. piece \in Seq(Bit) /\ Len(piece) = 7 /\ \A k \in 1 .. 7 : piece[k] = line[b0 + k]
      BY <1>9, <3>2
    <3>4. d \in Seq(Bit) /\ Len(d) = Len(piece) /\ \A k \in 1 .. Len(d) : d[k] = piece[k]
      BY <2>4, <3>1, <3>3
    <3>. QED
      BY <3>2, <3>3, <3>4, SeqEqual
  <2>6. PlainBehind(line, b0) => \E r : Destuffed(line, b0, b0 + 8, d, r)
    BY <1>4, <1>7, <1>8, <1>10, <2>5, FirstBits
  <2>7. InFrame(new, line, from, b0, p + 1, d)
    BY <1>1, <1>2, <1>3, <1>4, <1>6, <1>8a, <2>6 DEF InFrame
  <2>. QED
    BY <1>10, <2>3, <2>7
<1>11. CASE ~ IsStuffed(new)
  <2>1. PICK d : d = DataOf(<<new>>, new, 0)
    OBVIOUS
  <2>2. PICK one \in Seq(Byte) : one = <<new>> /\ Len(one) = 1 /\ one[1] = new
    <3>. HIDE DEF Byte
    <3>1. <<new>> \in Seq(Byte)
      BY <1>5
    <3>. QED
      BY <3>1
  <2>3. d \in Seq(Bit) /\ Len(d) = 8 /\ \A k \in 1 .. 8 : d[k] = ByteBits(new)[k]
    <3>1. 8 * Len(one) + 0 = 8 /\ 8 * Len(one) = 8
      BY <2>2
    <3>2. /\ d \in Seq(Bit) /\ Len(d) = 8
          /\ \A k \in 1 .. 8 : d[k] = IF k <= 8 THEN BitsOf(one)[k]
                                 ELSE ByteBits(new)[k - 8 + 8 - 0]
      <4>1. PICK n \in 0 .. 7 : n = 0
        OBVIOUS
      <4>2. /\ DataOf(one, new, n) \in Seq(Bit)
            /\ Len(DataOf(one, new, n)) = 8 * Len(one) + n
            /\ \A k \in 1 .. 8 * Len(one) + n :
                 DataOf(one, new, n)[k] =
                   IF k <= 8 * Len(one) THEN BitsOf(one)[k]
                     ELSE ByteBits(new)[k - 8 * Len(one) + 8 - n]
        BY <1>5, DataProperties
      <4>. QED
        BY <2>1, <2>2, <3>1, <4>1, <4>2
    <3>3. \A k \in 1 .. 8 : BitsOf(one)[k] = ByteBits(new)[k]
      <4>1. /\ 1 \in 1 .. Len(one)
            /\ \A k \in 1 .. 8 : 8 * (1 - 1) + k = k
        BY <2>2
      <4>2. \A k \in 1 .. 8 : BitsOf(one)[8 * (1 - 1) + k] = ByteBits(one[1])[k]
        BY <4>1, BitsOfProperties
      <4>. QED
        BY <2>2, <4>1, <4>2
    <3>4. \A k \in 1 .. 8 : k <= 8
      OBVIOUS
    <3>. QED
      BY <3>2, <3>3, <3>4
  <2>4. d = Piece(line, b0, b0 + 8)
    <3>1. \A k \in 1 .. 8 : ByteBits(new)[k] = line[b0 + k]
      <4>1. ASSUME NEW k \in 1 .. 8
            PROVE  ByteBits(new)[k] = line[b0 + k]
        <5>1. (p + 1) - 8 + k = b0 + k /\ b0 + k > from
          BY <1>2, <1>3, <1>4
        <5>2. ByteBits(new)[k] = IF (p + 1) - 8 + k > from
                                   THEN line[(p + 1) - 8 + k] ELSE 0
          BY <1>6 DEF Holds
        <5>. QED
          BY <5>1, <5>2
      <4>. QED
        BY <4>1
    <3>2. PICK piece : piece = Piece(line, b0, b0 + 8)
      OBVIOUS
    <3>3. piece \in Seq(Bit) /\ Len(piece) = 8 /\ \A k \in 1 .. 8 : piece[k] = line[b0 + k]
      BY <1>9, <3>2
    <3>4. d \in Seq(Bit) /\ Len(d) = Len(piece) /\ \A k \in 1 .. Len(d) : d[k] = piece[k]
      BY <2>3, <3>1, <3>3
    <3>. QED
      BY <3>2, <3>3, <3>4, SeqEqual
  <2>5. PlainBehind(line, b0) => \E r : Destuffed(line, b0, b0 + 8, d, r)
    BY <1>4, <1>7, <1>8, <1>11, <2>4, FirstBits
  <2>6. InFrame(new, line, from, b0, p + 1, d)
    BY <1>1, <1>2, <1>3, <1>4, <1>6, <1>8a, <2>5 DEF InFrame
  <2>. QED
    BY <1>11, <2>1, <2>6
<1>. QED
  BY <1>10, <1>11

\* The flags end somewhere.
LEMMA HeadType ==
  ASSUME NEW reg, NEW line, NEW from \in Nat, NEW b0, NEW p, NEW d,
         InFrame(reg, line, from, b0, p, d)
  PROVE  b0 \in Nat
BY DEF InFrame

\* What the next bit makes of the register, in DECODING.
LEMMA FrameBit ==
  ASSUME NEW reg \in Byte, NEW line \in Seq(Bit), NEW from \in Nat,
         NEW b0 \in Nat, NEW p \in Nat, p + 1 <= Len(line), NEW d,
         InFrame(reg, line, from, b0, p, d),
         NEW new, new = ShiftIn(reg, line[p + 1])
  PROVE  /\ Holds(new, line, p + 1, from)
         /\ line[p + 1] \in Bit
         /\ new = SyncFlag <=> FlagEndsAt(line, p + 1)
         /\ IsStuffed(new)
              <=> (\A k \in 1 .. 5 : line[(p + 1) - k] = 1) /\ line[p + 1] = 0
         /\ IsAbort(new) <=> \A k \in 0 .. 6 : line[(p + 1) - k] = 1
<1>1. /\ TailAt(line, from) /\ Holds(reg, line, p, from) /\ b0 + 8 <= p
      /\ \E flags \in Nat : b0 = from + 8 * flags
  BY DEF InFrame
<1>2. from + 8 <= p
  BY <1>1
<1>3. line[p + 1] \in Bit /\ new \in Byte
  <2>1. p + 1 \in 1 .. Len(line)
    BY LenProperties
  <2>2. line[p + 1] \in Bit
    BY <2>1, ElementOfSeq
  <2>. QED
    BY <2>2, ShiftInType
<1>4. Holds(new, line, p + 1, from)
  BY <1>1, <1>2, HoldsShift
<1>5. PICK e \in Nat : e = p + 1
  OBVIOUS
<1>6. from + 8 <= e /\ Holds(new, line, e, from)
  BY <1>2, <1>4, <1>5
<1>7. /\ new = SyncFlag <=> FlagEndsAt(line, e)
      /\ IsStuffed(new) <=> (\A k \in 1 .. 5 : line[e - k] = 1) /\ line[e] = 0
      /\ IsAbort(new) <=> \A k \in 0 .. 6 : line[e - k] = 1
  BY <1>3, <1>6, HoldsMeaning
<1>. QED
  BY <1>3, <1>4, <1>5, <1>7

\* DECODING: a data bit.
LEMMA FrameData ==
  ASSUME NEW reg \in Byte, NEW line \in Seq(Bit), NEW from \in Nat,
         NEW b0 \in Nat, NEW p \in Nat, p + 1 <= Len(line),
         NEW d \in Seq(Bit), InFrame(reg, line, from, b0, p, d),
         NEW new, new = ShiftIn(reg, line[p + 1]),
         ~ IsStuffed(new), ~ IsAbort(new)
  PROVE  InFrame(new, line, from, b0, p + 1, Append(d, line[p + 1]))
<1>1. /\ Holds(new, line, p + 1, from)
      /\ line[p + 1] \in Bit
      /\ ~ ((\A k \in 1 .. 5 : line[(p + 1) - k] = 1) /\ line[p + 1] = 0)
      /\ ~ \A k \in 0 .. 6 : line[(p + 1) - k] = 1
  BY FrameBit
<1>2. /\ TailAt(line, from) /\ b0 + 8 <= p /\ ~ FlagEndsAt(line, b0 + 8)
      /\ \E flags \in Nat : b0 = from + 8 * flags /\ IdleFlags(line, from, flags)
      /\ PlainBehind(line, b0) => \E r : Destuffed(line, b0, p, d, r)
  BY DEF InFrame
<1>3. b0 + 8 <= p + 1
  BY <1>2
<1>4. ASSUME PlainBehind(line, b0)
      PROVE  \E r : Destuffed(line, b0, p + 1, Append(d, line[p + 1]), r)
  <2>1. PICK r : Destuffed(line, b0, p, d, r)
    BY <1>2, <1>4
  <2>2. CASE line[p + 1] = 1
    <3>1. Destuffed(line, b0, p + 1, Append(d, 1), r + 1)
      BY <1>1, <2>1, <2>2, DestuffOne
    <3>. QED
      BY <2>2, <3>1
  <2>3. CASE line[p + 1] = 0
    <3>1. ~ \A k \in 1 .. 5 : line[(p + 1) - k] = 1
      BY <1>1, <2>3
    <3>2. Destuffed(line, b0, p + 1, Append(d, 0), 0)
      BY <2>1, <2>3, <3>1, DestuffZero
    <3>. QED
      BY <2>3, <3>2
  <2>. QED
    BY <1>1, <2>2, <2>3 DEF Bit
<1>5. PICK e : e = Append(d, line[p + 1])
  OBVIOUS
<1>6. InFrame(new, line, from, b0, p + 1, e)
  BY <1>1, <1>2, <1>3, <1>4, <1>5 DEF InFrame
<1>. QED
  BY <1>5, <1>6

\* DECODING: a stuffed bit.
LEMMA FrameStuffed ==
  ASSUME NEW reg \in Byte, NEW line \in Seq(Bit), NEW from \in Nat,
         NEW b0 \in Nat, NEW p \in Nat, p + 1 <= Len(line),
         NEW d \in Seq(Bit), InFrame(reg, line, from, b0, p, d),
         NEW new, new = ShiftIn(reg, line[p + 1]),
         new # SyncFlag, IsStuffed(new)
  PROVE  InFrame(new, line, from, b0, p + 1, d)
<1>1. /\ Holds(new, line, p + 1, from)
      /\ ~ FlagEndsAt(line, p + 1)
      /\ \A k \in 1 .. 5 : line[(p + 1) - k] = 1
      /\ line[p + 1] = 0
  BY FrameBit
<1>2. /\ TailAt(line, from) /\ b0 + 8 <= p /\ ~ FlagEndsAt(line, b0 + 8)
      /\ \E flags \in Nat : b0 = from + 8 * flags /\ IdleFlags(line, from, flags)
      /\ PlainBehind(line, b0) => \E r : Destuffed(line, b0, p, d, r)
  BY DEF InFrame
<1>3. b0 + 8 <= p + 1
  BY <1>2
<1>4. ASSUME PlainBehind(line, b0)
      PROVE  \E r : Destuffed(line, b0, p + 1, d, r)
  <2>1. PICK r : Destuffed(line, b0, p, d, r)
    BY <1>2, <1>4
  <2>2. Destuffed(line, b0, p + 1, d, 0)
    BY <1>1, <2>1, DestuffStuffed
  <2>. QED
    BY <2>2
<1>. QED
  BY <1>1, <1>2, <1>3, <1>4 DEF InFrame

\* The line bits behind b0 and before the flag that ends at p + 1 carry the
\* octets received, seven bits of the flag being in the data register.
LEMMA ClosedCarries ==
  ASSUME NEW line \in Seq(Bit), NEW b0 \in Nat, NEW p \in Nat, b0 + 8 <= p,
         p + 1 <= Len(line), NEW octets \in Seq(Byte), NEW dec \in Byte, NEW r,
         Destuffed(line, b0, p, DataOf(octets, dec, 7), r),
         FlagEndsAt(line, p + 1)
  PROVE  Carries(Piece(line, b0, p - 7), octets)
<1>1. PICK d : d = DataOf(octets, dec, 7)
  OBVIOUS
<1>2. PICK n \in Nat : n = 8 * Len(octets)
  BY LenProperties
<1>3. /\ d \in Seq(Bit) /\ Len(d) = n + 7
      /\ \A k \in 1 .. n : d[k] = BitsOf(octets)[k]
  <2>1. PICK m \in 0 .. 7 : m = 7
    OBVIOUS
  <2>2. /\ DataOf(octets, dec, m) \in Seq(Bit)
        /\ Len(DataOf(octets, dec, m)) = 8 * Len(octets) + m
        /\ \A k \in 1 .. 8 * Len(octets) + m :
             DataOf(octets, dec, m)[k] =
               IF k <= 8 * Len(octets) THEN BitsOf(octets)[k]
                 ELSE ByteBits(dec)[k - 8 * Len(octets) + 8 - m]
    BY DataProperties
  <2>3. \A k \in 1 .. n : k \in 1 .. n + m /\ k <= n
    BY <2>1
  <2>. QED
    BY <1>1, <1>2, <2>1, <2>2, <2>3
<1>4. BitsOf(octets) \in Seq(Bit) /\ Len(BitsOf(octets)) = n
  BY <1>2, BitsOfProperties
<1>5. Destuffed(line, b0, p, d, r)
  BY <1>1
<1>6. r = 6
  BY <1>3, <1>5, RunLength
<1>7. /\ line[p - 6] = 0
      /\ Stuffing(Prefix(d, n + 1)) = [out |-> Piece(line, b0, p - 6), ones |-> 0]
  <2>1. Len(d) - r = n + 1
    BY <1>3, <1>6
  <2>. QED
    BY <1>5, <1>6, <2>1 DEF Destuffed, Stuffed
<1>8. Prefix(d, n) = BitsOf(octets)
  <2>1. n <= Len(d) /\ d \in Seq(Bit)
    BY <1>3
  <2>2. PICK e : e = Prefix(d, n)
    OBVIOUS
  <2>4. e \in Seq(Bit) /\ Len(e) = n /\ \A k \in 1 .. n : e[k] = d[k]
    BY <2>1, <2>2, PrefixBits
  <2>5. e \in Seq(Bit) /\ Len(e) = Len(BitsOf(octets))
        /\ \A k \in 1 .. Len(e) : e[k] = BitsOf(octets)[k]
    BY <1>3, <1>4, <2>4
  <2>. QED
    BY <1>4, <2>2, <2>5, SeqEqual
<1>9. Prefix(d, n + 1) = Append(BitsOf(octets), d[n + 1]) /\ d[n + 1] \in Bit
  <2>1. n + 1 <= Len(d)
    BY <1>3
  <2>. QED
    BY <1>3, <1>8, <2>1, PrefixGrows
<1>10. PICK q \in Nat : q = p - 7
  OBVIOUS
<1>11. b0 <= q /\ q + 1 = p - 6 /\ q + 1 <= Len(line)
  BY <1>10, LenProperties
<1>12. /\ Piece(line, b0, q) \in Seq(Bit)
       /\ Piece(line, b0, p - 6) = Append(Piece(line, b0, q), 0)
  <2>1. /\ Piece(line, b0, q) \in Seq(Bit)
        /\ Piece(line, b0, q + 1) = Append(Piece(line, b0, q), line[q + 1])
    BY <1>11, PieceGrows
  <2>2. line[q + 1] = 0
    BY <1>7, <1>11
  <2>. QED
    BY <1>11, <2>1, <2>2
<1>13. CASE d[n + 1] = 1
  <2>1. PICK e : e = Prefix(d, n + 1)
    OBVIOUS
  <2>2. e = Append(BitsOf(octets), 1)
    BY <1>9, <1>13, <2>1
  <2>3. Stuffing(e).out = Piece(line, b0, p - 6)
    BY <1>7, <2>1
  <2>4. Stuff(Append(BitsOf(octets), 1)) = Append(Piece(line, b0, q), 0)
    BY <1>12, <2>2, <2>3 DEF Stuff
  <2>. QED
    BY <1>10, <2>4 DEF Carries
<1>14. CASE d[n + 1] = 0
  <2>1. 0 \in Bit
    BY DEF Bit
  <2>2. PICK before : before = Stuffing(BitsOf(octets))
    OBVIOUS
  <2>3. before.out \in Seq(Bit)
    BY <1>4, <2>2, StuffingType DEF StuffLine
  <2>4. Stuffing(Append(BitsOf(octets), 0)) = StuffStep(before, 0)
    BY <1>4, <2>1, <2>2, StuffingAppend
  <2>5. StuffStep(before, 0) = [out |-> Append(before.out, 0), ones |-> 0]
    BY DEF StuffStep
  <2>6. Append(before.out, 0) = Append(Piece(line, b0, q), 0)
    <3>1. PICK e : e = Prefix(d, n + 1)
      OBVIOUS
    <3>2. e = Append(BitsOf(octets), 0)
      BY <1>9, <1>14, <3>1
    <3>3. Stuffing(e).out = Piece(line, b0, p - 6)
      BY <1>7, <3>1
    <3>4. Stuffing(e).out = Append(before.out, 0)
      BY <2>4, <2>5, <3>2
    <3>. QED
      BY <1>12, <3>3, <3>4
  <2>7. before.out = Piece(line, b0, q)
    <3>1. PICK x \in Seq(Bit) : x = before.out
      BY <2>3
    <3>2. PICK y \in Seq(Bit) : y = Piece(line, b0, q)
      BY <1>12
    <3>3. Append(x, 0) = Append(y, 0)
      BY <2>6, <3>1, <3>2
    <3>4. x = y
      BY <2>1, <3>3, AppendInjective
    <3>. QED
      BY <3>1, <3>2, <3>4
  <2>. QED
    BY <1>10, <2>2, <2>7 DEF Carries, Stuff
<1>. QED
  BY <1>9, <1>13, <1>14 DEF Bit

\* The frame between the flag that ends at from and the one that ends at
\* end + 1, behind so many idle flags and no more.
FrameBetween(line, from, flags, end, octets) ==
  /\ IdleFlags(line, from, flags)
  /\ from + 8 * flags + 8 <= end
  /\ ~ FlagEndsAt(line, from + 8 * flags + 8)
  /\ PlainBehind(line, from + 8 * flags)
       => Carries(Piece(line, from + 8 * flags, end - 7), octets)

\* DECODING: a flag on the octet boundary closes the frame.
LEMMA FrameClosed ==
  ASSUME NEW reg \in Byte, NEW line \in Seq(Bit), NEW from \in Nat,
         NEW b0 \in Nat, NEW p \in Nat, p + 1 <= Len(line),
         NEW octets \in Seq(Byte), NEW dec \in Byte,
         InFrame(reg, line, from, b0, p, DataOf(octets, dec, 7)),
         ShiftIn(reg, line[p + 1]) = SyncFlag
  PROVE  /\ TailAt(line, from)
         /\ FlagEndsAt(line, p + 1)
         /\ \E flags \in Nat : FrameBetween(line, from, flags, p, octets)
<1>1. PICK d : d = DataOf(octets, dec, 7)
  OBVIOUS
<1>2. FlagEndsAt(line, p + 1)
  BY <1>1, FrameBit
<1>3. /\ TailAt(line, from) /\ b0 + 8 <= p /\ ~ FlagEndsAt(line, b0 + 8)
      /\ \E flags \in Nat : b0 = from + 8 * flags /\ IdleFlags(line, from, flags)
      /\ PlainBehind(line, b0) => \E r : Destuffed(line, b0, p, d, r)
  BY <1>1 DEF InFrame
<1>4. PICK flags \in Nat : b0 = from + 8 * flags /\ IdleFlags(line, from, flags)
  BY <1>3
<1>5. ASSUME PlainBehind(line, b0)
      PROVE  Carries(Piece(line, b0, p - 7), octets)
  <2>1. PICK r : Destuffed(line, b0, p, DataOf(octets, dec, 7), r)
    BY <1>1, <1>3, <1>5
  <2>. QED
    BY <1>2, <1>3, <2>1, ClosedCarries
<1>6. FrameBetween(line, from, flags, p, octets)
  BY <1>3, <1>4, <1>5 DEF FrameBetween
<1>. QED
  BY <1>2, <1>3, <1>6

-----------------------------------------------------------------------------
(* Error correction *)

\* Flipping a bit twice changes nothing.
LEMMA ToggleTwice ==
  ASSUME NEW byte \in Byte, NEW mask \in Masks
  PROVE  Toggle(Toggle(byte, mask), mask) = byte
<1>1. byte \in 0 .. 255
  BY DEF Byte
<1>2. CASE mask = 1
  BY <1>1, <1>2 DEF Toggle
<1>3. CASE mask = 2
  BY <1>1, <1>3 DEF Toggle
<1>4. CASE mask = 4
  BY <1>1, <1>4 DEF Toggle
<1>5. CASE mask = 8
  BY <1>1, <1>5 DEF Toggle
<1>6. CASE mask = 16
  BY <1>1, <1>6 DEF Toggle
<1>7. CASE mask = 32
  BY <1>1, <1>7 DEF Toggle
<1>8. CASE mask = 64
  BY <1>1, <1>8 DEF Toggle
<1>9. CASE mask = 128
  BY <1>1, <1>9 DEF Toggle
<1>. QED
  BY <1>2, <1>3, <1>4, <1>5, <1>6, <1>7, <1>8, <1>9 DEF Masks

\* What error_correction keeps is one flipped bit away from what it was given.
LEMMA CorrectionTried ==
  ASSUME NEW bytes \in Seq(Byte), Corrections(bytes) # {}
  PROVE  /\ ErrorCorrection
         /\ \E try \in Tries(FirstCorrection(bytes)) :
              Tried(FirstCorrection(bytes), try) = bytes
<1>1. PICK best \in Corrections(bytes) : FirstCorrection(bytes) = Tried(bytes, best)
  BY FirstCorrectionFound
<1>2. /\ ErrorCorrection /\ best \in Tries(bytes)
      /\ best[1] \in 1 .. Len(bytes) /\ best[2] \in Masks
  BY DEF Corrections, Tries
<1>3. PICK at \in 1 .. Len(bytes) : at = best[1]
  BY <1>2
<1>4. PICK mask \in Masks : mask = best[2]
  BY <1>2
<1>5. bytes[at] \in Byte
  BY ElementOfSeq
<1>6. PICK new \in Byte : new = Toggle(bytes[at], mask)
  BY <1>5, ToggleType
<1>7. PICK fixed : fixed = Tried(bytes, best)
  OBVIOUS
<1>8. /\ fixed \in Seq(Byte) /\ Len(fixed) = Len(bytes)
      /\ \A k \in 1 .. Len(bytes) : fixed[k] = IF k = at THEN new ELSE bytes[k]
  <2>1. fixed = [bytes EXCEPT ![at] = new]
    BY <1>3, <1>4, <1>6, <1>7 DEF Tried
  <2>2. fixed \in Seq(Byte) /\ Len(fixed) = Len(bytes)
    BY <2>1, ExceptSeq
  <2>3. \A k \in 1 .. Len(bytes) : fixed[k] = IF k = at THEN new ELSE bytes[k]
    <3>1. DOMAIN bytes = 1 .. Len(bytes)
      BY LenProperties
    <3>. QED
      BY <2>1, <3>1
  <2>. QED
    BY <2>2, <2>3
<1>9. PICK again : again = Tried(fixed, best)
  OBVIOUS
<1>10. Toggle(new, mask) = bytes[at]
  BY <1>5, <1>6, ToggleTwice
<1>11. /\ again \in Seq(Byte) /\ Len(again) = Len(fixed)
       /\ \A k \in 1 .. Len(bytes) :
            again[k] = IF k = at THEN Toggle(new, mask) ELSE fixed[k]
  <2>1. again = [fixed EXCEPT ![at] = Toggle(fixed[at], mask)]
    BY <1>3, <1>4, <1>9 DEF Tried
  <2>2. fixed[at] = new /\ at \in 1 .. Len(fixed)
    BY <1>8
  <2>3. Toggle(new, mask) \in Byte
    BY <1>5, <1>10
  <2>4. again = [fixed EXCEPT ![at] = Toggle(new, mask)]
    BY <2>1, <2>2
  <2>5. again \in Seq(Byte) /\ Len(again) = Len(fixed)
    BY <1>8, <2>2, <2>3, <2>4, ExceptSeq
  <2>6. \A k \in 1 .. Len(bytes) :
          again[k] = IF k = at THEN Toggle(new, mask) ELSE fixed[k]
    <3>1. DOMAIN fixed = 1 .. Len(bytes)
      BY <1>8, LenProperties
    <3>. QED
      BY <2>4, <3>1
  <2>. QED
    BY <2>5, <2>6
<1>12. again = bytes
  <2>1. Len(again) = Len(bytes)
    BY <1>8, <1>11
  <2>2. \A k \in 1 .. Len(again) : again[k] = bytes[k]
    BY <1>8, <1>10, <1>11, <2>1
  <2>. QED
    BY <1>11, <2>1, <2>2, SeqEqual
<1>13. best \in Tries(fixed)
  BY <1>2, <1>8 DEF Tries
<1>. QED
  BY <1>1, <1>2, <1>7, <1>9, <1>12, <1>13

-----------------------------------------------------------------------------
(* A line that goes on *)

\* The line has become longer.
Extends(more, line) ==
  /\ more \in Seq(Bit) /\ line \in Seq(Bit)
  /\ Len(line) <= Len(more)
  /\ \A k \in 1 .. Len(line) : more[k] = line[k]

LEMMA HoldsExtends ==
  ASSUME NEW more, NEW line, Extends(more, line), NEW reg, NEW p \in Nat,
         NEW z \in Nat, p <= Len(line), Holds(reg, line, p, z)
  PROVE  Holds(reg, more, p, z)
<1>1. ASSUME NEW j \in 1 .. 8
      PROVE  ByteBits(reg)[j] = IF p - 8 + j > z THEN more[p - 8 + j] ELSE 0
  <2>1. ByteBits(reg)[j] = IF p - 8 + j > z THEN line[p - 8 + j] ELSE 0
    BY DEF Holds
  <2>2. p - 8 + j > z => p - 8 + j \in 1 .. Len(line)
    BY LenProperties DEF Extends
  <2>. QED
    BY <2>1, <2>2 DEF Extends
<1>. QED
  BY <1>1 DEF Holds

LEMMA TailExtends ==
  ASSUME NEW more, NEW line, Extends(more, line), NEW p \in Nat, TailAt(line, p)
  PROVE  TailAt(more, p)
<1>1. Len(line) \in Nat /\ Len(more) \in Nat /\ p >= 7 /\ p <= Len(line)
  BY LenProperties DEF TailAt, Extends
<1>2. p \in 1 .. Len(line) /\ \A k \in 1 .. 6 : p - k \in 1 .. Len(line)
  BY <1>1
<1>3. p <= Len(more)
  BY <1>1 DEF Extends
<1>. QED
  BY <1>1, <1>2, <1>3 DEF TailAt, Extends

LEMMA FlagExtends ==
  ASSUME NEW more, NEW line, Extends(more, line), NEW p \in Nat,
         p >= 8, p <= Len(line), FlagEndsAt(line, p)
  PROVE  FlagEndsAt(more, p)
<1>1. /\ p \in 1 .. Len(line) /\ p - 7 \in 1 .. Len(line)
      /\ \A k \in 1 .. 6 : p - k \in 1 .. Len(line)
  BY LenProperties DEF Extends
<1>. QED
  BY <1>1 DEF FlagEndsAt, Extends

LEMMA NoFlagExtends ==
  ASSUME NEW more, NEW line, Extends(more, line), NEW b0 \in Nat,
         b0 + 8 <= Len(line), ~ FlagEndsAt(line, b0 + 8)
  PROVE  ~ FlagEndsAt(more, b0 + 8)
<1>1. PICK p \in Nat : p = b0 + 8
  OBVIOUS
<1>2. /\ p \in 1 .. Len(line) /\ p - 7 \in 1 .. Len(line)
      /\ \A k \in 1 .. 6 : p - k \in 1 .. Len(line)
  BY <1>1, LenProperties DEF Extends
<1>3. ~ FlagEndsAt(line, p)
  BY <1>1
<1>4. ~ FlagEndsAt(more, p)
  BY <1>2, <1>3 DEF FlagEndsAt, Extends
<1>. QED
  BY <1>1, <1>4

LEMMA IdleExtends ==
  ASSUME NEW more, NEW line, Extends(more, line), NEW from \in Nat, NEW flags \in Nat,
         from + 8 * flags <= Len(line), IdleFlags(line, from, flags)
  PROVE  IdleFlags(more, from, flags)
<1>1. \A k \in 1 .. 8 * flags : from + k \in 1 .. Len(line)
  BY LenProperties DEF Extends
<1>. QED
  BY <1>1 DEF IdleFlags, Extends

LEMMA PieceExtends ==
  ASSUME NEW more, NEW line, Extends(more, line), NEW from \in Nat, NEW to \in Nat,
         from <= to, to <= Len(line)
  PROVE  Piece(more, from, to) = Piece(line, from, to)
<1>1. PICK n \in Nat : n = to - from
  <2>1. to - from \in Nat
    OBVIOUS
  <2>. QED
    BY <2>1
<1>2. /\ to = from + n /\ from + n <= Len(line) /\ from + n <= Len(more)
      /\ line \in Seq(Bit) /\ more \in Seq(Bit)
      /\ Len(line) \in Nat
  BY <1>1, LenProperties DEF Extends
<1>3. PICK a : a = Piece(more, from, from + n)
  OBVIOUS
<1>4. PICK b : b = Piece(line, from, from + n)
  OBVIOUS
<1>5. a \in Seq(Bit) /\ Len(a) = n /\ \A k \in 1 .. n : a[k] = more[from + k]
  BY <1>2, <1>3, PieceBits
<1>6. b \in Seq(Bit) /\ Len(b) = n /\ \A k \in 1 .. n : b[k] = line[from + k]
  BY <1>2, <1>4, PieceBits
<1>7. \A k \in 1 .. n : more[from + k] = line[from + k]
  <2>1. \A k \in 1 .. n : from + k \in 1 .. Len(line)
    BY <1>2
  <2>. QED
    BY <2>1 DEF Extends
<1>8. Len(a) = Len(b) /\ \A k \in 1 .. Len(a) : a[k] = b[k]
  BY <1>5, <1>6, <1>7
<1>9. a = b
  BY <1>5, <1>6, <1>8, SeqEqual
<1>. QED
  BY <1>2, <1>3, <1>4, <1>9

LEMMA PlainExtends ==
  ASSUME NEW more, NEW line, Extends(more, line), NEW b0 \in Nat, b0 + 8 <= Len(line)
  PROVE  PlainBehind(more, b0) <=> PlainBehind(line, b0)
<1>1. \A k \in 1 .. 5 : b0 + k \in 1 .. Len(line) /\ b0 + 1 + k \in 1 .. Len(line)
  BY LenProperties DEF Extends
<1>. QED
  BY <1>1 DEF PlainBehind, Ones, Extends

LEMMA DestuffedExtends ==
  ASSUME NEW more, NEW line, Extends(more, line), NEW b0 \in Nat, b0 >= 1,
         NEW p \in Nat, p <= Len(line), NEW d, NEW r,
         Destuffed(line, b0, p, d, r)
  PROVE  Destuffed(more, b0, p, d, r)
<1>1. /\ r \in 0 .. 6 /\ r <= Len(d) /\ b0 + r <= p
      /\ line[p - r] = 0
      /\ Ones(line, p - r, r)
      /\ Ones(d, Len(d) - r, r)
      /\ Stuffed(d, Len(d) - r, line, b0, p - r, 0)
  BY DEF Destuffed
<1>2. PICK q \in Nat : q = p - r
  <2>1. p - r \in Nat
    BY <1>1
  <2>. QED
    BY <2>1
<1>3. /\ b0 <= q /\ q <= Len(line) /\ q \in 1 .. Len(line)
      /\ \A k \in 1 .. r : q + k \in 1 .. Len(line)
  BY <1>1, <1>2, LenProperties DEF Extends
<1>4. more[q] = 0 /\ Ones(more, q, r)
  BY <1>1, <1>2, <1>3 DEF Ones, Extends
<1>5. Piece(more, b0, q) = Piece(line, b0, q)
  BY <1>3, PieceExtends
<1>6. Stuffed(d, Len(d) - r, more, b0, q, 0)
  BY <1>1, <1>2, <1>5 DEF Stuffed
<1>. QED
  BY <1>1, <1>2, <1>4, <1>6 DEF Destuffed

\* What the decoder knows of the line stays true of the longer one.
LEMMA SearchingExtends ==
  ASSUME NEW more, NEW line, Extends(more, line), NEW reg, NEW p \in Nat,
         Searching(reg, line, p)
  PROVE  Searching(reg, more, p)
<1>1. p <= Len(line) /\ p <= Len(more)
  BY LenProperties DEF Searching, Extends
<1>2. PICK z \in Nat : z <= p /\ Holds(reg, line, p, z)
  BY DEF Searching
<1>3. Holds(reg, more, p, z)
  BY <1>1, <1>2, HoldsExtends
<1>. QED
  BY <1>1, <1>2, <1>3 DEF Searching

LEMMA AtFlagsExtends ==
  ASSUME NEW more, NEW line, Extends(more, line), NEW reg, NEW dec, NEW n \in Nat,
         NEW from \in Nat, NEW p \in Nat,
         AtFlags(reg, dec, n, line, from, p)
  PROVE  AtFlags(reg, dec, n, more, from, p)
<1>1. /\ p <= Len(line) /\ p <= Len(more) /\ TailAt(line, from)
      /\ Holds(reg, line, p, from) /\ dec = reg
      /\ Len(line) \in Nat
  BY LenProperties DEF AtFlags, Extends
<1>2. PICK flags \in Nat : p = from + 8 * flags + n /\ IdleFlags(line, from, flags)
  BY DEF AtFlags
<1>3. from + 8 * flags <= Len(line)
  BY <1>1, <1>2
<1>4. TailAt(more, from) /\ Holds(reg, more, p, from) /\ IdleFlags(more, from, flags)
  BY <1>1, <1>2, <1>3, TailExtends, HoldsExtends, IdleExtends
<1>. QED
  BY <1>1, <1>2, <1>4 DEF AtFlags

LEMMA InFrameExtends ==
  ASSUME NEW more, NEW line, Extends(more, line), NEW reg, NEW from \in Nat,
         NEW b0 \in Nat, NEW p \in Nat, NEW d, InFrame(reg, line, from, b0, p, d)
  PROVE  InFrame(reg, more, from, b0, p, d)
<1>1. /\ p <= Len(line) /\ p <= Len(more) /\ TailAt(line, from)
      /\ Holds(reg, line, p, from) /\ Len(line) \in Nat /\ b0 + 8 <= p
      /\ ~ FlagEndsAt(line, b0 + 8)
      /\ \E flags \in Nat : b0 = from + 8 * flags /\ IdleFlags(line, from, flags)
      /\ PlainBehind(line, b0) => \E r : Destuffed(line, b0, p, d, r)
  BY LenProperties DEF InFrame, Extends
<1>2. PICK flags \in Nat : b0 = from + 8 * flags /\ IdleFlags(line, from, flags)
  BY <1>1
<1>3. b0 + 8 <= Len(line) /\ from + 8 * flags <= Len(line) /\ b0 >= 1
  BY <1>1, <1>2 DEF TailAt
<1>4. TailAt(more, from) /\ Holds(reg, more, p, from) /\ IdleFlags(more, from, flags)
  BY <1>1, <1>2, <1>3, TailExtends, HoldsExtends, IdleExtends
<1>5. PlainBehind(more, b0) => \E r : Destuffed(more, b0, p, d, r)
  BY <1>1, <1>3, PlainExtends, DestuffedExtends
<1>6. ~ FlagEndsAt(more, b0 + 8)
  BY <1>1, <1>3, NoFlagExtends
<1>. QED
  BY <1>1, <1>2, <1>4, <1>5, <1>6 DEF InFrame

LEMMA BetweenExtends ==
  ASSUME NEW more, NEW line, Extends(more, line), NEW from \in Nat, from >= 1,
         NEW flags \in Nat, NEW end \in Nat, end <= Len(line), NEW octets,
         FrameBetween(line, from, flags, end, octets)
  PROVE  FrameBetween(more, from, flags, end, octets)
<1>1. PICK b0 \in Nat : b0 = from + 8 * flags
  OBVIOUS
<1>2. /\ IdleFlags(line, from, flags) /\ b0 + 8 <= end
      /\ ~ FlagEndsAt(line, b0 + 8)
      /\ PlainBehind(line, b0) => Carries(Piece(line, b0, end - 7), octets)
  BY <1>1 DEF FrameBetween
<1>3. /\ b0 + 8 <= Len(line) /\ from + 8 * flags <= Len(line)
      /\ end - 7 \in Nat /\ b0 <= end - 7 /\ end - 7 <= Len(line)
  BY <1>1, <1>2, LenProperties DEF Extends
<1>4. IdleFlags(more, from, flags)
  BY <1>2, <1>3, IdleExtends
<1>5. Piece(more, b0, end - 7) = Piece(line, b0, end - 7)
  BY <1>3, PieceExtends
<1>6. PlainBehind(more, b0) => Carries(Piece(more, b0, end - 7), octets)
  BY <1>2, <1>3, <1>5, PlainExtends
<1>7. ~ FlagEndsAt(more, b0 + 8)
  BY <1>2, <1>3, NoFlagExtends
<1>. QED
  BY <1>1, <1>2, <1>4, <1>6, <1>7 DEF FrameBetween

-----------------------------------------------------------------------------
(***************************************************************************)
(* The line invariant.  In every state of the decoder its registers, its   *)
(* counters and the octets it has collected say something of the line      *)
(* behind it: in NO_SYNC that the register holds the last line bits, in    *)
(* IN_SYNC that there are whole flags behind the marked one, in DECODING   *)
(* that the data bits collected are the line bits behind the last of these *)
(* flags, with the stuffed zeros taken out.                                *)
(***************************************************************************)

\* As many line bits the decoder has seen.
Seen ==
  nitemsRead + (IF pc = "scan" THEN i
                ELSE IF state = "NO_SYNC" THEN 0 ELSE startIdx)

LineInv ==
  /\ state = "NO_SYNC" => Searching(shiftReg, rx, Seen)
  /\ state = "IN_SYNC" =>
       AtFlags(shiftReg, decB, decodedBits, rx, frameStart + 1, Seen)
  /\ state = "DECODING" =>
       InFrame(shiftReg, rx, frameStart + 1, nitemsRead - 1, Seen,
               DataOf(frame, decB, decodedBits))

\* One corrected bit makes the first of the others.
IsMended(raw, octets) ==
  ErrorCorrection /\ \E try \in Tries(raw) : Tried(raw, try) = octets

\* The octets published are these, or one corrected bit away from them.
IsCarried(f, octets) ==
  f.raw = octets \/ (f.crcValid /\ IsMended(f.raw, octets))

\* What the line holds where a published frame says it was.
PublishedFrom(f, line) ==
  /\ TailAt(line, f.start + 1)
  /\ f.start + f.cnt + 1 <= Len(line)
  /\ FlagEndsAt(line, f.start + f.cnt + 1)
  /\ \E flags \in Nat, octets \in Seq(Byte) :
       /\ FrameBetween(line, f.start + 1, flags, f.start + f.cnt, octets)
       /\ IsCarried(f, octets)

OutInv == \A n \in 1 .. Len(out) : PublishedFrom(out[n], rx)

\* The bit that is read next is the one behind those seen.
LEMMA NextIsLine ==
  ASSUME IInv, pc = "scan"
  PROVE  /\ Seen \in Nat /\ Seen = nitemsRead + i /\ Seen <= Len(rx)
         /\ i < Len(bitstream) => /\ Seen + 1 <= Len(rx)
                                  /\ CurrentBit = rx[Seen + 1]
<1>1. /\ i \in Nat /\ nitemsRead \in Nat /\ rx \in Seq(Bit)
      /\ Len(bitstream) \in Nat /\ Len(rx) \in Nat
      /\ i <= Len(bitstream)
      /\ nitemsRead + Len(bitstream) = Len(rx)
      /\ bitstream = Drop(rx, nitemsRead)
  BY LenProperties DEF IInv, TypeOK, Cursors, NoBitLost
<1>2. Seen = nitemsRead + i /\ Seen \in Nat /\ Seen <= Len(rx)
  BY <1>1 DEF Seen
<1>3. ASSUME i < Len(bitstream)
      PROVE  Seen + 1 <= Len(rx) /\ CurrentBit = rx[Seen + 1]
  <2>1. nitemsRead \in 0 .. Len(rx) /\ i + 1 \in 1 .. Len(rx) - nitemsRead
    BY <1>1, <1>3
  <2>2. \A k \in 1 .. Len(rx) - nitemsRead : Drop(rx, nitemsRead)[k] = rx[k + nitemsRead]
    BY <1>1, <2>1, DropProperties
  <2>3. bitstream[i + 1] = rx[i + 1 + nitemsRead] /\ i + 1 + nitemsRead = Seen + 1
    BY <1>1, <1>2, <2>1, <2>2
  <2>4. Seen + 1 <= Len(rx)
    BY <1>1, <1>2, <1>3
  <2>. QED
    BY <2>3, <2>4 DEF CurrentBit
<1>. QED
  BY <1>2, <1>3

\* The decoder starts in it.
LEMMA InitLineInv == Init => LineInv /\ OutInv
<1>. SUFFICES ASSUME Init PROVE LineInv /\ OutInv
  OBVIOUS
<1>1. Seen = 0 /\ rx \in Seq(Bit) /\ Len(rx) = 0 /\ Len(out) = 0
  BY EmptySeq DEF Init, Seen
<1>2. Holds(0, rx, 0, 0)
  BY HoldsNothing
<1>3. Searching(0, rx, 0)
  BY <1>1, <1>2 DEF Searching
<1>4. LineInv
  BY <1>1, <1>3 DEF Init, LineInv
<1>5. OutInv
  BY <1>1 DEF OutInv
<1>. QED
  BY <1>4, <1>5

\* reset_state(): nothing is known any more but that nothing is.
LEMMA ClearedLine ==
  ASSUME IInv', state' = "NO_SYNC", shiftReg' = 0, pc' = "scan" => i' = 0
  PROVE  LineInv'
<1>1. /\ nitemsRead' \in Nat /\ Len(rx') \in Nat
      /\ nitemsRead' + Len(bitstream') = Len(rx') /\ Len(bitstream') \in Nat
  BY LenProperties DEF IInv, TypeOK, NoBitLost
<1>2. Seen' = nitemsRead' /\ nitemsRead' <= Len(rx')
  <2>1. PICK n \in Nat : n = nitemsRead'
    BY <1>1
  <2>2. n + 0 = n
    OBVIOUS
  <2>3. Seen' = n
    <3>1. Seen' = n + 0
      BY <2>1 DEF Seen
    <3>. QED
      BY <2>2, <3>1
  <2>4. nitemsRead' <= Len(rx')
    BY <1>1
  <2>. QED
    BY <2>1, <2>3, <2>4
<1>3. Holds(0, rx', nitemsRead', nitemsRead')
  BY <1>1, HoldsNothing
<1>4. Searching(0, rx', nitemsRead')
  BY <1>1, <1>2, <1>3 DEF Searching
<1>. QED
  BY <1>2, <1>4 DEF LineInv

LEMMA ClearingKeepsLine ==
  ASSUME IInv', Reset \/ MisalignedFlag \/ FrameEnd \/ InvalidBits \/ WrongSize
  PROVE  LineInv'
<1>1. state' = "NO_SYNC" /\ shiftReg' = 0
  BY DEF Reset, MisalignedFlag, FrameEnd, EnterFrameEnd, InvalidBits, WrongSize, ClearedTo
<1>2. pc' = "scan" => i' = 0
  BY DEF Reset, MisalignedFlag, FrameEnd, InvalidBits, WrongSize, Continue, Return
<1>. QED
  BY <1>1, <1>2, ClearedLine

\* What decode() is handed is appended to the line.
LEMMA DecodeExtends ==
  ASSUME IInv, NEW chunk \in Chunks, Decode(Line(chunk))
  PROVE  Extends(rx', rx)
<1>1. level \in Bit /\ prevBit = level /\ rx \in Seq(Bit) /\ chunk \in Seq(Bit)
  BY ConstantsAssumption DEF IInv, TypeOK, NoBitLost, ConstantsAssumption
<1>2. PICK in \in Seq(Bit) : in = Line(chunk)
  BY <1>1, LineType
<1>3. PICK new \in Seq(Bit) : new = Meaning(in)
  BY <1>1, <1>2, NrziMeaning
<1>4. rx' = rx \o new
  BY <1>2, <1>3 DEF Decode
<1>5. PICK more : more = rx'
  OBVIOUS
<1>6. /\ more \in Seq(Bit) /\ Len(more) = Len(rx) + Len(new)
      /\ \A k \in 1 .. Len(rx) + Len(new) :
           more[k] = IF k <= Len(rx) THEN rx[k] ELSE new[k - Len(rx)]
      /\ Len(rx) \in Nat /\ Len(new) \in Nat
  BY <1>1, <1>3, <1>4, <1>5, ConcatProperties, LenProperties
<1>7. Len(rx) <= Len(more) /\ \A k \in 1 .. Len(rx) : more[k] = rx[k]
  BY <1>6
<1>. QED
  BY <1>1, <1>5, <1>6, <1>7 DEF Extends

LEMMA DecodeKeepsLine ==
  ASSUME IInv, LineInv, NEW chunk \in Chunks, Decode(Line(chunk))
  PROVE  LineInv'
<1>1. Extends(rx', rx)
  BY DecodeExtends
<1>2. /\ pc = "idle" /\ pc' = "scan"
      /\ i' = IF state = "NO_SYNC" THEN 0 ELSE startIdx
      /\ UNCHANGED <<state, shiftReg, decB, decodedBits, frame, startIdx,
                     frameStart, nitemsRead>>
  BY DEF Decode, Continue
<1>3. /\ Seen \in Nat /\ frameStart + 1 \in Nat /\ decodedBits \in Nat
      /\ state \in States
  BY <1>2 DEF IInv, TypeOK, Seen
<1>4. Seen' = Seen
  BY <1>2 DEF Seen
<1>5. PICK more : more = rx'
  OBVIOUS
<1>6. CASE state = "NO_SYNC"
  <2>1. Searching(shiftReg, more, Seen)
    BY <1>1, <1>3, <1>5, <1>6, SearchingExtends DEF LineInv
  <2>. QED
    BY <1>2, <1>4, <1>5, <1>6, <2>1 DEF LineInv
<1>7. CASE state = "IN_SYNC"
  <2>1. AtFlags(shiftReg, decB, decodedBits, more, frameStart + 1, Seen)
    BY <1>1, <1>3, <1>5, <1>7, AtFlagsExtends DEF LineInv
  <2>. QED
    BY <1>2, <1>4, <1>5, <1>7, <2>1 DEF LineInv
<1>8. CASE state = "DECODING"
  <2>1. PICK d : d = DataOf(frame, decB, decodedBits)
    OBVIOUS
  <2>2. InFrame(shiftReg, rx, frameStart + 1, nitemsRead - 1, Seen, d)
    BY <1>8, <2>1 DEF LineInv
  <2>3. nitemsRead - 1 \in Nat
    BY <1>3, <2>2, HeadType
  <2>4. InFrame(shiftReg, more, frameStart + 1, nitemsRead - 1, Seen, d)
    BY <1>1, <1>3, <1>5, <2>2, <2>3, InFrameExtends
  <2>. QED
    BY <1>2, <1>4, <1>5, <1>8, <2>1, <2>4 DEF LineInv
<1>. QED
  BY <1>3, <1>6, <1>7, <1>8 DEF States

LEMMA NoSyncKeepsLine ==
  ASSUME IInv, LineInv, NoSyncBit \/ NoSyncFlag \/ NoSyncEnd
  PROVE  LineInv'
<1>1. state = "NO_SYNC" /\ pc = "scan" /\ rx' = rx
  BY DEF NoSyncBit, NoSyncFlag, NoSyncEnd, InScan, env
<1>2. /\ i \in Nat /\ nitemsRead \in Nat /\ rx \in Seq(Bit) /\ shiftReg \in Byte
      /\ Seen = nitemsRead + i
      /\ Searching(shiftReg, rx, Seen)
  BY <1>1, NextIsLine DEF IInv, TypeOK, LineInv
<1>3. PICK p \in Nat : p = Seen
  BY <1>1, NextIsLine
<1>4. CASE NoSyncBit
  <2>1. /\ p + 1 <= Len(rx) /\ NextReg = ShiftIn(shiftReg, rx[p + 1])
    BY <1>1, <1>3, <1>4, NextIsLine DEF NoSyncBit, NextReg
  <2>2. Searching(NextReg, rx, p + 1)
    BY <1>2, <1>3, <2>1, SearchingBit
  <2>3. Seen' = p + 1
    BY <1>1, <1>2, <1>3, <1>4 DEF NoSyncBit, Seen
  <2>. QED
    BY <1>1, <1>4, <2>2, <2>3 DEF NoSyncBit, LineInv
<1>5. CASE NoSyncFlag
  <2>1. /\ p + 1 <= Len(rx) /\ ShiftIn(shiftReg, rx[p + 1]) = SyncFlag
    BY <1>1, <1>3, <1>5, NextIsLine DEF NoSyncFlag, NextReg
  <2>2. AtFlags(0, 0, 0, rx, p + 1, p + 1)
    BY <1>2, <1>3, <2>1, SearchingFlag
  <2>3. Seen' = p + 1 /\ frameStart' + 1 = p + 1
    BY <1>1, <1>2, <1>3, <1>5 DEF NoSyncFlag, Continue, Consume, Seen
  <2>. QED
    BY <1>1, <1>5, <2>2, <2>3 DEF NoSyncFlag, ClearedTo, LineInv
<1>6. CASE NoSyncEnd
  <2>1. Seen' = p
    BY <1>1, <1>2, <1>3, <1>6 DEF NoSyncEnd, Return, Consume, Seen
  <2>. QED
    BY <1>1, <1>2, <1>3, <1>6, <2>1 DEF NoSyncEnd, LineInv
<1>. QED
  BY <1>4, <1>5, <1>6

LEMMA InSyncKeepsLine ==
  ASSUME IInv, LineInv, InSyncBit \/ InSyncData
  PROVE  LineInv'
<1>1. state = "IN_SYNC" /\ pc = "scan" /\ rx' = rx /\ frameStart' = frameStart
  BY DEF InSyncBit, InSyncData, InScan, env
<1>2. /\ i \in Nat /\ nitemsRead \in Nat /\ rx \in Seq(Bit) /\ shiftReg \in Byte
      /\ decodedBits \in 0 .. 7
      /\ Seen = nitemsRead + i
      /\ AtFlags(shiftReg, decB, decodedBits, rx, frameStart + 1, Seen)
  BY <1>1, NextIsLine DEF IInv, TypeOK, LineInv
<1>3. PICK p \in Nat : p = Seen
  BY <1>1, NextIsLine
<1>4. PICK from \in Nat : from = frameStart + 1
  BY DEF IInv, TypeOK
<1>5. /\ p + 1 <= Len(rx)
      /\ NextReg = ShiftIn(shiftReg, rx[p + 1])
      /\ NextDecB = ShiftIn(decB, rx[p + 1])
  BY <1>1, <1>3, NextIsLine DEF InSyncBit, InSyncData, NextReg, NextDecB
<1>6. AtFlags(shiftReg, decB, decodedBits, rx, from, p) /\ decB = shiftReg
  BY <1>2, <1>3, <1>4 DEF AtFlags
<1>7. CASE InSyncBit
  <2>1. decodedBits = 7 => ShiftIn(shiftReg, rx[p + 1]) = SyncFlag
    BY <1>5, <1>7 DEF InSyncBit
  <2>2. AtFlags(NextReg, NextDecB, (decodedBits + 1) % 8, rx, from, p + 1)
    BY <1>2, <1>5, <1>6, <2>1, FlagsBit
  <2>3. Seen' = p + 1
    BY <1>1, <1>2, <1>3, <1>7 DEF InSyncBit, Seen
  <2>4. /\ state' = "IN_SYNC" /\ shiftReg' = NextReg /\ decB' = NextDecB
        /\ decodedBits' = (decodedBits + 1) % 8
    BY <1>1, <1>7 DEF InSyncBit
  <2>. QED
    BY <1>1, <1>4, <2>2, <2>3, <2>4 DEF LineInv
<1>8. CASE InSyncData
  <2>1. decodedBits = 7 /\ NextReg # SyncFlag
    BY <1>8 DEF InSyncData
  <2>2. PICK new : new = NextReg
    OBVIOUS
  <2>3. pc' = "scan" /\ i' = 7 /\ nitemsRead' = nitemsRead + (i + 1 - 7)
    BY <1>8 DEF InSyncData, Continue, Consume
  <2>4. PICK b0 \in Nat : b0 = nitemsRead' - 1 /\ b0 + 7 = p
    <3>1. p = nitemsRead + i /\ p >= 7
      BY <1>2, <1>3, <1>4, <1>6, <2>1 DEF AtFlags
    <3>2. nitemsRead' - 1 = p - 7
      BY <1>2, <2>3, <3>1
    <3>. QED
      BY <3>1, <3>2
  <2>5. InFrame(new, rx, from, b0, p + 1,
                IF IsStuffed(new) THEN DataOf(<<>>, (2 * new) % 256, 7)
                                  ELSE DataOf(<<new>>, new, 0))
    BY <1>2, <1>5, <1>6, <2>1, <2>2, <2>4, FlagsData
  <2>6. Seen' = p + 1
    BY <1>2, <1>3, <2>3 DEF Seen
  <2>7. /\ state' = "DECODING" /\ shiftReg' = new /\ NextDecB = new
        /\ IF IsStuffed(new)
             THEN decB' = (2 * new) % 256 /\ decodedBits' = 7 /\ frame' = <<>>
             ELSE decB' = new /\ decodedBits' = 0 /\ frame' = <<new>>
    BY <1>5, <1>6, <1>8, <2>2 DEF InSyncData
  <2>8. DataOf(frame', decB', decodedBits')
          = IF IsStuffed(new) THEN DataOf(<<>>, (2 * new) % 256, 7)
                              ELSE DataOf(<<new>>, new, 0)
    BY <2>7
  <2>. QED
    BY <1>1, <1>4, <2>4, <2>5, <2>6, <2>7, <2>8 DEF LineInv
<1>. QED
  BY <1>7, <1>8

LEMMA OutOfBitsKeepsLine ==
  ASSUME IInv, LineInv, OutOfBits
  PROVE  LineInv'
<1>1. /\ state \in {"IN_SYNC", "DECODING"} /\ pc = "scan" /\ pc' = "idle"
      /\ startIdx' = i
      /\ UNCHANGED <<state, shiftReg, decB, decodedBits, frame, rx,
                     frameStart, nitemsRead>>
  BY DEF OutOfBits, Return, env
<1>2. Seen' = Seen
  BY <1>1 DEF Seen
<1>. QED
  BY <1>1, <1>2 DEF LineInv

LEMMA DecodingKeepsLine ==
  ASSUME IInv, LineInv, StuffedBit \/ DataBit
  PROVE  LineInv'
<1>1. /\ state = "DECODING" /\ state' = "DECODING" /\ pc = "scan" /\ pc' = "scan"
      /\ rx' = rx /\ frameStart' = frameStart /\ nitemsRead' = nitemsRead
      /\ i' = i + 1 /\ shiftReg' = NextReg
  BY DEF StuffedBit, DataBit, InScan, env
<1>2. /\ i \in Nat /\ nitemsRead \in Nat /\ rx \in Seq(Bit) /\ shiftReg \in Byte
      /\ decodedBits \in 0 .. 7 /\ frame \in Seq(Byte) /\ decB \in Byte
      /\ Seen = nitemsRead + i
      /\ InFrame(shiftReg, rx, frameStart + 1, nitemsRead - 1, Seen,
                 DataOf(frame, decB, decodedBits))
      /\ frameStart + 1 \in Nat
  BY <1>1, NextIsLine DEF IInv, TypeOK, LineInv
<1>3. PICK p \in Nat : p = Seen
  BY <1>1, NextIsLine
<1>4. PICK from \in Nat : from = frameStart + 1
  BY DEF IInv, TypeOK
<1>5. PICK b \in Bit : b = CurrentBit
  BY NextRegType DEF StuffedBit, DataBit, IInv
<1>6. /\ p + 1 <= Len(rx) /\ rx[p + 1] = b
      /\ NextReg = ShiftIn(shiftReg, rx[p + 1])
      /\ NextDecB = ShiftIn(decB, b)
  BY <1>1, <1>3, <1>5, NextIsLine DEF StuffedBit, DataBit, NextReg, NextDecB
<1>7. PICK new : new = NextReg
  OBVIOUS
<1>8. PICK d : d = DataOf(frame, decB, decodedBits)
  OBVIOUS
<1>9. d \in Seq(Bit)
  BY <1>2, <1>8, DataProperties
<1>10. PICK b0 \in Nat : b0 = nitemsRead - 1 /\ InFrame(shiftReg, rx, from, b0, p, d)
  BY <1>2, <1>3, <1>4, <1>8, HeadType
<1>11. Seen' = p + 1
  BY <1>1, <1>2, <1>3 DEF Seen
<1>12. CASE StuffedBit
  <2>1. new # SyncFlag /\ IsStuffed(new)
    BY <1>7, <1>12 DEF StuffedBit
  <2>2. InFrame(new, rx, from, b0, p + 1, d)
    BY <1>2, <1>6, <1>7, <1>9, <1>10, <2>1, FrameStuffed
  <2>3. frame' = frame /\ decodedBits' = decodedBits /\ decB' = (2 * NextDecB) % 256
    BY <1>12 DEF StuffedBit
  <2>4. DataOf(frame', decB', decodedBits') = d
    BY <1>2, <1>6, <1>8, <2>3, DataUp
  <2>. QED
    BY <1>1, <1>4, <1>7, <1>10, <1>11, <2>2, <2>4 DEF LineInv
<1>13. CASE DataBit
  <2>1. ~ IsStuffed(new) /\ ~ IsAbort(new)
    BY <1>7, <1>13 DEF DataBit, IsDataBit
  <2>2. InFrame(new, rx, from, b0, p + 1, Append(d, b))
    BY <1>2, <1>6, <1>7, <1>9, <1>10, <2>1, FrameData
  <2>3. /\ frame' = (IF decodedBits = 7 THEN Append(frame, NextDecB) ELSE frame)
        /\ decodedBits' = (decodedBits + 1) % 8 /\ decB' = NextDecB
    BY <1>13 DEF DataBit
  <2>4. DataOf(frame', decB', decodedBits') = Append(d, b)
    <3>1. (IF decodedBits = 7
             THEN DataOf(Append(frame, ShiftIn(decB, b)), ShiftIn(decB, b), 0)
             ELSE DataOf(frame, ShiftIn(decB, b), decodedBits + 1)) = Append(d, b)
      BY <1>2, <1>8, DataShift
    <3>2. CASE decodedBits = 7
      <4>1. decodedBits' = 0
        BY <2>3, <3>2
      <4>. QED
        BY <1>6, <2>3, <3>1, <3>2, <4>1
    <3>3. CASE decodedBits # 7
      <4>1. decodedBits' = decodedBits + 1
        BY <1>2, <2>3, <3>3
      <4>. QED
        BY <1>6, <2>3, <3>1, <3>3, <4>1
    <3>. QED
      BY <3>2, <3>3
  <2>. QED
    BY <1>1, <1>4, <1>7, <1>10, <1>11, <2>2, <2>4 DEF LineInv
<1>. QED
  BY <1>12, <1>13

LEMMA NextLineInv == IInv /\ IInv' /\ LineInv /\ [Next]_vars => LineInv'
<1>. SUFFICES ASSUME IInv, IInv', LineInv, [Next]_vars PROVE LineInv'
  OBVIOUS
<1>1. CASE \E chunk \in Chunks : Decode(Line(chunk))
  BY <1>1, DecodeKeepsLine
<1>2. CASE Reset \/ MisalignedFlag \/ FrameEnd \/ InvalidBits \/ WrongSize
  BY <1>2, ClearingKeepsLine
<1>3. CASE NoSyncBit \/ NoSyncFlag \/ NoSyncEnd
  BY <1>3, NoSyncKeepsLine
<1>4. CASE InSyncBit \/ InSyncData
  BY <1>4, InSyncKeepsLine
<1>5. CASE OutOfBits
  BY <1>5, OutOfBitsKeepsLine
<1>6. CASE StuffedBit \/ DataBit
  BY <1>6, DecodingKeepsLine
<1>7. CASE UNCHANGED vars
  BY <1>7 DEF vars, objectVars, env, LineInv, Seen
<1>. QED
  BY <1>1, <1>2, <1>3, <1>4, <1>5, <1>6, <1>7 DEF Next, Scan

\* What is published stays on a longer line.
LEMMA PublishedExtends ==
  ASSUME NEW more, NEW line, Extends(more, line), NEW f \in Pdus,
         PublishedFrom(f, line)
  PROVE  PublishedFrom(f, more)
<1>1. PICK from \in Nat : from = f.start + 1
  BY DEF Pdus
<1>2. PICK end \in Nat : end = f.start + f.cnt
  BY DEF Pdus
<1>3. PICK flags \in Nat, octets \in Seq(Byte) :
        FrameBetween(line, from, flags, end, octets) /\ IsCarried(f, octets)
  BY <1>1, <1>2 DEF PublishedFrom
<1>4. /\ TailAt(line, from) /\ end + 1 <= Len(line) /\ FlagEndsAt(line, end + 1)
      /\ Len(line) \in Nat /\ Len(more) \in Nat /\ Len(line) <= Len(more)
  <2>1. TailAt(line, from) /\ end + 1 <= Len(line) /\ FlagEndsAt(line, end + 1)
    BY <1>1, <1>2 DEF PublishedFrom
  <2>2. /\ line \in Seq(Bit) /\ more \in Seq(Bit) /\ Len(line) <= Len(more)
    BY DEF Extends
  <2>. QED
    BY <2>1, <2>2, LenProperties
<1>5. from + 8 * flags + 8 <= end /\ from >= 1 /\ end <= Len(line)
  <2>1. from + 8 * flags + 8 <= end
    BY <1>3 DEF FrameBetween
  <2>2. from >= 1
    BY <1>1 DEF Pdus
  <2>3. end <= Len(line)
    BY <1>4
  <2>. QED
    BY <2>1, <2>2, <2>3
<1>6. TailAt(more, from) /\ FrameBetween(more, from, flags, end, octets)
  BY <1>3, <1>4, <1>5, TailExtends, BetweenExtends
<1>7. FlagEndsAt(more, end + 1)
  <2>1. PICK p \in Nat : p = end + 1
    OBVIOUS
  <2>2. p >= 8 /\ p <= Len(line) /\ FlagEndsAt(line, p)
    BY <1>4, <1>5, <2>1
  <2>3. FlagEndsAt(more, p)
    BY <2>2, FlagExtends
  <2>. QED
    BY <2>1, <2>3
<1>8. end + 1 <= Len(more)
  BY <1>4
<1>. QED
  BY <1>1, <1>2, <1>3, <1>6, <1>7, <1>8 DEF PublishedFrom

\* What enter_frame_end publishes is what the line holds.
LEMMA FrameEndPublishes ==
  ASSUME IInv, LineInv, FrameEnd, out' # out
  PROVE  \E f \in Pdus : out' = Append(out, f) /\ PublishedFrom(f, rx)
<1>1. state = "DECODING" /\ pc = "scan" /\ decodedBits = 7 /\ NextReg = SyncFlag
      /\ i < Len(bitstream)
  BY DEF FrameEnd, InScan
<1>2. /\ rx \in Seq(Bit) /\ shiftReg \in Byte /\ frame \in Seq(Byte) /\ decB \in Byte
      /\ i \in Nat /\ nitemsRead \in Nat /\ frameStart \in Nat
      /\ frameStart <= nitemsRead
      /\ InFrame(shiftReg, rx, frameStart + 1, nitemsRead - 1, Seen,
                 DataOf(frame, decB, 7))
      /\ nitemsRead - 1 \in Nat
  <2>1. /\ rx \in Seq(Bit) /\ shiftReg \in Byte /\ frame \in Seq(Byte) /\ decB \in Byte
        /\ i \in Nat /\ nitemsRead \in Nat /\ frameStart \in Nat
        /\ frameStart <= nitemsRead /\ frameStart + 1 \in Nat
    BY <1>1 DEF IInv, TypeOK, FrameInProgress
  <2>2. InFrame(shiftReg, rx, frameStart + 1, nitemsRead - 1, Seen,
                DataOf(frame, decB, 7))
    BY <1>1 DEF LineInv
  <2>. QED
    BY <2>1, <2>2, HeadType
<1>3. PICK p \in Nat : p = Seen
  BY <1>1, NextIsLine
<1>4. p = nitemsRead + i /\ p + 1 <= Len(rx) /\ ShiftIn(shiftReg, rx[p + 1]) = SyncFlag
  BY <1>1, <1>3, NextIsLine DEF NextReg
<1>5. PICK from \in Nat : from = frameStart + 1
  BY <1>2
<1>6. /\ TailAt(rx, from) /\ FlagEndsAt(rx, p + 1)
      /\ \E flags \in Nat : FrameBetween(rx, from, flags, p, frame)
  BY <1>2, <1>3, <1>4, <1>5, FrameClosed
<1>7. ASSUME NEW bytes \in Seq(Byte), NEW valid \in BOOLEAN,
             bytes = frame \/ (valid /\ IsMended(bytes, frame))
      PROVE  Metadata(bytes, valid) \in Pdus /\ PublishedFrom(Metadata(bytes, valid), rx)
  <2>1. PICK f \in Pdus : /\ f = Metadata(bytes, valid)
                          /\ f.start = frameStart /\ f.start + f.cnt = p
                          /\ f.raw = bytes /\ f.crcValid = valid
    <3>1. /\ Metadata(bytes, valid) \in Pdus
          /\ Metadata(bytes, valid).start = frameStart
          /\ Metadata(bytes, valid).start + Metadata(bytes, valid).cnt = p
      BY <1>2, <1>4, MetadataType
    <3>2. Metadata(bytes, valid).raw = bytes /\ Metadata(bytes, valid).crcValid = valid
      BY DEF Metadata
    <3>. QED
      BY <3>1, <3>2
  <2>2. PICK flags \in Nat : FrameBetween(rx, from, flags, p, frame)
    BY <1>6
  <2>3. IsCarried(f, frame)
    BY <1>7, <2>1 DEF IsCarried
  <2>4. PublishedFrom(f, rx)
    BY <1>2, <1>4, <1>5, <1>6, <2>1, <2>2, <2>3 DEF PublishedFrom
  <2>. QED
    BY <2>1, <2>4
<1>9. CASE out' = Append(out, Metadata(frame, TRUE))
  BY <1>2, <1>7, <1>9
<1>10. CASE /\ Corrections(frame) # {}
            /\ out' = Append(out, Metadata(FirstCorrection(frame), TRUE))
  <2>1. FirstCorrection(frame) \in Seq(Byte)
    BY <1>2, <1>10, FirstCorrectionType
  <2>2. IsMended(FirstCorrection(frame), frame)
    BY <1>2, <1>10, CorrectionTried DEF IsMended
  <2>. QED
    BY <1>7, <1>10, <2>1, <2>2
<1>11. CASE out' = Append(out, Metadata(frame, FALSE))
  BY <1>2, <1>7, <1>11
<1>. QED
  BY <1>9, <1>10, <1>11 DEF FrameEnd, EnterFrameEnd, Publish

LEMMA NextOutInv == IInv /\ LineInv /\ OutInv /\ [Next]_vars => OutInv'
<1>. SUFFICES ASSUME IInv, LineInv, OutInv, [Next]_vars PROVE OutInv'
  OBVIOUS
<1>1. CASE \E chunk \in Chunks : Decode(Line(chunk))
  <2>1. PICK more : more = rx' /\ Extends(more, rx)
    BY <1>1, DecodeExtends
  <2>2. out' = out
    BY <1>1 DEF Decode
  <2>3. ASSUME NEW n \in 1 .. Len(out)
        PROVE  PublishedFrom(out[n], more)
    <3>1. out[n] \in Pdus
      BY ElementOfSeq DEF IInv, TypeOK
    <3>2. PublishedFrom(out[n], rx)
      BY DEF OutInv
    <3>. QED
      BY <2>1, <3>1, <3>2, PublishedExtends
  <2>. QED
    BY <2>1, <2>2, <2>3 DEF OutInv
<1>2. CASE Scan \/ Reset
  <2>1. rx' = rx
    BY <1>2, ScanOnlyAdvances
  <2>2. CASE out' = out
    BY <2>1, <2>2 DEF OutInv
  <2>3. CASE out' # out
    <3>1. FrameEnd
      BY <1>2, <2>3 DEF Reset, Scan, NoSyncBit, NoSyncFlag, NoSyncEnd, InSyncBit,
                        InSyncData, OutOfBits, MisalignedFlag, StuffedBit,
                        InvalidBits, DataBit, WrongSize
    <3>2. PICK f \in Pdus : out' = Append(out, f) /\ PublishedFrom(f, rx)
      BY <2>3, <3>1, FrameEndPublishes
    <3>3. out \in Seq(Pdus) /\ Len(out) \in Nat
      BY LenProperties DEF IInv, TypeOK
    <3>4. /\ Len(out') = Len(out) + 1
          /\ \A n \in 1 .. Len(out) : out'[n] = out[n]
          /\ out'[Len(out) + 1] = f
      BY <3>2, <3>3, AppendProperties
    <3>5. ASSUME NEW n \in 1 .. Len(out) + 1
          PROVE  PublishedFrom(out'[n], rx)
      <4>1. CASE n \in 1 .. Len(out)
        BY <3>4, <4>1 DEF OutInv
      <4>2. CASE n = Len(out) + 1
        BY <3>2, <3>4, <4>2
      <4>. QED
        BY <3>3, <4>1, <4>2
    <3>. QED
      BY <2>1, <3>4, <3>5 DEF OutInv
  <2>. QED
    BY <2>2, <2>3
<1>3. CASE UNCHANGED vars
  BY <1>3 DEF vars, objectVars, env, OutInv
<1>. QED
  BY <1>1, <1>2, <1>3 DEF Next

-----------------------------------------------------------------------------
(* From the line invariant to the property *)

\* The flag and its tail, bit by bit.
LEMMA FlagBits ==
  /\ Flag \in Seq(Bit) /\ Len(Flag) = 8
  /\ Flag[1] = 0 /\ Flag[2] = 1 /\ Flag[3] = 1 /\ Flag[4] = 1
  /\ Flag[5] = 1 /\ Flag[6] = 1 /\ Flag[7] = 1 /\ Flag[8] = 0
  /\ FlagTail \in Seq(Bit) /\ Len(FlagTail) = 7
  /\ FlagTail[1] = 1 /\ FlagTail[2] = 1 /\ FlagTail[3] = 1 /\ FlagTail[4] = 1
  /\ FlagTail[5] = 1 /\ FlagTail[6] = 1 /\ FlagTail[7] = 0
<1>1. 0 \in Bit /\ 1 \in Bit
  BY DEF Bit
<1>2. /\ Len(Flag) = 8
      /\ Flag[1] = 0 /\ Flag[2] = 1 /\ Flag[3] = 1 /\ Flag[4] = 1
      /\ Flag[5] = 1 /\ Flag[6] = 1 /\ Flag[7] = 1 /\ Flag[8] = 0
  BY DEF Flag
<1>3. Flag \in Seq(Bit)
  <2>. HIDE DEF Bit
  <2>. QED
    BY <1>1 DEF Flag
<1>4. PICK f : f = Flag
  OBVIOUS
<1>5. PICK t : t = Tail(f)
  OBVIOUS
<1>6. f \in Seq(Bit) /\ Len(f) = 8
  BY <1>2, <1>3, <1>4
<1>7. t \in Seq(Bit) /\ Len(t) = 7 /\ \A k \in 1 .. 7 : t[k] = f[k + 1]
  <2>1. f # <<>>
    BY <1>6, EmptySeq
  <2>2. /\ t \in Seq(Bit) /\ Len(t) = Len(f) - 1
        /\ \A k \in 1 .. Len(t) : t[k] = f[k + 1]
    BY <1>5, <1>6, <2>1, HeadTailProperties
  <2>3. Len(t) = 7
    BY <1>6, <2>2
  <2>. QED
    BY <2>2, <2>3
<1>8. /\ t[1] = f[2] /\ t[2] = f[3] /\ t[3] = f[4] /\ t[4] = f[5]
      /\ t[5] = f[6] /\ t[6] = f[7] /\ t[7] = f[8]
  <2>1. /\ 1 \in 1 .. 7 /\ 2 \in 1 .. 7 /\ 3 \in 1 .. 7 /\ 4 \in 1 .. 7
        /\ 5 \in 1 .. 7 /\ 6 \in 1 .. 7 /\ 7 \in 1 .. 7
    OBVIOUS
  <2>. QED
    BY <1>7, <2>1
<1>9. /\ t[1] = 1 /\ t[2] = 1 /\ t[3] = 1 /\ t[4] = 1
      /\ t[5] = 1 /\ t[6] = 1 /\ t[7] = 0
  BY <1>2, <1>4, <1>8
<1>10. t = FlagTail
  BY <1>4, <1>5 DEF FlagTail
<1>. QED
  BY <1>2, <1>3, <1>7, <1>9, <1>10

LEMMA UpToTail ==
  ASSUME rx \in Seq(Bit), NEW p \in Nat, TailAt(rx, p)
  PROVE  UpTo(p, FlagTail)
<1>1. p >= 7 /\ p <= Len(rx) /\ rx[p] = 0 /\ \A k \in 1 .. 6 : rx[p - k] = 1
  BY DEF TailAt
<1>2. PICK from \in Nat : from = p - 7
  <2>1. p - 7 \in Nat
    BY <1>1
  <2>. QED
    BY <2>1
<1>3. PICK t \in Seq(Bit) :
        /\ t = FlagTail /\ Len(t) = 7
        /\ t[1] = 1 /\ t[2] = 1 /\ t[3] = 1 /\ t[4] = 1
        /\ t[5] = 1 /\ t[6] = 1 /\ t[7] = 0
  BY FlagBits
<1>4. PICK s : s = Piece(rx, from, from + 7)
  OBVIOUS
<1>5. s \in Seq(Bit) /\ Len(s) = 7 /\ \A k \in 1 .. 7 : s[k] = rx[from + k]
  <2>1. PICK n \in Nat : n = 7
    OBVIOUS
  <2>2. from + n <= Len(rx)
    BY <1>1, <1>2, <2>1
  <2>. QED
    BY <1>4, <2>1, <2>2, PieceBits
<1>6. ASSUME NEW k \in 1 .. 7
      PROVE  s[k] = t[k]
  <2>1. CASE k = 7
    <3>1. from + 7 = p
      BY <1>2
    <3>. QED
      BY <1>1, <1>3, <1>5, <2>1, <3>1
  <2>2. CASE k # 7
    <3>1. 7 - k \in 1 .. 6 /\ from + k = p - (7 - k)
      BY <1>2, <2>2
    <3>2. s[k] = 1
      BY <1>1, <1>5, <3>1
    <3>3. k = 1 \/ k = 2 \/ k = 3 \/ k = 4 \/ k = 5 \/ k = 6
      BY <2>2
    <3>. QED
      BY <1>3, <3>2, <3>3
  <2>. QED
    BY <2>1, <2>2
<1>7. Len(s) = Len(t) /\ \A k \in 1 .. Len(s) : s[k] = t[k]
  BY <1>3, <1>5, <1>6
<1>8. s = t
  BY <1>5, <1>7, SeqEqual
<1>9. SubSeq(rx, p - 7 + 1, p) = t
  <2>1. p - 7 + 1 = from + 1 /\ from + 7 = p
    BY <1>2
  <2>. QED
    BY <1>4, <1>8, <2>1 DEF Piece
<1>10. p \in 7 .. Len(rx)
  BY <1>1, LenProperties
<1>. QED
  BY <1>3, <1>9, <1>10 DEF UpTo

\* The flags of the line are where eight bits of it are those of one.
LEMMA FlagsAre ==
  ASSUME NEW line \in Seq(Bit), NEW from \in Nat, from + 8 <= Len(line)
  PROVE  from + 1 \in FlagsIn(line) <=> FlagEndsAt(line, from + 8)
<1>1. PICK e \in Nat : e = from + 8
  OBVIOUS
<1>2. PICK s : s = Piece(line, from, from + 8)
  OBVIOUS
<1>3. s \in Seq(Bit) /\ Len(s) = 8 /\ \A k \in 1 .. 8 : s[k] = line[from + k]
  <2>1. PICK n \in Nat : n = 8
    OBVIOUS
  <2>2. from + n <= Len(line)
    BY <2>1
  <2>3. /\ Piece(line, from, from + n) \in Seq(Bit) /\ Len(Piece(line, from, from + n)) = n
        /\ \A k \in 1 .. n : Piece(line, from, from + n)[k] = line[from + k]
    BY <2>2, PieceBits
  <2>. QED
    BY <1>2, <2>1, <2>3
<1>4. PICK t \in Seq(Bit) :
        /\ t = Flag /\ Len(t) = 8
        /\ t[1] = 0 /\ t[2] = 1 /\ t[3] = 1 /\ t[4] = 1
        /\ t[5] = 1 /\ t[6] = 1 /\ t[7] = 1 /\ t[8] = 0
  BY FlagBits
<1>5. /\ s[1] = line[e - 7] /\ s[2] = line[e - 6] /\ s[3] = line[e - 5]
      /\ s[4] = line[e - 4] /\ s[5] = line[e - 3] /\ s[6] = line[e - 2]
      /\ s[7] = line[e - 1] /\ s[8] = line[e]
  <2>1. /\ from + 1 = e - 7 /\ from + 2 = e - 6 /\ from + 3 = e - 5 /\ from + 4 = e - 4
        /\ from + 5 = e - 3 /\ from + 6 = e - 2 /\ from + 7 = e - 1 /\ from + 8 = e
    BY <1>1
  <2>2. /\ s[1] = line[from + 1] /\ s[2] = line[from + 2] /\ s[3] = line[from + 3]
        /\ s[4] = line[from + 4] /\ s[5] = line[from + 5] /\ s[6] = line[from + 6]
        /\ s[7] = line[from + 7] /\ s[8] = line[from + 8]
    BY <1>3
  <2>. QED
    BY <2>1, <2>2
<1>6. FlagEndsAt(line, e)
        <=> /\ s[1] = 0 /\ s[2] = 1 /\ s[3] = 1 /\ s[4] = 1
            /\ s[5] = 1 /\ s[6] = 1 /\ s[7] = 1 /\ s[8] = 0
  <2>1. (\A k \in 1 .. 6 : line[e - k] = 1)
          <=> /\ line[e - 1] = 1 /\ line[e - 2] = 1 /\ line[e - 3] = 1
              /\ line[e - 4] = 1 /\ line[e - 5] = 1 /\ line[e - 6] = 1
    <3>1. 1 .. 6 = {1, 2, 3, 4, 5, 6}
      OBVIOUS
    <3>. QED
      BY <3>1
  <2>. QED
    BY <1>5, <2>1 DEF FlagEndsAt
<1>7. s = t <=> /\ s[1] = 0 /\ s[2] = 1 /\ s[3] = 1 /\ s[4] = 1
                /\ s[5] = 1 /\ s[6] = 1 /\ s[7] = 1 /\ s[8] = 0
  <2>1. ASSUME s[1] = 0 /\ s[2] = 1 /\ s[3] = 1 /\ s[4] = 1
               /\ s[5] = 1 /\ s[6] = 1 /\ s[7] = 1 /\ s[8] = 0
        PROVE  s = t
    <3>1. \A k \in 1 .. 8 : k = 1 \/ k = 2 \/ k = 3 \/ k = 4 \/ k = 5 \/ k = 6 \/ k = 7 \/ k = 8
      OBVIOUS
    <3>2. \A k \in 1 .. 8 : s[k] = t[k]
      BY <1>4, <2>1, <3>1
    <3>3. s \in Seq(Bit) /\ Len(s) = Len(t) /\ \A k \in 1 .. Len(s) : s[k] = t[k]
      BY <1>3, <1>4, <3>2
    <3>. QED
      BY <3>3, SeqEqual
  <2>. QED
    BY <1>4, <2>1
<1>8. from + 1 \in FlagsIn(line) <=> s = t
  <2>1. from + 1 \in 1 .. Len(line) - 7 /\ (from + 1) + 7 = from + 8
    BY LenProperties
  <2>2. SubSeq(line, from + 1, (from + 1) + 7) = s
    BY <1>2, <2>1 DEF Piece
  <2>. QED
    BY <1>4, <2>1, <2>2 DEF FlagsIn
<1>. QED
  BY <1>1, <1>6, <1>7, <1>8

LEMMA UpToFlag ==
  ASSUME rx \in Seq(Bit), NEW p \in Nat, p >= 8, p <= Len(rx), FlagEndsAt(rx, p)
  PROVE  UpTo(p, Flag)
<1>1. PICK from \in Nat : from = p - 8
  <2>1. p - 8 \in Nat
    OBVIOUS
  <2>. QED
    BY <2>1
<1>2. from + 8 = p /\ p - 8 + 1 = from + 1 /\ (from + 1) + 7 = p
  BY <1>1
<1>3. from + 1 \in FlagsIn(rx)
  BY <1>2, FlagsAre
<1>4. SubSeq(rx, p - 8 + 1, p) = Flag
  BY <1>2, <1>3 DEF FlagsIn
<1>5. p \in 8 .. Len(rx)
  BY LenProperties
<1>. QED
  BY <1>4, <1>5, FlagBits DEF UpTo

\* A piece of a piece.
LEMMA PieceOfPiece ==
  ASSUME NEW line \in Seq(Bit), NEW from \in Nat, NEW m \in Nat, NEW to \in Nat,
         from + m <= to, to <= Len(line)
  PROVE  Piece(Piece(line, from, to), m, to - from) = Piece(line, from + m, to)
<1>1. PICK n \in Nat : n = to - from
  <2>1. to - from \in Nat
    OBVIOUS
  <2>. QED
    BY <2>1
<1>2. PICK l \in Nat : l = n - m
  <2>1. n - m \in Nat
    BY <1>1
  <2>. QED
    BY <2>1
<1>3. /\ from + n = to /\ m + l = n /\ (from + m) + l = to
      /\ from + n <= Len(line) /\ (from + m) + l <= Len(line) /\ from + m \in Nat
  BY <1>1, <1>2
<1>4. PICK a : a = Piece(line, from, from + n)
  OBVIOUS
<1>5. a \in Seq(Bit) /\ Len(a) = n /\ \A k \in 1 .. n : a[k] = line[from + k]
  BY <1>3, <1>4, PieceBits
<1>6. PICK b : b = Piece(a, m, m + l)
  OBVIOUS
<1>7. b \in Seq(Bit) /\ Len(b) = l /\ \A k \in 1 .. l : b[k] = a[m + k]
  <2>1. a \in Seq(Bit) /\ m + l <= Len(a)
    BY <1>3, <1>5
  <2>2. /\ Piece(a, m, m + l) \in Seq(Bit) /\ Len(Piece(a, m, m + l)) = l
        /\ \A k \in 1 .. l : Piece(a, m, m + l)[k] = a[m + k]
    BY <2>1, PieceBits
  <2>. QED
    BY <1>6, <2>2
<1>8. PICK c : c = Piece(line, from + m, (from + m) + l)
  OBVIOUS
<1>9. c \in Seq(Bit) /\ Len(c) = l /\ \A k \in 1 .. l : c[k] = line[(from + m) + k]
  <2>1. PICK x \in Nat : x = from + m
    OBVIOUS
  <2>2. x + l <= Len(line)
    BY <1>3, <2>1
  <2>3. /\ Piece(line, x, x + l) \in Seq(Bit) /\ Len(Piece(line, x, x + l)) = l
        /\ \A k \in 1 .. l : Piece(line, x, x + l)[k] = line[x + k]
    BY <2>2, PieceBits
  <2>. QED
    BY <1>8, <2>1, <2>3
<1>10. ASSUME NEW k \in 1 .. l
       PROVE  b[k] = c[k]
  <2>1. m + k \in 1 .. n /\ from + (m + k) = (from + m) + k
    BY <1>2
  <2>2. b[k] = a[m + k] /\ c[k] = line[(from + m) + k]
    BY <1>7, <1>9
  <2>3. a[m + k] = line[from + (m + k)]
    BY <1>5, <2>1
  <2>. QED
    BY <2>1, <2>2, <2>3
<1>11. Len(b) = Len(c) /\ \A k \in 1 .. Len(b) : b[k] = c[k]
  BY <1>7, <1>9, <1>10
<1>12. b = c
  BY <1>7, <1>9, <1>11, SeqEqual
<1>. QED
  BY <1>1, <1>3, <1>4, <1>6, <1>8, <1>12

\* A first line octet without five ones before its eighth bit.
LEMMA PlainOctet ==
  ASSUME NEW line \in Seq(Bit), NEW b0 \in Nat, NEW to \in Nat, b0 <= to,
         to <= Len(line), FirstOctetPlain(Piece(line, b0, to))
  PROVE  PlainBehind(line, b0)
<1>1. PICK n \in Nat : n = to - b0
  <2>1. to - b0 \in Nat
    OBVIOUS
  <2>. QED
    BY <2>1
<1>2. PICK body : body = Piece(line, b0, to)
  OBVIOUS
<1>3. body \in Seq(Bit) /\ Len(body) = n /\ \A k \in 1 .. n : body[k] = line[b0 + k]
  <2>1. b0 + n = to /\ b0 + n <= Len(line)
    BY <1>1
  <2>. QED
    BY <1>2, <2>1, PieceBits
<1>4. n >= 8 /\ \A m \in 1 .. 2 : SubSeq(body, m, m + 4) # <<1, 1, 1, 1, 1>>
  BY <1>2, <1>3 DEF FirstOctetPlain
<1>5. ASSUME NEW m \in 1 .. 2
      PROVE  ~ Ones(line, b0 + m - 1, 5)
  <2>. SUFFICES ASSUME Ones(line, b0 + m - 1, 5) PROVE FALSE
    OBVIOUS
  <2>1. PICK a \in Nat : a = m - 1
    <3>1. m - 1 \in Nat
      OBVIOUS
    <3>. QED
      BY <3>1
  <2>2. \A k \in 1 .. 5 : line[(b0 + m - 1) + k] = 1
    BY DEF Ones
  <2>3. PICK s : s = Piece(body, a, a + 5)
    OBVIOUS
  <2>4. s \in Seq(Bit) /\ Len(s) = 5 /\ \A k \in 1 .. 5 : s[k] = body[a + k]
    <3>1. PICK f \in Nat : f = 5
      OBVIOUS
    <3>2. a + f <= Len(body) /\ body \in Seq(Bit)
      BY <1>3, <1>4, <2>1, <3>1
    <3>3. /\ Piece(body, a, a + f) \in Seq(Bit) /\ Len(Piece(body, a, a + f)) = f
          /\ \A k \in 1 .. f : Piece(body, a, a + f)[k] = body[a + k]
      BY <3>2, PieceBits
    <3>. QED
      BY <2>3, <3>1, <3>3
  <2>5. ASSUME NEW k \in 1 .. 5
        PROVE  s[k] = 1
    <3>1. a + k \in 1 .. n /\ b0 + (a + k) = (b0 + m - 1) + k
      BY <1>4, <2>1
    <3>. QED
      BY <1>3, <2>2, <2>4, <3>1
  <2>6. s = <<1, 1, 1, 1, 1>>
    <3>1. /\ 1 \in 1 .. 5 /\ 2 \in 1 .. 5 /\ 3 \in 1 .. 5 /\ 4 \in 1 .. 5 /\ 5 \in 1 .. 5
      OBVIOUS
    <3>2. PICK ones : ones = <<1, 1, 1, 1, 1>>
      OBVIOUS
    <3>3. /\ ones \in Seq(Bit) /\ Len(ones) = 5 /\ ones[1] = 1 /\ ones[2] = 1
          /\ ones[3] = 1 /\ ones[4] = 1 /\ ones[5] = 1
      <4>1. 1 \in Bit
        BY DEF Bit
      <4>. HIDE DEF Bit
      <4>. QED
        BY <3>2, <4>1
    <3>4. \A k \in 1 .. 5 : ones[k] = 1
      <4>1. \A k \in 1 .. 5 : k = 1 \/ k = 2 \/ k = 3 \/ k = 4 \/ k = 5
        OBVIOUS
      <4>. QED
        BY <3>3, <4>1
    <3>5. Len(s) = Len(ones) /\ \A k \in 1 .. Len(s) : s[k] = ones[k]
      BY <2>4, <2>5, <3>3, <3>4
    <3>. QED
      BY <2>4, <3>2, <3>3, <3>5, SeqEqual
  <2>7. SubSeq(body, m, m + 4) = s
    <3>1. a + 1 = m /\ a + 5 = m + 4
      BY <2>1
    <3>. QED
      BY <2>3, <3>1 DEF Piece
  <2>. QED
    BY <1>4, <2>6, <2>7
<1>6. ~ Ones(line, b0, 5) /\ ~ Ones(line, b0 + 1, 5)
  <2>1. 1 \in 1 .. 2 /\ 2 \in 1 .. 2 /\ b0 + 1 - 1 = b0 /\ b0 + 2 - 1 = b0 + 1
    OBVIOUS
  <2>2. ~ Ones(line, b0 + 1 - 1, 5) /\ ~ Ones(line, b0 + 2 - 1, 5)
    BY <1>5, <2>1
  <2>. QED
    BY <2>1, <2>2
<1>. QED
  BY <1>6 DEF PlainBehind

\* A frame published from the line is faithful to it.
LEMMA FaithfulOut == IInv /\ OutInv => FrameFaithful
<1>. SUFFICES ASSUME IInv, OutInv PROVE FrameFaithful
  OBVIOUS
<1>. SUFFICES ASSUME NEW n \in 1 .. Len(out)
              PROVE  LET f == out[n]
                         end == f.start + f.cnt
                         body(flags) == SubSeq(BodyOf(f), 8 * flags + 1, Len(BodyOf(f)))
                     IN  /\ UpTo(f.start + 1, FlagTail)
                         /\ UpTo(end + 1, Flag)
                         /\ \E flags \in 0 .. Len(BodyOf(f)) \div 8 :
                              /\ IdleFrom(f.start + 1, flags)
                              /\ ~ IdleFrom(f.start + 1, flags + 1)
                              /\ FirstOctetPlain(body(flags))
                                   => CarriedBy(f, body(flags))
  BY DEF FrameFaithful
<1>1. PICK f \in Pdus : f = out[n]
  BY ElementOfSeq DEF IInv, TypeOK
<1>2. rx \in Seq(Bit) /\ Len(rx) \in Nat /\ PublishedFrom(f, rx)
  BY <1>1, LenProperties DEF IInv, TypeOK, OutInv
<1>3. PICK from \in Nat : from = f.start + 1
  BY DEF Pdus
<1>4. PICK end \in Nat : end = f.start + f.cnt
  BY DEF Pdus
<1>5. PICK flags \in Nat, octets \in Seq(Byte) :
        FrameBetween(rx, from, flags, end, octets) /\ IsCarried(f, octets)
  BY <1>2, <1>3, <1>4 DEF PublishedFrom
<1>6. TailAt(rx, from) /\ end + 1 <= Len(rx) /\ FlagEndsAt(rx, end + 1)
  BY <1>2, <1>3, <1>4 DEF PublishedFrom
<1>7. PICK b0 \in Nat : b0 = from + 8 * flags
  OBVIOUS
<1>8. /\ IdleFlags(rx, from, flags) /\ b0 + 8 <= end
      /\ ~ FlagEndsAt(rx, b0 + 8)
      /\ PlainBehind(rx, b0) => Carries(Piece(rx, b0, end - 7), octets)
  BY <1>5, <1>7 DEF FrameBetween
<1>9. PICK to \in Nat : to = end - 7
  <2>1. end - 7 \in Nat
    BY <1>8
  <2>. QED
    BY <2>1
<1>10. UpTo(f.start + 1, FlagTail)
  BY <1>2, <1>3, <1>6, UpToTail
<1>11. UpTo(end + 1, Flag)
  <2>1. end + 1 \in Nat /\ end + 1 >= 8
    BY <1>8
  <2>. QED
    BY <1>2, <1>6, <2>1, UpToFlag
<1>12. PICK whole : whole = BodyOf(f)
  OBVIOUS
<1>13. whole = Piece(rx, from, to)
  <2>1. PICK s \in Nat, c \in Nat : s = f.start /\ c = f.cnt
    BY DEF Pdus
  <2>2. from = s + 1 /\ to = s + c - 7
    <3>1. from = s + 1
      BY <1>3, <2>1
    <3>2. end = s + c
      BY <1>4, <2>1
    <3>. QED
      BY <1>9, <3>1, <3>2
  <2>3. s + 2 = from + 1
    BY <2>2
  <2>4. f.start + 2 = from + 1 /\ f.start + f.cnt - 7 = to
    BY <2>1, <2>2, <2>3
  <2>5. BodyOf(f) = SubSeq(rx, f.start + 2, f.start + f.cnt - 7)
    BY DEF BodyOf
  <2>6. BodyOf(f) = SubSeq(rx, from + 1, to)
    BY <2>4, <2>5
  <2>. QED
    BY <1>12, <2>6 DEF Piece
<1>14. Len(whole) = to - from /\ from + 8 * flags <= to /\ to <= Len(rx)
       /\ to - from \in Nat
  <2>1. from + 8 * flags <= to /\ to <= Len(rx) /\ to - from \in Nat
    BY <1>2, <1>6, <1>7, <1>8, <1>9
  <2>2. PICK len \in Nat : len = to - from
    BY <2>1
  <2>3. from + len = to /\ from + len <= Len(rx)
    BY <2>1, <2>2
  <2>4. Len(Piece(rx, from, from + len)) = len
    BY <1>2, <2>3, PieceBits
  <2>. QED
    BY <1>13, <2>1, <2>2, <2>3, <2>4
<1>15. flags \in 0 .. Len(whole) \div 8
  BY <1>14
<1>16. IdleFrom(f.start + 1, flags)
  BY <1>3, <1>8 DEF IdleFrom, IdleFlags
<1>16a. ~ IdleFrom(f.start + 1, flags + 1)
  <2>1. ~ IdleFlags(rx, from, flags + 1)
    BY <1>7, <1>8, IdleFlagsLast
  <2>. QED
    BY <1>3, <2>1 DEF IdleFrom, IdleFlags
<1>17. PICK body : body = SubSeq(whole, 8 * flags + 1, Len(whole))
  OBVIOUS
<1>18. body = Piece(rx, b0, to)
  <2>1. PICK m \in Nat : m = 8 * flags
    OBVIOUS
  <2>2. Piece(Piece(rx, from, to), m, to - from) = Piece(rx, from + m, to)
    BY <1>2, <1>14, <2>1, PieceOfPiece
  <2>3. body = Piece(whole, m, to - from)
    BY <1>14, <1>17, <2>1 DEF Piece
  <2>. QED
    BY <1>7, <1>13, <2>1, <2>2, <2>3
<1>19. ASSUME FirstOctetPlain(body)
       PROVE  CarriedBy(f, body)
  <2>1. b0 <= to /\ to <= Len(rx)
    BY <1>7, <1>14
  <2>2. PlainBehind(rx, b0)
    BY <1>2, <1>18, <1>19, <2>1, PlainOctet
  <2>3. Carries(body, octets)
    BY <1>8, <1>9, <1>18, <2>2
  <2>. QED
    BY <1>5, <2>3 DEF IsCarried, IsMended, CarriedBy
<1>. QED
  BY <1>1, <1>4, <1>10, <1>11, <1>12, <1>15, <1>16, <1>17, <1>19, <1>16a

\* Every frame published is a frame of the line: it starts at a flag, it ends
\* at a flag, and the bits between them are the stuffed octets of the frame,
\* however the stream is cut into calls, whatever resets fall between them
\* and whatever the line holds before and behind it.
THEOREM FramesAreFaithful == Spec => []FrameFaithful
<1>1. Init => LineInv /\ OutInv
  BY InitLineInv
<1>2. IInv /\ IInv' /\ LineInv /\ OutInv /\ [Next]_vars => LineInv' /\ OutInv'
  BY NextLineInv, NextOutInv
<1>3. IInv /\ OutInv => FrameFaithful
  BY FaithfulOut
<1>. QED
  BY <1>1, <1>2, <1>3, Invariance, PTL DEF Spec

-----------------------------------------------------------------------------
(* What a stuffed line says of the data bits under it *)

LEMMA ExtendsSelf ==
  ASSUME NEW s \in Seq(Bit)
  PROVE  Extends(s, s)
BY LenProperties DEF Extends

LEMMA ExtendsTransitive ==
  ASSUME NEW a, NEW b, NEW c, Extends(a, b), Extends(b, c)
  PROVE  Extends(a, c)
<1>1. /\ a \in Seq(Bit) /\ b \in Seq(Bit) /\ c \in Seq(Bit)
      /\ Len(b) <= Len(a) /\ Len(c) <= Len(b)
      /\ \A k \in 1 .. Len(b) : a[k] = b[k]
      /\ \A k \in 1 .. Len(c) : b[k] = c[k]
  BY DEF Extends
<1>2. Len(a) \in Nat /\ Len(b) \in Nat /\ Len(c) \in Nat
  BY <1>1, LenProperties
<1>3. \A k \in 1 .. Len(c) : k \in 1 .. Len(b)
  BY <1>1, <1>2
<1>. QED
  BY <1>1, <1>2, <1>3 DEF Extends

LEMMA AppendExtends ==
  ASSUME NEW s \in Seq(Bit), NEW b \in Bit
  PROVE  Extends(Append(s, b), s)
<1>1. PICK t : t = Append(s, b)
  OBVIOUS
<1>2. /\ t \in Seq(Bit) /\ Len(t) = Len(s) + 1 /\ Len(s) \in Nat
      /\ \A k \in 1 .. Len(s) : t[k] = s[k]
  BY <1>1, AppendProperties, LenProperties
<1>. QED
  BY <1>1, <1>2 DEF Extends

\* Every data bit is sent as it is, whatever is stuffed behind it.
LEMMA StuffStepExtends ==
  ASSUME NEW line \in StuffLine, NEW b \in Bit
  PROVE  Extends(StuffStep(line, b).out, Append(line.out, b))
<1>1. line.out \in Seq(Bit) /\ line.ones \in 0 .. 4 /\ 0 \in Bit /\ 1 \in Bit
  BY DEF StuffLine, Bit
<1>2. PICK s \in Seq(Bit) : s = Append(line.out, b)
  BY <1>1, AppendProperties
<1>3. CASE b = 1 /\ line.ones + 1 = 5
  <2>1. StuffStep(line, b).out = line.out \o <<1, 0>>
    BY <1>3 DEF StuffStep
  <2>2. line.out \o <<1, 0>> = Append(s, 0)
    BY <1>1, <1>2, <1>3, AppendTwo
  <2>. QED
    BY <1>1, <1>2, <2>1, <2>2, AppendExtends
<1>4. CASE ~ (b = 1 /\ line.ones + 1 = 5)
  <2>1. StuffStep(line, b).out = s
    BY <1>1, <1>2, <1>4 DEF StuffStep
  <2>. QED
    BY <1>2, <2>1, ExtendsSelf
<1>. QED
  BY <1>3, <1>4

\* So what the first data bits make is the beginning of the line.
LEMMA StuffPrefix ==
  ASSUME NEW x \in Seq(Bit), NEW n \in 0 .. Len(x)
  PROVE  Extends(Stuff(x), Stuff(Prefix(x, n)))
<1>1. Len(x) \in Nat
  BY LenProperties
<1>2. PICK m \in Nat : m = Len(x) - n
  BY <1>1
<1>3. ASSUME NEW k \in Nat, n + k <= Len(x)
      PROVE  Prefix(x, n + k) \in Seq(Bit)
  <2>1. PICK y \in Nat : y = n + k
    OBVIOUS
  <2>2. 1 \in Nat /\ 1 >= 1 /\ 1 <= y + 1 /\ y <= Len(x)
    BY <1>3, <2>1
  <2>3. Prefix(x, y) \in Seq(Bit)
    BY <2>2, PieceProperties DEF Prefix
  <2>. QED
    BY <2>1, <2>3
<1>. DEFINE good == {k \in 0 .. m : Extends(Stuff(Prefix(x, n + k)), Stuff(Prefix(x, n)))}
<1>4. 0 \in good
  <2>1. n + 0 = n /\ n + 0 <= Len(x)
    BY <1>1
  <2>2. Prefix(x, n) \in Seq(Bit)
    BY <1>3, <2>1
  <2>3. Stuff(Prefix(x, n)) \in Seq(Bit)
    BY <2>2, StuffingType DEF Stuff, StuffLine
  <2>4. Extends(Stuff(Prefix(x, n)), Stuff(Prefix(x, n)))
    BY <2>3, ExtendsSelf
  <2>. QED
    BY <2>1, <2>4
<1>5. ASSUME NEW k \in 0 .. m, k \in good, k < m
      PROVE  k + 1 \in good
  <2>1. PICK y \in Nat : y = n + k
    OBVIOUS
  <2>2. y + 1 <= Len(x) /\ n + (k + 1) = y + 1 /\ k + 1 \in 0 .. m
    BY <1>1, <1>2, <1>5, <2>1
  <2>3. /\ Prefix(x, y) \in Seq(Bit) /\ x[y + 1] \in Bit
        /\ Prefix(x, y + 1) = Append(Prefix(x, y), x[y + 1])
    BY <2>2, PrefixGrows
  <2>4. PICK line \in StuffLine : line = Stuffing(Prefix(x, y))
    BY <2>3, StuffingType
  <2>5. Stuffing(Prefix(x, y + 1)) = StuffStep(line, x[y + 1])
    BY <2>3, <2>4, StuffingAppend
  <2>6. Extends(Stuff(Prefix(x, y + 1)), Append(line.out, x[y + 1]))
    BY <2>3, <2>5, StuffStepExtends DEF Stuff
  <2>7. Extends(Append(line.out, x[y + 1]), Stuff(Prefix(x, y)))
    <3>1. line.out \in Seq(Bit) /\ line.out = Stuff(Prefix(x, y))
      BY <2>4 DEF Stuff, StuffLine
    <3>. QED
      BY <2>3, <3>1, AppendExtends
  <2>8. Extends(Stuff(Prefix(x, y)), Stuff(Prefix(x, n)))
    BY <1>5, <2>1
  <2>9. Extends(Stuff(Prefix(x, y + 1)), Stuff(Prefix(x, n)))
    BY <2>6, <2>7, <2>8, ExtendsTransitive
  <2>. QED
    BY <2>2, <2>9
<1>6. 0 .. m \subseteq good
  <2>. HIDE DEF good
  <2>1. \A k \in 0 .. m : k \in good /\ k < m => k + 1 \in good
    BY <1>5
  <2>. QED
    BY <1>4, <2>1, UpToNat
<1>7. m \in 0 .. m /\ n + m = Len(x)
  BY <1>1, <1>2
<1>8. Extends(Stuff(Prefix(x, n + m)), Stuff(Prefix(x, n)))
  BY <1>6, <1>7
<1>. QED
  BY <1>7, <1>8, PrefixFull

\* And the next data bit follows it there.
LEMMA StuffNext ==
  ASSUME NEW x \in Seq(Bit), NEW n \in Nat, n + 1 <= Len(x)
  PROVE  /\ Stuff(Prefix(x, n)) \in Seq(Bit)
         /\ x[n + 1] \in Bit
         /\ Extends(Stuff(x), Append(Stuff(Prefix(x, n)), x[n + 1]))
<1>1. /\ Prefix(x, n) \in Seq(Bit) /\ x[n + 1] \in Bit
      /\ Prefix(x, n + 1) = Append(Prefix(x, n), x[n + 1])
  BY PrefixGrows
<1>2. PICK line \in StuffLine : line = Stuffing(Prefix(x, n))
  BY <1>1, StuffingType
<1>3. line.out = Stuff(Prefix(x, n)) /\ line.out \in Seq(Bit)
  BY <1>2 DEF Stuff, StuffLine
<1>4. Stuffing(Prefix(x, n + 1)) = StuffStep(line, x[n + 1])
  BY <1>1, <1>2, StuffingAppend
<1>5. Extends(Stuff(Prefix(x, n + 1)), Append(line.out, x[n + 1]))
  BY <1>1, <1>4, StuffStepExtends DEF Stuff
<1>6. Extends(Stuff(x), Stuff(Prefix(x, n + 1)))
  <2>1. n + 1 \in 0 .. Len(x)
    BY LenProperties
  <2>. QED
    BY <2>1, StuffPrefix
<1>. QED
  BY <1>1, <1>3, <1>5, <1>6, ExtendsTransitive

\* A line that begins like another one begins with its data bits.
LEMMA StuffDetermines ==
  ASSUME NEW u \in Seq(Bit), NEW x \in Seq(Bit), Extends(Stuff(x), Stuff(u))
  PROVE  Extends(x, u)
<1>1. Len(u) \in Nat /\ Len(x) \in Nat
  BY LenProperties
<1>. DEFINE good == {k \in 0 .. Len(u) : k <= Len(x) /\ Prefix(u, k) = Prefix(x, k)
                                         /\ \A j \in 1 .. k : x[j] = u[j]}
<1>2. 0 \in good
  <2>1. Prefix(u, 0) = <<>> /\ Prefix(x, 0) = <<>>
    <3>1. /\ 1 \in Nat /\ 0 \in Nat /\ 1 >= 1 /\ 1 <= 0 + 1 /\ 0 <= Len(u)
          /\ 0 <= Len(x) /\ 0 - 1 + 1 = 0
      BY <1>1
    <3>2. Prefix(u, 0) \in Seq(Bit) /\ Len(Prefix(u, 0)) = 0
      BY <3>1, PieceProperties DEF Prefix
    <3>3. Prefix(x, 0) \in Seq(Bit) /\ Len(Prefix(x, 0)) = 0
      BY <3>1, PieceProperties DEF Prefix
    <3>. QED
      BY <3>2, <3>3, EmptySeq
  <2>. QED
    BY <1>1, <2>1
<1>3. ASSUME NEW k \in 0 .. Len(u), k \in good, k < Len(u)
      PROVE  k + 1 \in good
  <2>1. k \in Nat /\ k + 1 <= Len(u) /\ k <= Len(x) /\ Prefix(u, k) = Prefix(x, k)
    BY <1>1, <1>3
  <2>2. PICK s \in Seq(Bit) : s = Stuff(Prefix(u, k))
    BY <2>1, StuffNext
  <2>3. PICK b \in Bit : b = u[k + 1]
    BY <2>1, StuffNext
  <2>4. Extends(Stuff(x), Append(s, b))
    <3>1. Extends(Stuff(u), Append(s, b))
      BY <2>1, <2>2, <2>3, StuffNext
    <3>. QED
      BY <3>1, ExtendsTransitive
  <2>5. Len(s) \in Nat /\ Len(s) + 1 <= Len(Stuff(x)) /\ Stuff(x)[Len(s) + 1] = b
    <3>1. PICK t : t = Append(s, b)
      OBVIOUS
    <3>2. Len(s) \in Nat /\ Len(t) = Len(s) + 1 /\ t[Len(s) + 1] = b
      BY <3>1, AppendProperties, LenProperties
    <3>3. Len(s) + 1 \in 1 .. Len(t)
      BY <3>2
    <3>4. Len(t) <= Len(Stuff(x)) /\ \A j \in 1 .. Len(t) : Stuff(x)[j] = t[j]
      BY <2>4, <3>1 DEF Extends
    <3>. QED
      BY <3>2, <3>3, <3>4
  <2>6. k + 1 <= Len(x)
    <3>1. ASSUME k = Len(x)
          PROVE  FALSE
      <4>1. Prefix(x, k) = x
        BY <3>1, PrefixFull
      <4>2. Stuff(x) = s
        BY <2>1, <2>2, <4>1
      <4>. QED
        BY <2>5, <4>2
    <3>. QED
      BY <1>1, <2>1, <3>1
  <2>7. x[k + 1] = b
    <3>1. PICK c \in Bit : c = x[k + 1]
      BY <2>1, <2>6, StuffNext
    <3>2. Extends(Stuff(x), Append(s, c))
      BY <2>1, <2>2, <2>6, <3>1, StuffNext
    <3>3. PICK t : t = Append(s, c)
      OBVIOUS
    <3>4. Len(t) = Len(s) + 1 /\ t[Len(s) + 1] = c
      BY <3>3, AppendProperties
    <3>5. Len(s) + 1 \in 1 .. Len(t)
      BY <2>5, <3>4
    <3>6. \A j \in 1 .. Len(t) : Stuff(x)[j] = t[j]
      BY <3>2, <3>3 DEF Extends
    <3>7. Stuff(x)[Len(s) + 1] = c
      BY <3>4, <3>5, <3>6
    <3>. QED
      BY <2>5, <3>1, <3>7
  <2>8. Prefix(u, k + 1) = Append(Prefix(u, k), b) /\ Prefix(x, k + 1) = Append(Prefix(x, k), b)
    BY <2>1, <2>3, <2>6, <2>7, PrefixGrows
  <2>9. ASSUME NEW j \in 1 .. k + 1
        PROVE  x[j] = u[j]
    <3>1. CASE j = k + 1
      BY <2>3, <2>7, <3>1
    <3>2. CASE j # k + 1
      <4>1. j \in 1 .. k
        BY <2>1, <3>2
      <4>. QED
        BY <1>3, <4>1
    <3>. QED
      BY <3>1, <3>2
  <2>10. k + 1 \in 0 .. Len(u)
    BY <1>1, <2>1
  <2>. QED
    BY <2>1, <2>6, <2>8, <2>9, <2>10
<1>4. 0 .. Len(u) \subseteq good
  <2>. HIDE DEF good
  <2>1. \A k \in 0 .. Len(u) : k \in good /\ k < Len(u) => k + 1 \in good
    BY <1>3
  <2>. QED
    BY <1>1, <1>2, <2>1, UpToNat
<1>5. Len(u) \in good
  BY <1>1, <1>4
<1>. QED
  BY <1>1, <1>5 DEF Extends

\* A frame of the line: behind the flag that ends with the e-th bit and before
\* the one that begins behind the c-th, with no other between them, are the
\* stuffed data bits x.
FrameAt(line, e, c, x) ==
  /\ e + 8 <= c /\ c + 8 <= Len(line)
  /\ FlagEndsAt(line, c + 8)
  /\ \A s \in e + 1 .. c + 7 : ~ FlagEndsAt(line, s)
  /\ PlainBehind(line, e)
  /\ Len(x) % 8 = 0
  /\ Stuff(x) = Piece(line, e, c)

\* The data bits continue as the line does.
LEMMA NextDataBit ==
  ASSUME NEW line \in Seq(Bit), NEW e \in Nat, NEW c \in Nat, e <= c, c <= Len(line),
         NEW x \in Seq(Bit), Stuff(x) = Piece(line, e, c),
         NEW n \in 0 .. Len(x), NEW q \in Nat, e <= q, q < c,
         Stuff(Prefix(x, n)) = Piece(line, e, q)
  PROVE  n + 1 <= Len(x) /\ x[n + 1] = line[q + 1]
<1>1. Len(x) \in Nat /\ n \in Nat
  BY LenProperties
<1>2. q <= Len(line)
  BY LenProperties
<1>3. PICK s \in Seq(Bit) : s = Stuff(x)
  BY StuffingType DEF Stuff, StuffLine
<1>4. Len(s) = c - e /\ \A k \in 1 .. c - e : s[k] = line[e + k]
  <2>1. s = Piece(line, e, c)
    BY <1>3
  <2>2. /\ Len(Piece(line, e, c)) = c - e
        /\ \A k \in 1 .. c - e : Piece(line, e, c)[k] = line[e + k]
    BY PieceBit
  <2>. QED
    BY <2>1, <2>2
<1>5. PICK t \in Seq(Bit) : t = Piece(line, e, q)
  BY <1>2, PieceBit
<1>6. Len(t) = q - e
  BY <1>2, <1>5, PieceBit
<1>7. n # Len(x)
  <2>1. ASSUME n = Len(x)
        PROVE  FALSE
    <3>1. Prefix(x, n) = x
      BY <2>1, PrefixFull
    <3>2. s = t
      BY <1>3, <1>5, <3>1
    <3>. QED
      BY <1>4, <1>6, <3>2
  <2>. QED
    BY <2>1
<1>8. n + 1 <= Len(x)
  BY <1>1, <1>7
<1>9. PICK b \in Bit : b = x[n + 1]
  BY <1>1, <1>8, StuffNext
<1>10. Extends(s, Append(t, b))
  BY <1>1, <1>3, <1>5, <1>8, <1>9, StuffNext
<1>11. PICK u : u = Append(t, b)
  OBVIOUS
<1>12. Len(u) = Len(t) + 1 /\ u[Len(t) + 1] = b
  BY <1>11, AppendProperties
<1>13. PICK k \in 1 .. c - e : k = Len(t) + 1 /\ e + k = q + 1
  BY <1>6
<1>14. k \in 1 .. Len(u)
  BY <1>6, <1>12, <1>13
<1>15. s[k] = u[k]
  BY <1>10, <1>11, <1>14 DEF Extends
<1>. QED
  BY <1>4, <1>8, <1>9, <1>12, <1>13, <1>15

\* Up to five ones of the line inside a frame are data bits.
LEMMA OnesAreData ==
  ASSUME NEW line \in Seq(Bit), NEW e \in Nat, NEW c \in Nat, e <= c, c <= Len(line),
         NEW x \in Seq(Bit), Stuff(x) = Piece(line, e, c),
         NEW n \in 0 .. Len(x), NEW q \in Nat, e <= q, NEW m \in 0 .. 5, q + m <= c,
         Stuffed(x, n, line, e, q, 0), Ones(line, q, m)
  PROVE  n + m <= Len(x) /\ Ones(x, n, m)
<1>1. Len(x) \in Nat /\ n \in Nat /\ Len(line) \in Nat
  BY LenProperties
<1>. DEFINE good == {k \in 0 .. m : n + k <= Len(x) /\ Ones(x, n, k)}
<1>2. 0 \in good
  BY <1>1 DEF Ones
<1>3. ASSUME NEW k \in 0 .. m, k \in good, k < m
      PROVE  k + 1 \in good
  <2>1. /\ k \in 0 .. 4 /\ k + 1 \in 0 .. m /\ q + k \in Nat /\ e <= q + k
        /\ q + k < c /\ n + k <= Len(x) /\ q + k <= Len(line)
        /\ Ones(x, n, k) /\ n + k \in 0 .. Len(x)
    BY <1>1, <1>3
  <2>2. Ones(line, q, k)
    <3>1. \A j \in 1 .. k : j \in 1 .. m
      BY <1>3
    <3>. QED
      BY <3>1 DEF Ones
  <2>3. Stuffed(x, n + k, line, e, q + k, k)
    BY <1>1, <2>1, <2>2, StuffOnes DEF StuffedThenOnes
  <2>4. Stuff(Prefix(x, n + k)) = Piece(line, e, q + k)
    BY <2>3 DEF Stuffed, Stuff
  <2>5. PICK y \in 0 .. Len(x) : y = n + k
    BY <2>1
  <2>6. PICK z \in Nat : z = q + k
    BY <2>1
  <2>7. y + 1 <= Len(x) /\ x[y + 1] = line[z + 1]
    BY <2>1, <2>4, <2>5, <2>6, NextDataBit
  <2>8. line[z + 1] = 1
    <3>1. k + 1 \in 1 .. m /\ q + (k + 1) = z + 1
      BY <2>1, <2>6
    <3>2. line[q + (k + 1)] = 1
      BY <3>1 DEF Ones
    <3>. QED
      BY <3>1, <3>2
  <2>9. Ones(x, n, k + 1)
    <3>1. ASSUME NEW j \in 1 .. k + 1
          PROVE  x[n + j] = 1
      <4>1. CASE j = k + 1
        <5>1. n + j = y + 1
          BY <2>5, <4>1
        <5>. QED
          BY <2>7, <2>8, <5>1
      <4>2. CASE j # k + 1
        <5>1. j \in 1 .. k
          BY <2>1, <4>2
        <5>. QED
          BY <2>1, <5>1 DEF Ones
      <4>. QED
        BY <4>1, <4>2
    <3>. QED
      BY <3>1 DEF Ones
  <2>10. n + (k + 1) <= Len(x)
    BY <1>1, <2>1, <2>5, <2>7
  <2>. QED
    BY <2>1, <2>9, <2>10
<1>4. 0 .. m \subseteq good
  <2>. HIDE DEF good
  <2>1. \A k \in 0 .. m : k \in good /\ k < m => k + 1 \in good
    BY <1>3
  <2>. QED
    BY <1>2, <2>1, UpToNat
<1>. QED
  BY <1>4

\* Behind five of them there is a zero.
LEMMA FiveOnesEnd ==
  ASSUME NEW line \in Seq(Bit), NEW e \in Nat, NEW c \in Nat, e <= c, c <= Len(line),
         NEW x \in Seq(Bit), Stuff(x) = Piece(line, e, c),
         NEW n \in 0 .. Len(x), NEW q \in Nat, e <= q, q + 5 <= c,
         Stuffed(x, n, line, e, q, 0), Ones(line, q, 5)
  PROVE  q + 6 <= c /\ line[q + 6] = 0
<1>1. Len(x) \in Nat /\ n \in Nat /\ Len(line) \in Nat
  BY LenProperties
<1>2. n + 5 <= Len(x) /\ Ones(x, n, 5)
  BY OnesAreData
<1>3. PICK y \in Nat : y = n + 4
  OBVIOUS
<1>4. PICK z \in Nat : z = q + 4
  OBVIOUS
<1>5. Ones(x, n, 4) /\ Ones(line, q, 4) /\ x[n + 5] = 1
  BY <1>2 DEF Ones
<1>6. Stuffed(x, y, line, e, z, 4)
  <2>1. n + 4 <= Len(x) /\ q + 4 <= Len(line) /\ 4 \in 0 .. 4
    BY <1>1, <1>2
  <2>. QED
    BY <1>1, <1>3, <1>4, <1>5, <2>1, StuffOnes DEF StuffedThenOnes
<1>7. y + 1 <= Len(x) /\ x[y + 1] = 1 /\ z <= Len(line) /\ e <= z /\ y + 1 \in 0 .. Len(x)
  BY <1>1, <1>2, <1>3, <1>4, <1>5
<1>8. /\ Prefix(x, y) \in Seq(Bit)
      /\ Prefix(x, y + 1) = Append(Prefix(x, y), 1)
      /\ 1 \in Bit
  BY <1>7, PrefixGrows DEF Bit
<1>9. PICK t \in Seq(Bit) : t = Piece(line, e, z)
  BY <1>7, PieceBit
<1>10. Len(t) = z - e
  BY <1>7, <1>9, PieceBit
<1>11. Stuffing(Prefix(x, y + 1)) = StuffStep([out |-> t, ones |-> 4], 1)
  BY <1>6, <1>8, <1>9, StuffingAppend DEF Stuffed
<1>12. Stuff(Prefix(x, y + 1)) = t \o <<1, 0>>
  BY <1>11 DEF StuffStep, Stuff
<1>13. PICK u : u = Append(t, 1)
  OBVIOUS
<1>14. PICK v : v = Append(u, 0)
  OBVIOUS
<1>15. u \in Seq(Bit) /\ Len(u) = Len(t) + 1 /\ 0 \in Bit
  <2>1. 0 \in Bit /\ 1 \in Bit
    BY DEF Bit
  <2>. QED
    BY <1>13, <2>1, AppendProperties
<1>16. Len(v) = Len(t) + 2 /\ v[Len(t) + 2] = 0
  <2>1. Len(v) = Len(u) + 1 /\ v[Len(u) + 1] = 0
    BY <1>14, <1>15, AppendProperties
  <2>2. Len(t) \in Nat
    BY LenProperties
  <2>. QED
    BY <1>15, <2>1, <2>2
<1>17. Stuff(Prefix(x, y + 1)) = v
  BY <1>8, <1>12, <1>13, <1>14, <1>15, AppendTwo
<1>18. Extends(Stuff(x), v)
  BY <1>7, <1>17, StuffPrefix
<1>19. PICK s : s = Stuff(x)
  OBVIOUS
<1>20. Len(s) = c - e /\ \A k \in 1 .. c - e : s[k] = line[e + k]
  <2>1. s = Piece(line, e, c)
    BY <1>19
  <2>2. /\ Len(Piece(line, e, c)) = c - e
        /\ \A k \in 1 .. c - e : Piece(line, e, c)[k] = line[e + k]
    BY PieceBit
  <2>. QED
    BY <2>1, <2>2
<1>21. Len(v) <= Len(s) /\ \A k \in 1 .. Len(v) : s[k] = v[k]
  BY <1>18, <1>19 DEF Extends
<1>22. q + 6 <= c
  BY <1>4, <1>10, <1>16, <1>20, <1>21
<1>23. PICK k \in 1 .. c - e : k = Len(t) + 2 /\ e + k = q + 6
  BY <1>4, <1>7, <1>10, <1>22
<1>24. k \in 1 .. Len(v)
  BY <1>16, <1>23
<1>. QED
  BY <1>16, <1>20, <1>21, <1>22, <1>23, <1>24

LEMMA ExtendsPrefix ==
  ASSUME NEW x, NEW u, Extends(x, u)
  PROVE  Prefix(x, Len(u)) = u
<1>1. /\ x \in Seq(Bit) /\ u \in Seq(Bit) /\ Len(u) \in Nat /\ Len(u) <= Len(x)
      /\ \A k \in 1 .. Len(u) : x[k] = u[k]
  BY LenProperties DEF Extends
<1>2. PICK t : t = Prefix(x, Len(u))
  OBVIOUS
<1>3. /\ t \in Seq(Bit) /\ Len(t) = Len(u)
      /\ \A k \in 1 .. Len(t) : t[k] = u[k]
  BY <1>1, <1>2, PrefixBits
<1>. QED
  BY <1>1, <1>2, <1>3, SeqEqual

LEMMA PrefixExtends ==
  ASSUME NEW d \in Seq(Bit), NEW n \in Nat, n <= Len(d)
  PROVE  Extends(d, Prefix(d, n))
BY PrefixBits DEF Extends

\* A piece begins like a shorter one.
LEMMA PieceBegins ==
  ASSUME NEW line \in Seq(Bit), NEW from \in Nat, NEW mid \in Nat, NEW to \in Nat,
         from <= mid, mid <= to, to <= Len(line)
  PROVE  Extends(Piece(line, from, to), Piece(line, from, mid))
<1>1. from <= to /\ mid <= Len(line)
  BY LenProperties
<1>2. PICK a : a = Piece(line, from, to)
  OBVIOUS
<1>3. PICK b : b = Piece(line, from, mid)
  OBVIOUS
<1>4. /\ a \in Seq(Bit) /\ Len(a) = to - from
      /\ \A k \in 1 .. to - from : a[k] = line[from + k]
  BY <1>1, <1>2, PieceBit
<1>5. /\ b \in Seq(Bit) /\ Len(b) = mid - from
      /\ \A k \in 1 .. mid - from : b[k] = line[from + k]
  BY <1>1, <1>3, PieceBit
<1>6. Len(b) <= Len(a) /\ \A k \in 1 .. Len(b) : a[k] = b[k]
  BY <1>1, <1>4, <1>5
<1>. QED
  BY <1>2, <1>3, <1>4, <1>5, <1>6 DEF Extends

\* As long as the bits seen belong to the frame, the data bits do, and no run
\* of ones is longer than five.
LEMMA InsideFrame ==
  ASSUME NEW line \in Seq(Bit), NEW e \in Nat, NEW c \in Nat, NEW x \in Seq(Bit),
         FrameAt(line, e, c, x), NEW p \in Nat, p <= c, NEW d \in Seq(Bit), NEW r,
         Destuffed(line, e, p, d, r)
  PROVE  r <= 5 /\ Len(d) <= Len(x)
<1>1. /\ r \in 0 .. 6 /\ r <= Len(d) /\ e + r <= p /\ Ones(line, p - r, r)
      /\ Stuffed(d, Len(d) - r, line, e, p - r, 0)
      /\ Len(d) \in Nat /\ Len(x) \in Nat /\ Len(line) \in Nat
  BY LenProperties DEF Destuffed
<1>2. e <= c /\ c <= Len(line) /\ Stuff(x) = Piece(line, e, c)
  BY <1>1 DEF FrameAt
<1>3. PICK n \in Nat : n = Len(d) - r
  <2>1. Len(d) - r \in Nat
    BY <1>1
  <2>. QED
    BY <2>1
<1>4. PICK q \in Nat : q = p - r
  <2>1. p - r \in Nat
    BY <1>1
  <2>. QED
    BY <2>1
<1>5. n <= Len(d) /\ e <= q /\ q <= c /\ q + r = p /\ n + r = Len(d)
  BY <1>1, <1>3, <1>4
<1>6. PICK u \in Seq(Bit) : u = Prefix(d, n) /\ Len(u) = n
  BY <1>5, PrefixBits
<1>7. Stuffing(u) = [out |-> Piece(line, e, q), ones |-> 0]
  BY <1>1, <1>3, <1>4, <1>6 DEF Stuffed
<1>8. Extends(Stuff(x), Stuff(u))
  <2>1. Extends(Piece(line, e, c), Piece(line, e, q))
    BY <1>2, <1>5, PieceBegins
  <2>2. Stuff(u) = Piece(line, e, q)
    BY <1>7 DEF Stuff
  <2>. QED
    BY <1>2, <2>1, <2>2
<1>9. Extends(x, u)
  BY <1>8, StuffDetermines
<1>10. n \in 0 .. Len(x)
  BY <1>1, <1>6, <1>9 DEF Extends
<1>11. Stuffed(x, n, line, e, q, 0)
  <2>1. Prefix(x, n) = u
    BY <1>6, <1>9, ExtendsPrefix
  <2>. QED
    BY <1>7, <2>1 DEF Stuffed
<1>12. r <= 5
  <2>1. ASSUME r = 6
        PROVE  FALSE
    <3>1. q + 5 <= c /\ Ones(line, q, 5) /\ line[q + 6] = 1
      BY <1>1, <1>4, <1>5, <2>1 DEF Ones
    <3>2. line[q + 6] = 0
      BY <1>2, <1>5, <1>10, <1>11, <3>1, FiveOnesEnd
    <3>. QED
      BY <3>1, <3>2
  <2>. QED
    BY <1>1, <2>1
<1>13. n + r <= Len(x)
  <2>1. r \in 0 .. 5 /\ q + r <= c /\ Ones(line, q, r)
    BY <1>1, <1>4, <1>5, <1>12
  <2>. QED
    BY <1>2, <1>5, <1>10, <1>11, <2>1, OnesAreData
<1>. QED
  BY <1>5, <1>12, <1>13

\* Behind the frame the bits of the closing flag pass for data bits.
LEMMA ClosingFrame ==
  ASSUME NEW line \in Seq(Bit), NEW e \in Nat, NEW c \in Nat, NEW x \in Seq(Bit),
         FrameAt(line, e, c, x), NEW p \in Nat, c < p, p <= c + 7,
         NEW d \in Seq(Bit), NEW r, Destuffed(line, e, p, d, r)
  PROVE  Len(d) = Len(x) + (p - c) /\ Extends(d, x)
<1>1. /\ r \in 0 .. 6 /\ r <= Len(d) /\ e + r <= p /\ Ones(line, p - r, r)
      /\ line[p - r] = 0
      /\ Stuffed(d, Len(d) - r, line, e, p - r, 0)
      /\ Len(d) \in Nat /\ Len(x) \in Nat /\ Len(line) \in Nat
  BY LenProperties DEF Destuffed
<1>2. e <= c /\ c + 1 <= Len(line) /\ Stuff(x) = Piece(line, e, c)
  BY <1>1 DEF FrameAt
<1>3. line[c + 1] = 0 /\ \A k \in 1 .. 6 : line[(c + 8) - k] = 1
  <2>1. PICK s \in Nat : s = c + 8
    OBVIOUS
  <2>2. line[s - 7] = 0 /\ \A k \in 1 .. 6 : line[s - k] = 1
    BY <2>1 DEF FrameAt, FlagEndsAt
  <2>3. s - 7 = c + 1
    BY <2>1
  <2>. QED
    BY <2>1, <2>2, <2>3
<1>4. PICK n \in Nat : n = Len(d) - r
  <2>1. Len(d) - r \in Nat
    BY <1>1
  <2>. QED
    BY <2>1
<1>5. PICK q \in Nat : q = p - r
  <2>1. p - r \in Nat
    BY <1>1
  <2>. QED
    BY <2>1
<1>6. q = c + 1
  <2>1. ASSUME q > c + 1
        PROVE  FALSE
    <3>1. PICK k \in 1 .. 6 : k = (c + 8) - q
      BY <1>1, <1>5, <2>1
    <3>2. line[(c + 8) - k] = 1 /\ (c + 8) - k = q
      BY <1>3, <3>1
    <3>. QED
      BY <1>1, <1>5, <3>2
  <2>2. ASSUME q < c + 1
        PROVE  FALSE
    <3>1. Ones(line, q, r)
      BY <1>1, <1>5
    <3>2. PICK k \in 1 .. r : q + k = c + 1
      <4>1. (c + 1) - q \in 1 .. r /\ q + ((c + 1) - q) = c + 1
        BY <1>1, <1>5, <2>2
      <4>. QED
        BY <4>1
    <3>3. line[q + k] = 1
      BY <3>1 DEF Ones
    <3>. QED
      BY <1>3, <3>2, <3>3
  <2>. QED
    BY <2>1, <2>2
<1>7. PICK u \in Seq(Bit) : u = Prefix(d, n) /\ Len(u) = n
  <2>1. n <= Len(d)
    BY <1>1, <1>4
  <2>. QED
    BY <2>1, PrefixBits
<1>8. Stuff(u) = Piece(line, e, c + 1)
  BY <1>1, <1>4, <1>5, <1>6, <1>7 DEF Stuffed, Stuff
<1>9. Extends(u, x)
  <2>1. c <= c + 1 /\ c + 1 \in Nat
    OBVIOUS
  <2>2. Extends(Piece(line, e, c + 1), Piece(line, e, c))
    BY <1>2, <2>1, PieceBegins
  <2>3. Extends(Stuff(u), Stuff(x))
    BY <1>2, <1>8, <2>2
  <2>. QED
    BY <2>3, StuffDetermines
<1>10. Prefix(u, Len(x)) = x /\ Len(x) <= Len(u)
  BY <1>9, ExtendsPrefix DEF Extends
<1>11. Len(x) + 1 <= Len(u) /\ u[Len(x) + 1] = 0
  <2>1. Len(x) \in 0 .. Len(u)
    BY <1>1, <1>7, <1>10
  <2>2. PICK z \in Nat : z = c + 1
    OBVIOUS
  <2>3. e <= z /\ z <= Len(line) /\ c < z /\ Stuff(u) = Piece(line, e, z)
    BY <1>2, <1>8, <2>2
  <2>4. Len(x) + 1 <= Len(u) /\ u[Len(x) + 1] = line[c + 1]
    BY <1>2, <1>10, <2>1, <2>3, NextDataBit
  <2>. QED
    BY <1>3, <2>4
<1>12. Len(u) <= Len(x) + 1
  <2>1. 0 \in Bit
    BY DEF Bit
  <2>2. PICK v \in Seq(Bit) : v = Append(x, 0) /\ Len(v) = Len(x) + 1
    BY <2>1, AppendProperties
  <2>3. PICK s \in StuffLine : s = Stuffing(x)
    BY StuffingType
  <2>4. Stuffing(v) = StuffStep(s, 0)
    BY <2>1, <2>2, <2>3, StuffingAppend
  <2>5. Stuff(v) = Append(s.out, 0)
    BY <2>4 DEF Stuff, StuffStep
  <2>6. Piece(line, e, c + 1) = Append(Piece(line, e, c), line[c + 1])
    BY <1>2, PieceGrows
  <2>7. Stuff(v) = Stuff(u)
    BY <1>2, <1>3, <1>8, <2>3, <2>5, <2>6 DEF Stuff
  <2>8. Stuff(u) \in Seq(Bit)
    BY StuffingType DEF Stuff, StuffLine
  <2>9. Extends(v, u)
    BY <2>7, <2>8, ExtendsSelf, StuffDetermines
  <2>. QED
    BY <2>2, <2>9 DEF Extends
<1>13. n = Len(x) + 1
  BY <1>1, <1>7, <1>11, <1>12
<1>14. Len(d) = Len(x) + (p - c)
  <2>1. PICK a \in Nat : a = Len(d)
    BY <1>1
  <2>2. PICK b \in Nat : b = Len(x)
    BY <1>1
  <2>3. r = p - (c + 1) /\ a - r = b + 1
    BY <1>1, <1>4, <1>5, <1>6, <1>13, <2>1, <2>2
  <2>4. a = b + (p - c)
    BY <1>1, <2>3
  <2>. QED
    BY <2>1, <2>2, <2>4
<1>15. Extends(d, u)
  <2>1. n <= Len(d)
    BY <1>1, <1>4
  <2>. QED
    BY <1>7, <2>1, PrefixExtends
<1>. QED
  BY <1>9, <1>14, <1>15, ExtendsTransitive

\* The octets received are those of the data bits x.
LEMMA OctetsOfData ==
  ASSUME NEW octets \in Seq(Byte), NEW dec \in Byte, NEW n \in 0 .. 7, NEW x,
         Extends(DataOf(octets, dec, n), x), Len(x) = 8 * Len(octets)
  PROVE  BytesOf(x) = octets
<1>1. PICK d \in Seq(Bit) : d = DataOf(octets, dec, n)
  BY DataProperties
<1>2. PICK len \in Nat : len = Len(octets)
  BY LenProperties
<1>3. \A k \in 1 .. 8 * len : d[k] = BitsOf(octets)[k]
  <2>1. \A k \in 1 .. 8 * len + n :
          d[k] = IF k <= 8 * len THEN BitsOf(octets)[k]
                                 ELSE ByteBits(dec)[k - 8 * len + 8 - n]
    BY <1>1, <1>2, DataProperties
  <2>2. \A k \in 1 .. 8 * len : k \in 1 .. 8 * len + n /\ k <= 8 * len
    OBVIOUS
  <2>. QED
    BY <2>1, <2>2
<1>4. x \in Seq(Bit) /\ Len(x) = 8 * len /\ \A k \in 1 .. 8 * len : x[k] = BitsOf(octets)[k]
  BY <1>1, <1>2, <1>3 DEF Extends
<1>5. x = BitsOf(octets)
  <2>1. BitsOf(octets) \in Seq(Bit) /\ Len(BitsOf(octets)) = 8 * len
    BY <1>2, BitsOfProperties
  <2>. QED
    BY <1>4, <2>1, SeqEqual
<1>. QED
  BY <1>5, OctetsOfBits

-----------------------------------------------------------------------------
(***************************************************************************)
(* No frame is discarded.  A flag may open a frame that must be published  *)
(* when it is sent after the last reset and shares no zero with the flag   *)
(* before it.  Every such flag among the bits seen is the one the decoder  *)
(* holds on to - the last one in IN_SYNC, the one in front of the frame in *)
(* DECODING - or it is settled: a frame behind it, if there is one, has    *)
(* been published.  When the decoder gives up the flag it holds, the next  *)
(* one it can find is never one of those it has run over.                  *)
(***************************************************************************)

\* A flag that ends with the e-th bit and may open such a frame.
Opening(line, gone, e) ==
  /\ e >= 8 /\ e <= Len(line)
  /\ FlagEndsAt(line, e)
  /\ ~ TailAt(line, e - 7)
  /\ \A n \in 1 .. Len(gone) : gone[n].sent < e - 7

\* The data bits x of a frame that must be published, behind this flag.
Due(line, e, c, x) ==
  /\ FrameAt(line, e, c, x)
  /\ Len(x) \div 8 \in MinFrameLen .. MaxFrameLen - 1
  /\ IsFrameValid(BytesOf(x))

Among(frames, raw, end) ==
  \E n \in 1 .. Len(frames) : frames[n].raw = raw /\ frames[n].start + frames[n].cnt = end

\* Whatever follows on the line, the frame behind this flag is published.
Settled(e, line, frames) ==
  \A more : Extends(more, line) =>
    \A c \in Nat, x \in Seq(Bit) :
      Due(more, e, c, x) => Among(frames, BytesOf(x), c + 7)

\* A register cleared here misses no flag.
ClearAt(z, line, gone) ==
  \A more : Extends(more, line) =>
    \A e \in Nat : Opening(more, gone, e) /\ z < e => z + 7 <= e

\* No flag ends in the frame the decoder is in.
Quiet(line, b0, p) == \A s \in b0 + 8 .. p : ~ FlagEndsAt(line, s)

Kept(new, old) == Len(old) <= Len(new) /\ \A n \in 1 .. Len(old) : new[n] = old[n]

LEMMA SettledStays ==
  ASSUME NEW e, NEW line, NEW more, Extends(more, line), NEW old, NEW new,
         Len(old) \in Nat, Len(new) \in Nat,
         Kept(new, old), Settled(e, line, old)
  PROVE  Settled(e, more, new)
<1>. SUFFICES ASSUME NEW most, Extends(most, more), NEW c \in Nat, NEW x \in Seq(Bit),
                     Due(most, e, c, x)
              PROVE  Among(new, BytesOf(x), c + 7)
  BY DEF Settled
<1>1. Extends(most, line)
  BY ExtendsTransitive
<1>2. Among(old, BytesOf(x), c + 7)
  BY <1>1 DEF Settled
<1>3. \A n \in 1 .. Len(old) : n \in 1 .. Len(new) /\ new[n] = old[n]
  BY DEF Kept
<1>. QED
  BY <1>2, <1>3 DEF Among

LEMMA ClearStays ==
  ASSUME NEW z, NEW line, NEW more, Extends(more, line), NEW gone,
         ClearAt(z, line, gone)
  PROVE  ClearAt(z, more, gone)
BY ExtendsTransitive DEF ClearAt

\* A flag of the longer line that ends on the shorter one is a flag there.
LEMMA FlagBack ==
  ASSUME NEW more, NEW line, Extends(more, line), NEW p \in Nat,
         p >= 8, p <= Len(line), FlagEndsAt(more, p)
  PROVE  FlagEndsAt(line, p)
<1>1. /\ p \in 1 .. Len(line) /\ p - 7 \in 1 .. Len(line)
      /\ \A k \in 1 .. 6 : p - k \in 1 .. Len(line)
  BY LenProperties DEF Extends
<1>. QED
  BY <1>1 DEF FlagEndsAt, Extends

LEMMA OpeningBack ==
  ASSUME NEW more, NEW line, Extends(more, line), NEW gone, NEW e \in Nat,
         e <= Len(line), Opening(more, gone, e)
  PROVE  Opening(line, gone, e)
<1>1. e >= 8 /\ FlagEndsAt(more, e) /\ ~ TailAt(more, e - 7)
      /\ \A n \in 1 .. Len(gone) : gone[n].sent < e - 7
  BY DEF Opening
<1>2. FlagEndsAt(line, e)
  BY <1>1, FlagBack
<1>3. e - 7 \in Nat
  BY <1>1
<1>4. ~ TailAt(line, e - 7)
  BY <1>1, <1>3, TailExtends
<1>. QED
  BY <1>1, <1>2, <1>4 DEF Opening

\* The last of some flags is a flag or the tail of one.
LEMMA FlagsTail ==
  ASSUME NEW line, NEW from \in Nat, NEW flags \in Nat, TailAt(line, from),
         IdleFlags(line, from, flags), from + 8 * flags <= Len(line)
  PROVE  TailAt(line, from + 8 * flags)
<1>1. CASE flags = 0
  <2>1. from + 8 * flags = from
    BY <1>1
  <2>. QED
    BY <2>1
<1>2. CASE flags # 0
  <2>1. PICK b \in Nat : b = from + 8 * flags
    OBVIOUS
  <2>2. line[b] = 0
    BY <2>1, FlagsEndInZero
  <2>3. ASSUME NEW k \in 1 .. 6
        PROVE  line[b - k] = 1
    <3>1. PICK j \in 1 .. 8 * flags : j = 8 * flags - k
      <4>1. 8 * flags - k \in 1 .. 8 * flags
        BY <1>2
      <4>. QED
        BY <4>1
    <3>2. ((j - 1) % 8) + 1 = 8 - k
      <4>1. j - 1 = 8 * (flags - 1) + (7 - k) /\ flags - 1 \in Nat /\ 7 - k \in 0 .. 7
        BY <1>2, <3>1
      <4>2. \A a \in Nat, m \in 0 .. 7 : (8 * a + m) % 8 = m
        OBVIOUS
      <4>3. (j - 1) % 8 = 7 - k
        BY <4>1, <4>2
      <4>. QED
        BY <4>3
    <3>3. line[from + j] = Flag[8 - k]
      BY <3>2 DEF IdleFlags
    <3>4. Flag[8 - k] = 1
      <4>1. Flag[2] = 1 /\ Flag[3] = 1 /\ Flag[4] = 1 /\ Flag[5] = 1 /\ Flag[6] = 1
            /\ Flag[7] = 1
        BY DEF Flag
      <4>2. \/ 8 - k = 2 \/ 8 - k = 3 \/ 8 - k = 4 \/ 8 - k = 5 \/ 8 - k = 6 \/ 8 - k = 7
        OBVIOUS
      <4>. QED
        BY <4>1, <4>2
    <3>5. from + j = b - k
      BY <2>1, <3>1
    <3>. QED
      BY <3>3, <3>4, <3>5
  <2>4. b >= 7 /\ b <= Len(line)
    BY <2>1 DEF TailAt
  <2>. QED
    BY <2>1, <2>2, <2>3, <2>4 DEF TailAt
<1>. QED
  BY <1>1, <1>2

\* No flag behind this one can end before a whole one fits.
LEMMA BehindTail ==
  ASSUME NEW line, NEW b \in Nat, TailAt(line, b), NEW gone,
         NEW s \in b + 1 .. b + 7
  PROVE  ~ Opening(line, gone, s)
<1>. SUFFICES ASSUME Opening(line, gone, s) PROVE FALSE
  OBVIOUS
<1>1. \A k \in 1 .. 6 : line[s - k] = 1
  BY DEF Opening, FlagEndsAt
<1>2. ~ TailAt(line, s - 7)
  BY DEF Opening
<1>3. CASE s = b + 7
  <2>1. s - 7 = b
    BY <1>3
  <2>. QED
    BY <1>2, <2>1
<1>4. CASE s # b + 7
  <2>1. PICK k \in 1 .. 6 : s - k = b
    <3>1. s - b \in 1 .. 6 /\ s - (s - b) = b
      BY <1>4
    <3>. QED
      BY <3>1
  <2>2. line[b] = 1
    BY <1>1, <2>1
  <2>. QED
    BY <2>2 DEF TailAt
<1>. QED
  BY <1>3, <1>4

LEMMA QuietOpening ==
  ASSUME NEW line, NEW b0 \in Nat, TailAt(line, b0), NEW p \in Nat, Quiet(line, b0, p),
         NEW gone, NEW s \in b0 + 1 .. p
  PROVE  ~ Opening(line, gone, s)
<1>1. CASE s \in b0 + 1 .. b0 + 7
  BY <1>1, BehindTail
<1>2. CASE ~ (s \in b0 + 1 .. b0 + 7)
  <2>1. s \in b0 + 8 .. p
    BY <1>2
  <2>. QED
    BY <2>1 DEF Quiet, Opening
<1>. QED
  BY <1>1, <1>2

\* Seven ones up to the e-th bit.
SevenOnes(line, e) == \A k \in 0 .. 6 : line[e - k] = 1

\* While the decoder is in a frame that must be published, it is in it.
LEMMA DuringFrame ==
  ASSUME NEW line, NEW more, Extends(more, line), NEW reg, NEW from \in Nat,
         NEW b0 \in Nat, NEW p \in Nat, NEW d \in Seq(Bit),
         InFrame(reg, line, from, b0, p, d), Quiet(line, b0, p),
         NEW c \in Nat, NEW x \in Seq(Bit), FrameAt(more, b0, c, x)
  PROVE  /\ p <= c + 7
         /\ p <= c => Len(d) <= Len(x)
         /\ p > c => Len(d) = Len(x) + (p - c) /\ Extends(d, x)
         /\ ~ SevenOnes(more, p + 1)
<1>1. /\ more \in Seq(Bit) /\ line \in Seq(Bit) /\ Len(line) \in Nat
      /\ p <= Len(line) /\ b0 + 8 <= p
  BY LenProperties DEF Extends, InFrame
<1>2. InFrame(reg, more, from, b0, p, d)
  BY InFrameExtends
<1>3. PlainBehind(more, b0) /\ b0 + 8 <= c /\ FlagEndsAt(more, c + 8)
  BY DEF FrameAt
<1>4. PICK r : Destuffed(more, b0, p, d, r)
  BY <1>2, <1>3 DEF InFrame
<1>5. p <= c + 7
  <2>1. ASSUME p > c + 7
        PROVE  FALSE
    <3>1. PICK s \in Nat : s = c + 8
      OBVIOUS
    <3>2. s >= 8 /\ s <= Len(line) /\ s \in b0 + 8 .. p /\ FlagEndsAt(more, s)
      BY <1>1, <1>3, <2>1, <3>1
    <3>3. FlagEndsAt(line, s)
      BY <3>2, FlagBack
    <3>. QED
      BY <3>2, <3>3 DEF Quiet
  <2>. QED
    BY <2>1
<1>6. p <= c => Len(d) <= Len(x)
  BY <1>1, <1>4, InsideFrame
<1>7. p > c => Len(d) = Len(x) + (p - c) /\ Extends(d, x)
  BY <1>1, <1>4, <1>5, ClosingFrame
<1>8. ASSUME SevenOnes(more, p + 1)
      PROVE  FALSE
  <2>1. CASE p <= c
    <3>1. r <= 5 /\ r \in 0 .. 6 /\ more[p - r] = 0
      BY <1>1, <1>4, <2>1, InsideFrame DEF Destuffed
    <3>2. PICK k \in 0 .. 6 : (p + 1) - k = p - r
      <4>1. r + 1 \in 0 .. 6 /\ (p + 1) - (r + 1) = p - r
        BY <3>1
      <4>. QED
        BY <4>1
    <3>3. more[(p + 1) - k] = 1
      BY <1>8 DEF SevenOnes
    <3>. QED
      BY <3>1, <3>2, <3>3
  <2>2. CASE p > c
    <3>1. more[c + 1] = 0 /\ more[c + 8] = 0
      <4>1. PICK s \in Nat : s = c + 8
        OBVIOUS
      <4>2. more[s - 7] = 0 /\ more[s] = 0
        BY <1>3, <4>1 DEF FlagEndsAt
      <4>3. s - 7 = c + 1
        BY <4>1
      <4>. QED
        BY <4>1, <4>2, <4>3
    <3>2. PICK k \in 0 .. 6 : (p + 1) - k = c + 1 \/ (p + 1) - k = c + 8
      <4>1. CASE p = c + 7
        <5>1. 0 \in 0 .. 6 /\ (p + 1) - 0 = c + 8
          BY <4>1
        <5>. QED
          BY <5>1
      <4>2. CASE p # c + 7
        <5>1. p - c \in 0 .. 6 /\ (p + 1) - (p - c) = c + 1
          BY <1>5, <2>2, <4>2
        <5>. QED
          BY <5>1
      <4>. QED
        BY <4>1, <4>2
    <3>3. more[(p + 1) - k] = 1
      BY <1>8 DEF SevenOnes
    <3>. QED
      BY <3>1, <3>2, <3>3
  <2>. QED
    BY <2>1, <2>2
<1>. QED
  BY <1>5, <1>6, <1>7, <1>8

\* Seven ones do not occur there.
LEMMA AbortSettles ==
  ASSUME NEW line, NEW reg, NEW from \in Nat, NEW b0 \in Nat, NEW p \in Nat,
         p + 1 <= Len(line), NEW d \in Seq(Bit),
         InFrame(reg, line, from, b0, p, d), Quiet(line, b0, p), NEW frames,
         \A k \in 0 .. 6 : line[(p + 1) - k] = 1, line \in Seq(Bit)
  PROVE  Settled(b0, line, frames)
<1>. SUFFICES ASSUME NEW more, Extends(more, line), NEW c \in Nat, NEW x \in Seq(Bit),
                     Due(more, b0, c, x)
              PROVE  FALSE
  BY DEF Settled
<1>1. FrameAt(more, b0, c, x)
  BY DEF Due
<1>2. ~ SevenOnes(more, p + 1)
  BY <1>1, DuringFrame
<1>3. p >= 8
  BY DEF InFrame
<1>4. \A k \in 0 .. 6 : (p + 1) - k \in 1 .. Len(line)
  BY <1>3, LenProperties
<1>. QED
  BY <1>2, <1>4 DEF Extends, SevenOnes

\* Nor more octets than the limit allows.
LEMMA FullSettles ==
  ASSUME NEW line, line \in Seq(Bit), NEW reg, NEW from \in Nat, NEW b0 \in Nat,
         NEW p \in Nat, NEW d \in Seq(Bit),
         InFrame(reg, line, from, b0, p, d), Quiet(line, b0, p), NEW frames,
         Len(d) % 8 = 0, Len(d) \div 8 >= MaxFrameLen
  PROVE  Settled(b0, line, frames)
<1>. SUFFICES ASSUME NEW more, Extends(more, line), NEW c \in Nat, NEW x \in Seq(Bit),
                     Due(more, b0, c, x)
              PROVE  FALSE
  BY DEF Settled
<1>1. FrameAt(more, b0, c, x)
  BY DEF Due
<1>2. /\ p <= c + 7
      /\ p <= c => Len(d) <= Len(x)
      /\ p > c => Len(d) = Len(x) + (p - c)
  BY <1>1, DuringFrame
<1>3. Len(x) % 8 = 0 /\ Len(x) \div 8 <= MaxFrameLen - 1
  <2>1. Len(x) % 8 = 0
    BY <1>1 DEF FrameAt
  <2>2. Len(x) \div 8 \in MinFrameLen .. MaxFrameLen - 1
    BY DEF Due
  <2>. QED
    BY <2>1, <2>2, ConstantsAssumption DEF ConstantsAssumption
<1>4. Len(x) \in Nat /\ Len(d) \in Nat /\ MaxFrameLen \in Nat
  BY LenProperties, ConstantsAssumption DEF ConstantsAssumption
<1>5. PICK a \in Nat : a = Len(x)
  BY <1>4
<1>6. PICK b \in Nat : b = Len(d)
  BY <1>4
<1>7. CASE p <= c
  <2>1. b <= a /\ a \div 8 <= MaxFrameLen - 1 /\ b \div 8 >= MaxFrameLen
    BY <1>2, <1>3, <1>5, <1>6, <1>7
  <2>2. b \div 8 <= a \div 8
    BY <2>1
  <2>. QED
    BY <1>4, <2>1, <2>2
<1>8. CASE p > c
  <2>1. PICK k \in 1 .. 7 : k = p - c
    BY <1>2, <1>8
  <2>2. b = a + k /\ a % 8 = 0 /\ b % 8 = 0
    BY <1>2, <1>3, <1>5, <1>6, <1>8, <2>1
  <2>3. a = 8 * (a \div 8) /\ b = 8 * (b \div 8)
    BY <2>2
  <2>. QED
    BY <2>2, <2>3, SMTT(20)
<1>. QED
  BY <1>7, <1>8

\* The frame in progress is one that must be published, and the next bit
\* completes a flag.
ClosesFrame(reg, line, from, b0, p, octets, dec, n, more, c, x) ==
  /\ line \in Seq(Bit) /\ from \in Nat /\ b0 \in Nat /\ p \in Nat
  /\ octets \in Seq(Byte) /\ dec \in Byte /\ n \in 0 .. 7
  /\ InFrame(reg, line, from, b0, p, DataOf(octets, dec, n))
  /\ Quiet(line, b0, p)
  /\ p + 1 <= Len(line) /\ FlagEndsAt(line, p + 1)
  /\ Extends(more, line)
  /\ FrameAt(more, b0, c, x)

\* Then it is the flag that closes the frame.
LEMMA FlagCloses ==
  ASSUME NEW line, NEW reg, NEW from, NEW b0, NEW p, NEW octets, NEW dec, NEW n,
         NEW more, NEW c \in Nat, NEW x \in Seq(Bit),
         ClosesFrame(reg, line, from, b0, p, octets, dec, n, more, c, x)
  PROVE  /\ n = 7 /\ p = c + 7
         /\ Len(octets) = Len(x) \div 8
         /\ BytesOf(x) = octets
<1>. /\ line \in Seq(Bit) /\ from \in Nat /\ b0 \in Nat /\ p \in Nat
     /\ octets \in Seq(Byte) /\ dec \in Byte /\ n \in 0 .. 7
     /\ InFrame(reg, line, from, b0, p, DataOf(octets, dec, n))
     /\ Quiet(line, b0, p)
     /\ p + 1 <= Len(line) /\ FlagEndsAt(line, p + 1)
     /\ Extends(more, line)
     /\ FrameAt(more, b0, c, x)
  BY DEF ClosesFrame
<1>1. PICK d \in Seq(Bit) : d = DataOf(octets, dec, n)
  BY DataProperties
<1>2. /\ p <= c + 7
      /\ p > c => Len(d) = Len(x) + (p - c) /\ Extends(d, x)
  <2>1. InFrame(reg, line, from, b0, p, d)
    BY <1>1
  <2>. QED
    BY <2>1, DuringFrame
<1>3. b0 + 8 <= p
  BY DEF InFrame
<1>4. PICK s \in Nat : s = p + 1
  OBVIOUS
<1>5. FlagEndsAt(more, s)
  <2>1. s >= 8 /\ s <= Len(line) /\ FlagEndsAt(line, s)
    BY <1>3, <1>4
  <2>. QED
    BY <2>1, FlagExtends
<1>6. ~ (s \in b0 + 1 .. c + 7) /\ Len(x) % 8 = 0
  BY <1>5 DEF FrameAt
<1>7. p = c + 7
  BY <1>2, <1>3, <1>4, <1>6
<1>8. Len(d) = Len(x) + 7 /\ Extends(d, x)
  BY <1>2, <1>7
<1>9. Len(d) = 8 * Len(octets) + n /\ Len(octets) \in Nat
  BY <1>1, DataProperties
<1>10. n = 7 /\ Len(x) = 8 * Len(octets) /\ Len(x) \div 8 = Len(octets)
  <2>1. PICK a \in Nat : a = Len(x)
    BY LenProperties
  <2>2. PICK m \in Nat : m = Len(octets)
    BY <1>9
  <2>3. a + 7 = 8 * m + n /\ a % 8 = 0
    BY <1>6, <1>8, <1>9, <2>1, <2>2
  <2>4. PICK j \in Nat : j = a \div 8 /\ a = 8 * j
    BY <2>3
  <2>5. j = m
    BY <2>3, <2>4
  <2>6. n = 7 /\ a = 8 * m /\ a \div 8 = m
    BY <2>3, <2>4, <2>5
  <2>. QED
    BY <2>1, <2>2, <2>6
<1>11. BytesOf(x) = octets
  BY <1>1, <1>8, <1>10, OctetsOfData
<1>. QED
  BY <1>7, <1>10, <1>11

\* The flag the decoder holds on to.
Tracked(e) ==
  \/ state = "IN_SYNC" /\ e + decodedBits = Seen
  \/ state = "DECODING" /\ e + 1 = nitemsRead

\* In NO_SYNC: no flag is missed by the register.
SearchMisses ==
  state = "NO_SYNC" =>
    \E z \in Nat : /\ z <= Seen
                   /\ Holds(shiftReg, rx, Seen, z)
                   /\ ClearAt(z, rx, resets)

\* In DECODING: no flag is run over.
FrameIsQuiet == state = "DECODING" => Quiet(rx, nitemsRead - 1, Seen)

NoneForgotten ==
  \A e \in Nat :
    e <= Seen /\ Opening(rx, resets, e) => Tracked(e) \/ Settled(e, rx, out)

FlagInv == SearchMisses /\ FrameIsQuiet /\ NoneForgotten

\* The bits seen are on the line.
LEMMA SeenInLine ==
  ASSUME IInv
  PROVE  /\ Seen \in Nat /\ Seen <= Len(rx) /\ rx \in Seq(Bit) /\ Len(rx) \in Nat
         /\ Extends(rx, rx) /\ Len(out) \in Nat
<1>1. /\ nitemsRead \in Nat /\ i \in Nat /\ startIdx \in Nat /\ rx \in Seq(Bit)
      /\ Len(rx) \in Nat /\ Len(bitstream) \in Nat /\ Len(out) \in Nat
      /\ state \in States /\ pc \in {"idle", "scan"}
      /\ nitemsRead + Len(bitstream) = Len(rx)
  BY LenProperties DEF IInv, TypeOK, NoBitLost
<1>2. i <= Len(bitstream)
  BY DEF IInv, Cursors
<1>3. state # "NO_SYNC" => startIdx <= Len(bitstream)
  BY <1>1 DEF IInv, Cursors, States
<1>4. Seen \in Nat /\ Seen <= Len(rx)
  <2>1. CASE pc = "scan"
    BY <1>1, <1>2, <2>1 DEF Seen
  <2>2. CASE pc # "scan" /\ state = "NO_SYNC"
    BY <1>1, <2>2 DEF Seen
  <2>3. CASE pc # "scan" /\ state # "NO_SYNC"
    BY <1>1, <1>3, <2>3 DEF Seen
  <2>. QED
    BY <2>1, <2>2, <2>3
<1>. QED
  BY <1>1, <1>4, ExtendsSelf

LEMMA InitFlagInv == Init => FlagInv
<1>. SUFFICES ASSUME Init PROVE FlagInv
  OBVIOUS
<1>1. Seen = 0 /\ state = "NO_SYNC" /\ shiftReg = 0
  BY DEF Init, Seen
<1>2. Holds(0, rx, 0, 0)
  BY HoldsNothing
<1>3. ClearAt(0, rx, resets)
  BY DEF ClearAt, Opening
<1>4. SearchMisses
  BY <1>1, <1>2, <1>3 DEF SearchMisses
<1>5. NoneForgotten
  BY <1>1 DEF NoneForgotten, Opening
<1>. QED
  BY <1>1, <1>4, <1>5 DEF FlagInv, FrameIsQuiet

\* Nothing published is taken back.
LEMMA StepKeepsOut ==
  ASSUME IInv, Next
  PROVE  Kept(out', out) /\ Len(out') \in Nat
<1>1. out \in Seq(Pdus) /\ Len(out) \in Nat
  BY LenProperties DEF IInv, TypeOK
<1>2. CASE out' = out
  BY <1>1, <1>2 DEF Kept
<1>3. CASE out' # out
  <2>1. FrameEnd
    BY <1>3 DEF Next, Decode, Reset, Scan, NoSyncBit, NoSyncFlag, NoSyncEnd, InSyncBit,
                InSyncData, OutOfBits, MisalignedFlag, StuffedBit,
                InvalidBits, DataBit, WrongSize
  <2>2. PICK f \in Pdus : out' = Append(out, f)
    BY <1>3, <2>1, FrameEndOutcome
  <2>3. /\ Len(out') = Len(out) + 1
        /\ \A n \in 1 .. Len(out) : out'[n] = out[n]
    BY <1>1, <2>2, AppendProperties
  <2>. QED
    BY <1>1, <2>3 DEF Kept
<1>. QED
  BY <1>2, <1>3

\* A flag given up on stays so, on the same line.
LEMMA StaysSettled ==
  ASSUME IInv, Next, rx' = rx, NEW e, Settled(e, rx, out)
  PROVE  Settled(e, rx, out')
<1>1. PICK new : new = out'
  OBVIOUS
<1>2. Kept(new, out) /\ Len(new) \in Nat
  BY <1>1, StepKeepsOut
<1>3. Extends(rx, rx) /\ Len(out) \in Nat
  BY SeenInLine
<1>4. Settled(e, rx, new)
  BY <1>2, <1>3, SettledStays
<1>. QED
  BY <1>1, <1>4

LEMMA DecodeKeepsFlags ==
  ASSUME IInv, LineInv, FlagInv, NEW chunk \in Chunks, Decode(Line(chunk))
  PROVE  FlagInv'
<1>1. PICK more : more = rx' /\ Extends(more, rx)
  BY DecodeExtends
<1>2. /\ pc = "idle" /\ pc' = "scan"
      /\ i' = IF state = "NO_SYNC" THEN 0 ELSE startIdx
      /\ UNCHANGED <<state, shiftReg, decodedBits, startIdx, nitemsRead, resets, out>>
  BY DEF Decode, Continue
<1>3. PICK p \in Nat : p = Seen /\ p <= Len(rx)
  BY SeenInLine
<1>4. Seen' = p
  BY <1>2, <1>3 DEF Seen
<1>5. rx \in Seq(Bit) /\ Len(rx) \in Nat /\ Len(out) \in Nat
  BY SeenInLine
<1>6. SearchMisses'
  <2>1. SUFFICES ASSUME state = "NO_SYNC"
                 PROVE  \E z \in Nat : /\ z <= p
                                       /\ Holds(shiftReg, more, p, z)
                                       /\ ClearAt(z, more, resets)
    BY <1>1, <1>2, <1>4 DEF SearchMisses
  <2>2. PICK z \in Nat : z <= p /\ Holds(shiftReg, rx, p, z) /\ ClearAt(z, rx, resets)
    BY <1>3, <2>1 DEF FlagInv, SearchMisses
  <2>3. Holds(shiftReg, more, p, z)
    BY <1>1, <1>3, <2>2, HoldsExtends
  <2>4. ClearAt(z, more, resets)
    BY <1>1, <2>2, ClearStays
  <2>. QED
    BY <2>2, <2>3, <2>4
<1>7. FrameIsQuiet'
  <2>1. SUFFICES ASSUME state = "DECODING"
                 PROVE  Quiet(more, nitemsRead - 1, p)
    BY <1>1, <1>2, <1>4 DEF FrameIsQuiet
  <2>2. Quiet(rx, nitemsRead - 1, p) /\ nitemsRead \in Nat
    BY <1>3, <2>1 DEF FlagInv, FrameIsQuiet, IInv, TypeOK
  <2>3. nitemsRead - 1 \in Nat
    <3>1. frameStart + 1 \in Nat
      BY DEF IInv, TypeOK
    <3>2. InFrame(shiftReg, rx, frameStart + 1, nitemsRead - 1, Seen,
                  DataOf(frame, decB, decodedBits))
      BY <2>1 DEF LineInv
    <3>. QED
      BY <3>1, <3>2, HeadType
  <2>. QED
    BY <1>1, <1>3, <1>5, <2>2, <2>3, FlagBack DEF Quiet
<1>8. NoneForgotten'
  <2>1. SUFFICES ASSUME NEW e \in Nat, e <= p, Opening(more, resets, e)
                 PROVE  Tracked(e)' \/ Settled(e, more, out)
    BY <1>1, <1>2, <1>4 DEF NoneForgotten
  <2>2. Opening(rx, resets, e)
    <3>1. e <= Len(rx)
      BY <1>3, <1>5, <2>1
    <3>. QED
      BY <1>1, <2>1, <3>1, OpeningBack
  <2>3. Tracked(e) \/ Settled(e, rx, out)
    BY <1>3, <2>1, <2>2 DEF FlagInv, NoneForgotten
  <2>4. CASE Tracked(e)
    BY <1>2, <1>3, <1>4, <2>4 DEF Tracked
  <2>5. CASE Settled(e, rx, out)
    <3>1. Kept(out, out)
      BY <1>5 DEF Kept
    <3>. QED
      BY <1>1, <1>5, <2>5, <3>1, SettledStays
  <2>. QED
    BY <2>3, <2>4, <2>5
<1>. QED
  BY <1>6, <1>7, <1>8 DEF FlagInv

LEMMA ResetKeepsFlags ==
  ASSUME IInv, IInv', FlagInv, Reset
  PROVE  FlagInv'
<1>1. /\ state' = "NO_SYNC" /\ shiftReg' = 0 /\ rx' = rx /\ pc' = "idle"
      /\ nitemsRead' = nitemsRead
      /\ resets' = Append(resets, [sent |-> Len(rx), published |-> Len(out)])
  BY DEF Reset, ClearedTo, env
<1>2. PICK p \in Nat : p = nitemsRead /\ p <= Len(rx)
  <2>1. nitemsRead \in Nat /\ nitemsRead + Len(bitstream) = Len(rx) /\ Len(bitstream) \in Nat
    BY LenProperties DEF IInv, TypeOK, NoBitLost
  <2>. QED
    BY <2>1
<1>3. Seen' = p
  <2>1. p + 0 = p
    OBVIOUS
  <2>2. Seen' = p + 0
    BY <1>1, <1>2 DEF Seen
  <2>. QED
    BY <2>1, <2>2
<1>4. PICK gone : gone = resets'
  OBVIOUS
<1>5. rx \in Seq(Bit) /\ Len(rx) \in Nat
  BY SeenInLine
<1>6. ASSUME NEW more, NEW e \in Nat, Opening(more, gone, e)
      PROVE  p + 7 < e /\ Len(rx) + 7 < e
  <2>1. PICK r \in [sent : Nat, published : Nat] : r = [sent |-> Len(rx), published |-> Len(out)]
    BY <1>5, SeenInLine
  <2>2. resets \in Seq([sent : Nat, published : Nat])
    BY DEF IInv, TypeOK
  <2>3. Len(gone) = Len(resets) + 1 /\ gone[Len(resets) + 1] = r /\ Len(resets) \in Nat
    BY <1>1, <1>4, <2>1, <2>2, AppendProperties, LenProperties
  <2>4. PICK n \in 1 .. Len(gone) : gone[n].sent = Len(rx)
    <3>1. Len(resets) + 1 \in 1 .. Len(gone)
      BY <2>3
    <3>2. gone[Len(resets) + 1].sent = Len(rx)
      BY <2>1, <2>3
    <3>. QED
      BY <3>1, <3>2
  <2>5. Len(rx) < e - 7
    BY <1>6, <2>4 DEF Opening
  <2>. QED
    BY <1>2, <1>5, <2>5
<1>7. SearchMisses'
  <2>1. Holds(0, rx, p, p)
    BY HoldsNothing
  <2>2. ClearAt(p, rx, gone)
    BY <1>6 DEF ClearAt
  <2>3. p <= p
    OBVIOUS
  <2>. QED
    BY <1>1, <1>3, <1>4, <2>1, <2>2, <2>3 DEF SearchMisses
<1>8. NoneForgotten'
  <2>1. \A e \in Nat : ~ (e <= p /\ Opening(rx, gone, e))
    BY <1>6
  <2>. QED
    BY <1>1, <1>3, <1>4, <2>1 DEF NoneForgotten
<1>. QED
  BY <1>1, <1>7, <1>8 DEF FlagInv, FrameIsQuiet

\* A flag ends here and the register was cleared early enough to see it.
LEMMA FlagInRegister ==
  ASSUME NEW reg \in Byte, NEW line, NEW e \in Nat, NEW z \in Nat, z + 7 <= e,
         Holds(reg, line, e, z), FlagEndsAt(line, e)
  PROVE  reg = SyncFlag
<1>1. /\ ByteBits(reg)[1] = IF e - 7 > z THEN line[e - 7] ELSE 0
      /\ ByteBits(reg)[2] = IF e - 6 > z THEN line[e - 6] ELSE 0
      /\ ByteBits(reg)[3] = IF e - 5 > z THEN line[e - 5] ELSE 0
      /\ ByteBits(reg)[4] = IF e - 4 > z THEN line[e - 4] ELSE 0
      /\ ByteBits(reg)[5] = IF e - 3 > z THEN line[e - 3] ELSE 0
      /\ ByteBits(reg)[6] = IF e - 2 > z THEN line[e - 2] ELSE 0
      /\ ByteBits(reg)[7] = IF e - 1 > z THEN line[e - 1] ELSE 0
      /\ ByteBits(reg)[8] = IF e > z THEN line[e] ELSE 0
  BY DEF Holds
<1>2. line[e - 7] = 0 /\ line[e] = 0 /\ \A k \in 1 .. 6 : line[e - k] = 1
  BY DEF FlagEndsAt
<1>3. /\ line[e - 1] = 1 /\ line[e - 2] = 1 /\ line[e - 3] = 1
      /\ line[e - 4] = 1 /\ line[e - 5] = 1 /\ line[e - 6] = 1
  BY <1>2
<1>4. e - 6 > z /\ e - 5 > z /\ e - 4 > z /\ e - 3 > z /\ e - 2 > z /\ e - 1 > z /\ e > z
  OBVIOUS
<1>5. /\ ByteBits(reg)[1] = 0 /\ ByteBits(reg)[2] = 1 /\ ByteBits(reg)[3] = 1
      /\ ByteBits(reg)[4] = 1 /\ ByteBits(reg)[5] = 1 /\ ByteBits(reg)[6] = 1
      /\ ByteBits(reg)[7] = 1 /\ ByteBits(reg)[8] = 0
  BY <1>1, <1>2, <1>3, <1>4
<1>6. PICK b \in Bit : b = 0
  BY DEF Bit
<1>. QED
  BY <1>5, <1>6, RegisterBits

LEMMA NoSyncKeepsFlags ==
  ASSUME IInv, FlagInv, NoSyncBit \/ NoSyncFlag \/ NoSyncEnd
  PROVE  FlagInv'
<1>1. /\ state = "NO_SYNC" /\ pc = "scan" /\ rx' = rx /\ resets' = resets /\ out' = out
  BY DEF NoSyncBit, NoSyncFlag, NoSyncEnd, InScan, env
<1>2. /\ i \in Nat /\ nitemsRead \in Nat /\ rx \in Seq(Bit) /\ shiftReg \in Byte
      /\ Seen = nitemsRead + i
  BY <1>1, NextIsLine DEF IInv, TypeOK
<1>3. PICK p \in Nat : p = Seen
  BY <1>1, NextIsLine
<1>4. PICK z \in Nat : z <= p /\ Holds(shiftReg, rx, p, z) /\ ClearAt(z, rx, resets)
  BY <1>1, <1>3 DEF FlagInv, SearchMisses
<1>5. ASSUME NEW e \in Nat, e <= p, Opening(rx, resets, e)
      PROVE  Settled(e, rx, out)
  BY <1>1, <1>3, <1>5 DEF FlagInv, NoneForgotten, Tracked
<1>6. CASE NoSyncBit
  <2>1. p + 1 <= Len(rx) /\ NextReg = ShiftIn(shiftReg, rx[p + 1]) /\ NextReg # SyncFlag
    BY <1>1, <1>3, <1>6, NextIsLine DEF NoSyncBit, NextReg
  <2>2. Seen' = p + 1 /\ shiftReg' = NextReg /\ state' = "NO_SYNC"
    BY <1>1, <1>2, <1>3, <1>6 DEF NoSyncBit, Seen
  <2>3. Holds(NextReg, rx, p + 1, z) /\ z <= p + 1
    BY <1>2, <1>4, <2>1, HoldsShift
  <2>4. SearchMisses'
    BY <1>1, <1>4, <2>2, <2>3 DEF SearchMisses
  <2>5. ~ Opening(rx, resets, p + 1)
    <3>. SUFFICES ASSUME Opening(rx, resets, p + 1) PROVE FALSE
      OBVIOUS
    <3>1. PICK e \in Nat : e = p + 1
      OBVIOUS
    <3>2. z + 7 <= e
      <4>1. Extends(rx, rx)
        BY SeenInLine
      <4>2. z < e /\ Opening(rx, resets, e)
        BY <1>4, <3>1
      <4>. QED
        BY <1>4, <4>1, <4>2 DEF ClearAt
    <3>3. FlagEndsAt(rx, e)
      BY <3>1 DEF Opening
    <3>4. PICK reg \in Byte : reg = NextReg
      BY <1>6, NextRegType DEF NoSyncBit, IInv
    <3>5. reg = SyncFlag
      BY <2>3, <3>1, <3>2, <3>3, <3>4, FlagInRegister
    <3>. QED
      BY <2>1, <3>4, <3>5
  <2>6. \A e \in Nat : e <= p + 1 /\ Opening(rx, resets, e) => Settled(e, rx, out)
    <3>1. \A e \in Nat : e <= p + 1 => e <= p \/ e = p + 1
      OBVIOUS
    <3>. QED
      BY <1>5, <2>5, <3>1
  <2>7. NoneForgotten'
    BY <1>1, <2>2, <2>6 DEF NoneForgotten
  <2>. QED
    BY <2>2, <2>4, <2>7 DEF FlagInv, FrameIsQuiet
<1>7. CASE NoSyncFlag
  <2>1. Seen' = p + 1 /\ state' = "IN_SYNC" /\ decodedBits' = 0
    BY <1>1, <1>2, <1>3, <1>7 DEF NoSyncFlag, Continue, Consume, Seen, ClearedTo
  <2>2. ASSUME NEW e \in Nat, e <= p + 1, Opening(rx, resets, e)
        PROVE  Tracked(e)' \/ Settled(e, rx, out)
    <3>1. CASE e <= p
      BY <1>5, <2>2, <3>1
    <3>2. CASE e = p + 1
      <4>1. e + 0 = p + 1
        BY <3>2
      <4>. QED
        BY <2>1, <4>1 DEF Tracked
    <3>. QED
      BY <2>2, <3>1, <3>2
  <2>3. NoneForgotten'
    BY <1>1, <2>1, <2>2 DEF NoneForgotten
  <2>. QED
    BY <2>1, <2>3 DEF FlagInv, FrameIsQuiet, SearchMisses
<1>8. CASE NoSyncEnd
  <2>1. Seen' = p /\ state' = "NO_SYNC" /\ shiftReg' = shiftReg
    BY <1>1, <1>2, <1>3, <1>8 DEF NoSyncEnd, Return, Consume, Seen
  <2>2. SearchMisses'
    BY <1>1, <1>4, <2>1 DEF SearchMisses
  <2>3. NoneForgotten'
    BY <1>1, <1>5, <2>1 DEF NoneForgotten
  <2>. QED
    BY <2>1, <2>2, <2>3 DEF FlagInv, FrameIsQuiet
<1>. QED
  BY <1>6, <1>7, <1>8

\* Behind a flag that another flag follows there is no frame.
LEMMA FlagSettles ==
  ASSUME NEW line, NEW b \in Nat, b + 8 <= Len(line), FlagEndsAt(line, b + 8), NEW frames
  PROVE  Settled(b, line, frames)
<1>. SUFFICES ASSUME NEW more, Extends(more, line), NEW c \in Nat, NEW x \in Seq(Bit),
                     Due(more, b, c, x)
              PROVE  FALSE
  BY DEF Settled
<1>1. PICK s \in Nat : s = b + 8
  OBVIOUS
<1>2. FlagEndsAt(more, s)
  <2>1. s >= 8 /\ s <= Len(line) /\ FlagEndsAt(line, s)
    BY <1>1
  <2>. QED
    BY <2>1, FlagExtends
<1>3. FrameAt(more, b, c, x)
  BY DEF Due
<1>4. s \in b + 1 .. c + 7
  BY <1>1, <1>3 DEF FrameAt
<1>. QED
  BY <1>2, <1>3, <1>4 DEF FrameAt

LEMMA InSyncKeepsFlags ==
  ASSUME IInv, LineInv, FlagInv, InSyncBit \/ InSyncData
  PROVE  FlagInv'
<1>1. /\ state = "IN_SYNC" /\ pc = "scan" /\ rx' = rx /\ resets' = resets /\ out' = out
  BY DEF InSyncBit, InSyncData, InScan, env
<1>2. /\ i \in Nat /\ nitemsRead \in Nat /\ rx \in Seq(Bit) /\ Len(rx) \in Nat
      /\ shiftReg \in Byte /\ Seen = nitemsRead + i
      /\ AtFlags(shiftReg, decB, decodedBits, rx, frameStart + 1, Seen)
  BY <1>1, NextIsLine, LenProperties DEF IInv, TypeOK, LineInv
<1>3. PICK p \in Nat : p = Seen
  BY <1>1, NextIsLine
<1>4. PICK from \in Nat : from = frameStart + 1
  BY DEF IInv, TypeOK
<1>5. PICK n \in 0 .. 7 : n = decodedBits
  BY DEF IInv, TypeOK
<1>6. p + 1 <= Len(rx) /\ NextReg = ShiftIn(shiftReg, rx[p + 1])
  BY <1>1, <1>3, NextIsLine DEF InSyncBit, InSyncData, NextReg
<1>7. PICK new \in Byte : new = NextReg
  BY NextRegType DEF InSyncBit, InSyncData, IInv
<1>8. /\ TailAt(rx, from) /\ Holds(shiftReg, rx, p, from)
      /\ \E flags \in Nat : p = from + 8 * flags + n /\ IdleFlags(rx, from, flags)
  BY <1>2, <1>3, <1>4, <1>5 DEF AtFlags
<1>9. PICK flags \in Nat : p = from + 8 * flags + n /\ IdleFlags(rx, from, flags)
  BY <1>8
<1>10. PICK b \in Nat : b = from + 8 * flags
  OBVIOUS
<1>11. p = b + n /\ from <= b
  BY <1>9, <1>10
<1>12. TailAt(rx, b)
  <2>1. from + 8 * flags <= Len(rx)
    BY <1>2, <1>6, <1>10, <1>11
  <2>. QED
    BY <1>8, <1>9, <1>10, <2>1, FlagsTail
<1>13. Holds(new, rx, p + 1, from)
  <2>1. from <= p
    BY <1>11
  <2>. QED
    BY <1>2, <1>6, <1>7, <1>8, <2>1, HoldsShift
<1>14. ASSUME NEW e \in Nat, e <= p, Opening(rx, resets, e)
       PROVE  e = b \/ Settled(e, rx, out)
  <2>1. Tracked(e) \/ Settled(e, rx, out)
    BY <1>3, <1>14 DEF FlagInv, NoneForgotten
  <2>2. Tracked(e) => e = b
    BY <1>1, <1>3, <1>5, <1>11 DEF Tracked
  <2>. QED
    BY <2>1, <2>2
<1>15. n = 7 => (new = SyncFlag <=> FlagEndsAt(rx, p + 1))
  <2>. SUFFICES ASSUME n = 7 PROVE new = SyncFlag <=> FlagEndsAt(rx, p + 1)
    OBVIOUS
  <2>1. PICK e \in Nat : e = p + 1
    OBVIOUS
  <2>2. from + 8 <= e /\ Holds(new, rx, e, from)
    BY <1>11, <1>13, <2>1
  <2>3. new = SyncFlag <=> FlagEndsAt(rx, e)
    BY <2>2, HoldsMeaning
  <2>. QED
    BY <2>1, <2>3
<1>16. CASE InSyncBit
  <2>1. /\ Seen' = p + 1 /\ state' = "IN_SYNC" /\ decodedBits' = (n + 1) % 8
        /\ n = 7 => new = SyncFlag
    BY <1>1, <1>2, <1>3, <1>5, <1>7, <1>16 DEF InSyncBit, Seen
  <2>2. ASSUME NEW e \in Nat, e <= p + 1, Opening(rx, resets, e)
        PROVE  Tracked(e)' \/ Settled(e, rx, out)
    <3>1. CASE n = 7
      <4>1. decodedBits' = 0
        BY <2>1, <3>1
      <4>2. Settled(b, rx, out)
        <5>1. p + 1 = b + 8
          BY <1>11, <3>1
        <5>2. FlagEndsAt(rx, b + 8) /\ b + 8 <= Len(rx)
          BY <1>6, <1>15, <2>1, <3>1, <5>1
        <5>. QED
          BY <5>2, FlagSettles
      <4>3. CASE e = p + 1
        <5>1. e + 0 = p + 1
          BY <4>3
        <5>. QED
          BY <2>1, <4>1, <5>1 DEF Tracked
      <4>4. CASE e <= p
        BY <1>14, <2>2, <4>2, <4>4
      <4>. QED
        BY <2>2, <4>3, <4>4
    <3>2. CASE n # 7
      <4>1. decodedBits' = n + 1
        BY <2>1, <3>2
      <4>2. e # p + 1
        <5>1. p + 1 \in b + 1 .. b + 7
          BY <1>11, <3>2
        <5>. QED
          BY <1>12, <2>2, <5>1, BehindTail
      <4>3. e = b \/ Settled(e, rx, out)
        BY <1>14, <2>2, <4>2
      <4>4. ASSUME e = b
            PROVE  Tracked(e)'
        <5>1. e + (n + 1) = p + 1
          BY <1>11, <4>4
        <5>. QED
          BY <2>1, <4>1, <5>1 DEF Tracked
      <4>. QED
        BY <4>3, <4>4
    <3>. QED
      BY <3>1, <3>2
  <2>3. NoneForgotten'
    BY <1>1, <2>1, <2>2 DEF NoneForgotten
  <2>. QED
    BY <2>1, <2>3 DEF FlagInv, FrameIsQuiet, SearchMisses
<1>17. CASE InSyncData
  <2>1. /\ n = 7 /\ new # SyncFlag /\ state' = "DECODING"
        /\ pc' = "scan" /\ i' = 7 /\ nitemsRead' = nitemsRead + (i + 1 - 7)
    BY <1>5, <1>7, <1>17 DEF InSyncData, Continue, Consume
  <2>2. Seen' = p + 1
    BY <1>2, <1>3, <2>1 DEF Seen
  <2>3. nitemsRead' = b + 1 /\ nitemsRead' - 1 = b
    BY <1>2, <1>3, <1>11, <2>1
  <2>4. Quiet(rx, b, p + 1)
    <3>1. \A s \in b + 8 .. p + 1 : s = p + 1
      BY <1>11, <2>1
    <3>2. ~ FlagEndsAt(rx, p + 1)
      BY <1>15, <2>1
    <3>. QED
      BY <3>1, <3>2 DEF Quiet
  <2>5. FrameIsQuiet'
    BY <1>1, <2>2, <2>3, <2>4 DEF FrameIsQuiet
  <2>6. ~ Opening(rx, resets, p + 1)
    <3>1. PICK s \in Nat : s = p + 1
      OBVIOUS
    <3>2. s \in b + 1 .. s /\ Quiet(rx, b, s)
      BY <1>11, <2>4, <3>1
    <3>3. ~ Opening(rx, resets, s)
      BY <1>12, <3>2, QuietOpening
    <3>. QED
      BY <3>1, <3>3
  <2>7. ASSUME NEW e \in Nat, e <= p + 1, Opening(rx, resets, e)
        PROVE  Tracked(e)' \/ Settled(e, rx, out)
    <3>1. e <= p
      BY <2>6, <2>7
    <3>2. e = b => Tracked(e)'
      BY <2>1, <2>3 DEF Tracked
    <3>. QED
      BY <1>14, <2>7, <3>1, <3>2
  <2>8. NoneForgotten'
    BY <1>1, <2>2, <2>7 DEF NoneForgotten
  <2>. QED
    BY <2>1, <2>5, <2>8 DEF FlagInv, SearchMisses
<1>. QED
  BY <1>16, <1>17

LEMMA OutOfBitsKeepsFlags ==
  ASSUME FlagInv, OutOfBits
  PROVE  FlagInv'
<1>1. /\ state \in {"IN_SYNC", "DECODING"} /\ pc = "scan" /\ pc' = "idle"
      /\ startIdx' = i
      /\ UNCHANGED <<state, shiftReg, decodedBits, rx, nitemsRead, resets, out>>
  BY DEF OutOfBits, Return, env
<1>2. Seen' = Seen
  BY <1>1 DEF Seen
<1>. QED
  BY <1>1, <1>2 DEF FlagInv, SearchMisses, FrameIsQuiet, NoneForgotten, Tracked

\* What is known of the frame in progress.
InProgress(from, b0, p) ==
  /\ b0 + 1 = nitemsRead /\ nitemsRead - 1 = b0 /\ p = Seen /\ p = nitemsRead + i
  /\ p + 1 <= Len(rx) /\ b0 + 8 <= p
  /\ InFrame(shiftReg, rx, from, b0, p, DataOf(frame, decB, decodedBits))
  /\ NextReg = ShiftIn(shiftReg, rx[p + 1])
  /\ Quiet(rx, b0, p)
  /\ TailAt(rx, b0)
  /\ \A e \in Nat : e <= p /\ Opening(rx, resets, e) => e = b0 \/ Settled(e, rx, out)

LEMMA FrameNow ==
  ASSUME IInv, LineInv, FlagInv, InScan("DECODING"), i < Len(bitstream)
  PROVE  \E from, b0, p \in Nat : InProgress(from, b0, p)
<1>1. state = "DECODING" /\ pc = "scan"
  BY DEF InScan
<1>2. /\ i \in Nat /\ nitemsRead \in Nat /\ rx \in Seq(Bit) /\ Len(rx) \in Nat
      /\ Seen = nitemsRead + i
      /\ InFrame(shiftReg, rx, frameStart + 1, nitemsRead - 1, Seen,
                 DataOf(frame, decB, decodedBits))
  BY <1>1, NextIsLine, LenProperties DEF IInv, TypeOK, LineInv
<1>3. PICK p \in Nat : p = Seen
  BY <1>1, NextIsLine
<1>4. PICK from \in Nat : from = frameStart + 1
  BY DEF IInv, TypeOK
<1>5. PICK b0 \in Nat : b0 = nitemsRead - 1
  BY <1>2, <1>4, HeadType
<1>6. InFrame(shiftReg, rx, from, b0, p, DataOf(frame, decB, decodedBits))
  BY <1>2, <1>3, <1>4, <1>5
<1>7. p + 1 <= Len(rx) /\ NextReg = ShiftIn(shiftReg, rx[p + 1])
  BY <1>1, <1>3, NextIsLine DEF NextReg
<1>8. /\ b0 + 8 <= p /\ TailAt(rx, from)
      /\ \E flags \in Nat : b0 = from + 8 * flags /\ IdleFlags(rx, from, flags)
  BY <1>6 DEF InFrame
<1>9. TailAt(rx, b0)
  <2>1. PICK flags \in Nat : b0 = from + 8 * flags /\ IdleFlags(rx, from, flags)
    BY <1>8
  <2>2. from + 8 * flags <= Len(rx)
    BY <1>2, <1>7, <1>8, <2>1
  <2>. QED
    BY <1>2, <1>8, <2>1, <2>2, FlagsTail
<1>10. Quiet(rx, b0, p)
  BY <1>1, <1>3, <1>5 DEF FlagInv, FrameIsQuiet
<1>11. b0 + 1 = nitemsRead /\ p = nitemsRead + i
  BY <1>2, <1>3, <1>5
<1>12. ASSUME NEW e \in Nat, e <= p, Opening(rx, resets, e)
       PROVE  e = b0 \/ Settled(e, rx, out)
  <2>1. Tracked(e) \/ Settled(e, rx, out)
    BY <1>3, <1>12 DEF FlagInv, NoneForgotten
  <2>2. Tracked(e) => e = b0
    BY <1>1, <1>11 DEF Tracked
  <2>. QED
    BY <2>1, <2>2
<1>. QED
  BY <1>3, <1>5, <1>6, <1>7, <1>8, <1>9, <1>10, <1>11, <1>12 DEF InProgress

LEMMA DecodingKeepsFlags ==
  ASSUME IInv, LineInv, FlagInv, StuffedBit \/ DataBit
  PROVE  FlagInv'
<1>1. /\ InScan("DECODING") /\ i < Len(bitstream)
      /\ state' = "DECODING" /\ pc' = "scan"
      /\ rx' = rx /\ nitemsRead' = nitemsRead /\ i' = i + 1
      /\ resets' = resets /\ out' = out /\ NextReg # SyncFlag
  BY DEF StuffedBit, DataBit, IsDataBit, InScan, env
<1>2. PICK from \in Nat, b0 \in Nat, p \in Nat : InProgress(from, b0, p)
  BY <1>1, FrameNow
<1>3. Seen' = p + 1
  <2>1. p = nitemsRead + i /\ i \in Nat /\ nitemsRead \in Nat
    BY <1>2 DEF InProgress, IInv, TypeOK
  <2>. QED
    BY <1>1, <2>1 DEF Seen
<1>4. shiftReg \in Byte /\ rx \in Seq(Bit)
  BY DEF IInv, TypeOK
<1>5. PICK d : d = DataOf(frame, decB, decodedBits)
  OBVIOUS
<1>6. ~ FlagEndsAt(rx, p + 1)
  <2>1. p + 1 <= Len(rx) /\ InFrame(shiftReg, rx, from, b0, p, d)
        /\ NextReg = ShiftIn(shiftReg, rx[p + 1])
    BY <1>2, <1>5 DEF InProgress
  <2>. QED
    BY <1>1, <1>4, <2>1, FrameBit
<1>7. Quiet(rx, b0, p + 1)
  <2>1. Quiet(rx, b0, p)
    BY <1>2 DEF InProgress
  <2>2. \A s \in b0 + 8 .. p + 1 : s \in b0 + 8 .. p \/ s = p + 1
    OBVIOUS
  <2>. QED
    BY <1>6, <2>1, <2>2 DEF Quiet
<1>8. nitemsRead - 1 = b0 /\ b0 + 1 = nitemsRead /\ b0 + 8 <= p /\ TailAt(rx, b0)
  BY <1>2 DEF InProgress
<1>9. FrameIsQuiet'
  BY <1>1, <1>3, <1>7, <1>8 DEF FrameIsQuiet
<1>10. ~ Opening(rx, resets, p + 1)
  <2>1. PICK s \in Nat : s = p + 1
    OBVIOUS
  <2>2. s \in b0 + 1 .. s /\ Quiet(rx, b0, s)
    BY <1>7, <1>8, <2>1
  <2>3. ~ Opening(rx, resets, s)
    BY <1>8, <2>2, QuietOpening
  <2>. QED
    BY <2>1, <2>3
<1>11. ASSUME NEW e \in Nat, e <= p + 1, Opening(rx, resets, e)
       PROVE  Tracked(e)' \/ Settled(e, rx, out)
  <2>1. e <= p
    BY <1>10, <1>11
  <2>2. e = b0 \/ Settled(e, rx, out)
    BY <1>2, <1>11, <2>1 DEF InProgress
  <2>3. e = b0 => Tracked(e)'
    BY <1>1, <1>8 DEF Tracked
  <2>. QED
    BY <2>2, <2>3
<1>12. NoneForgotten'
  BY <1>1, <1>3, <1>11 DEF NoneForgotten
<1>. QED
  BY <1>1, <1>9, <1>12 DEF FlagInv, SearchMisses

\* No flag that ends behind this place is one the decoder has run over.
LEMMA LeavingMissesNone ==
  ASSUME NEW line, Len(line) \in Nat, NEW b0 \in Nat, NEW p \in Nat, p <= Len(line),
         TailAt(line, b0), Quiet(line, b0, p), NEW gone,
         NEW z \in Nat, b0 <= z, z + 6 <= p
  PROVE  ClearAt(z, line, gone)
<1>. SUFFICES ASSUME NEW more, Extends(more, line), NEW e \in Nat,
                     Opening(more, gone, e), z < e, ~ (z + 7 <= e)
              PROVE  FALSE
  BY DEF ClearAt
<1>1. e \in b0 + 1 .. p /\ e <= Len(line)
  OBVIOUS
<1>2. Opening(line, gone, e)
  BY <1>1, OpeningBack
<1>. QED
  BY <1>1, <1>2, QuietOpening

\* The flag in front of the frame is settled when the frame is left.
LEMMA LeavingSettles ==
  ASSUME IInv, LineInv, FlagInv, MisalignedFlag \/ FrameEnd \/ InvalidBits \/ WrongSize,
         NEW from \in Nat, NEW b0 \in Nat, NEW p \in Nat, InProgress(from, b0, p)
  PROVE  Settled(b0, rx, out')
<1>1. /\ rx \in Seq(Bit) /\ shiftReg \in Byte /\ frame \in Seq(Byte) /\ decB \in Byte
      /\ decodedBits \in 0 .. 7
  BY DEF IInv, TypeOK
<1>2. PICK n \in 0 .. 7 : n = decodedBits
  BY <1>1
<1>3. PICK d \in Seq(Bit) : d = DataOf(frame, decB, n)
  BY <1>1, DataProperties
<1>4. /\ p + 1 <= Len(rx) /\ b0 + 8 <= p
      /\ InFrame(shiftReg, rx, from, b0, p, d)
      /\ InFrame(shiftReg, rx, from, b0, p, DataOf(frame, decB, n))
      /\ NextReg = ShiftIn(shiftReg, rx[p + 1])
      /\ Quiet(rx, b0, p)
  BY <1>2, <1>3 DEF InProgress
<1>5. PICK new : new = NextReg
  OBVIOUS
<1>6. /\ rx[p + 1] \in Bit
      /\ new = SyncFlag <=> FlagEndsAt(rx, p + 1)
      /\ IsAbort(new) <=> \A k \in 0 .. 6 : rx[(p + 1) - k] = 1
  BY <1>1, <1>4, <1>5, FrameBit
<1>7. CASE InvalidBits
  <2>1. IsAbort(new)
    BY <1>5, <1>7 DEF InvalidBits
  <2>. QED
    BY <1>1, <1>4, <1>6, <2>1, AbortSettles
<1>8. CASE WrongSize
  <2>1. /\ new # SyncFlag /\ ~ IsStuffed(new) /\ ~ IsAbort(new)
        /\ n = 7 /\ Len(frame) + 1 >= MaxFrameLen
    BY <1>2, <1>5, <1>8 DEF WrongSize, IsDataBit
  <2>2. PICK q \in Nat : q = p + 1
    OBVIOUS
  <2>3. PICK x \in Seq(Bit) : x = Append(d, rx[p + 1])
    BY <1>6, AppendProperties
  <2>4. InFrame(new, rx, from, b0, q, x)
    BY <1>1, <1>4, <1>5, <2>1, <2>2, <2>3, FrameData
  <2>5. Quiet(rx, b0, q)
    <3>1. \A s \in b0 + 8 .. q : s \in b0 + 8 .. p \/ s = p + 1
      BY <2>2
    <3>. QED
      BY <1>4, <1>6, <2>1, <3>1 DEF Quiet
  <2>6. Len(x) % 8 = 0 /\ Len(x) \div 8 >= MaxFrameLen
    <3>1. PICK m \in Nat : m = Len(frame)
      BY <1>1, LenProperties
    <3>2. Len(d) = 8 * m + 7
      BY <1>1, <1>3, <2>1, <3>1, DataProperties
    <3>3. Len(x) = Len(d) + 1
      BY <1>6, <2>3, AppendProperties
    <3>4. PICK len \in Nat : len = Len(x)
      BY LenProperties
    <3>5. len = 8 * (m + 1)
      BY <3>2, <3>3, <3>4
    <3>6. len % 8 = 0 /\ len \div 8 = m + 1
      BY <3>5
    <3>. QED
      BY <2>1, <3>1, <3>4, <3>6
  <2>. QED
    BY <1>1, <2>4, <2>5, <2>6, FullSettles
<1>9. CASE MisalignedFlag \/ FrameEnd
  <2>1. FlagEndsAt(rx, p + 1)
    BY <1>5, <1>6, <1>9 DEF MisalignedFlag, FrameEnd
  <2>. SUFFICES ASSUME NEW more, Extends(more, rx), NEW c \in Nat, NEW x \in Seq(Bit),
                       Due(more, b0, c, x)
                PROVE  Among(out', BytesOf(x), c + 7)
    BY DEF Settled
  <2>2. FrameAt(more, b0, c, x)
    BY DEF Due
  <2>3. /\ n = 7 /\ p = c + 7
        /\ Len(frame) = Len(x) \div 8
        /\ BytesOf(x) = frame
    <3>1. ClosesFrame(shiftReg, rx, from, b0, p, frame, decB, n, more, c, x)
      BY <1>1, <1>4, <2>1, <2>2 DEF ClosesFrame
    <3>. QED
      BY <3>1, FlagCloses
  <2>4. Len(frame) >= MinFrameLen /\ IsFrameValid(frame)
    <3>1. Len(frame) \in MinFrameLen .. MaxFrameLen - 1 /\ IsFrameValid(frame)
      BY <2>3 DEF Due
    <3>. QED
      BY <3>1
  <2>5. FrameEnd
    BY <1>2, <1>9, <2>3 DEF MisalignedFlag
  <2>6. out' = Append(out, Metadata(frame, TRUE))
    <3>1. MinFrameLen \in Nat /\ Len(frame) \in Nat
      BY <1>1, LenProperties, ConstantsAssumption DEF ConstantsAssumption
    <3>2. ~ (Len(frame) < MinFrameLen)
      BY <2>4, <3>1
    <3>. QED
      BY <2>4, <2>5, <3>2 DEF FrameEnd, EnterFrameEnd, Publish
  <2>7. PICK f \in Pdus : /\ f = Metadata(frame, TRUE)
                          /\ f.start + f.cnt = nitemsRead + i
                          /\ f.raw = frame
    <3>1. i \in Nat /\ nitemsRead \in Nat /\ frameStart \in Nat /\ frameStart <= nitemsRead
      BY <2>5 DEF FrameEnd, InScan, IInv, TypeOK, FrameInProgress
    <3>2. /\ Metadata(frame, TRUE) \in Pdus
          /\ Metadata(frame, TRUE).start + Metadata(frame, TRUE).cnt = nitemsRead + i
      BY <1>1, <3>1, MetadataType
    <3>3. Metadata(frame, TRUE).raw = frame
      BY DEF Metadata
    <3>. QED
      BY <3>2, <3>3
  <2>8. f.start + f.cnt = c + 7
    BY <2>3, <2>7 DEF InProgress
  <2>9. Len(out) \in Nat /\ out \in Seq(Pdus)
    BY LenProperties DEF IInv, TypeOK
  <2>10. PICK new1 : new1 = out'
    OBVIOUS
  <2>11. Len(new1) = Len(out) + 1 /\ new1[Len(out) + 1] = f
    BY <2>6, <2>7, <2>9, <2>10, AppendProperties
  <2>12. Len(out) + 1 \in 1 .. Len(new1)
    BY <2>9, <2>11
  <2>. QED
    BY <2>3, <2>7, <2>8, <2>10, <2>11, <2>12 DEF Among
<1>. QED
  BY <1>7, <1>8, <1>9

LEMMA LeavingKeepsFlags ==
  ASSUME IInv, LineInv, FlagInv, MisalignedFlag \/ FrameEnd \/ InvalidBits \/ WrongSize
  PROVE  FlagInv'
<1>1. /\ InScan("DECODING") /\ i < Len(bitstream)
      /\ rx' = rx /\ resets' = resets
  BY DEF MisalignedFlag, FrameEnd, InvalidBits, WrongSize, env
<1>2. PICK from \in Nat, b0 \in Nat, p \in Nat : InProgress(from, b0, p)
  BY <1>1, FrameNow
<1>3. /\ b0 + 1 = nitemsRead /\ p = nitemsRead + i /\ p + 1 <= Len(rx) /\ b0 + 8 <= p
      /\ Quiet(rx, b0, p) /\ TailAt(rx, b0)
      /\ \A e \in Nat : e <= p /\ Opening(rx, resets, e) => e = b0 \/ Settled(e, rx, out)
  BY <1>2 DEF InProgress
<1>4. rx \in Seq(Bit) /\ Len(rx) \in Nat /\ i \in Nat /\ nitemsRead \in Nat
  BY LenProperties DEF IInv, TypeOK
<1>5. state' = "NO_SYNC" /\ shiftReg' = 0
  BY DEF MisalignedFlag, FrameEnd, EnterFrameEnd, InvalidBits, WrongSize, ClearedTo
<1>6. pc' = "scan" => i' = 0
  BY DEF MisalignedFlag, FrameEnd, InvalidBits, WrongSize, Continue, Return
<1>7. PICK z \in Nat : z = nitemsRead' /\ b0 <= z /\ z + 6 <= p
  <2>1. CASE WrongSize
    <3>1. nitemsRead' = b0 + 1
      BY <1>3, <2>1 DEF WrongSize
    <3>. QED
      BY <1>3, <3>1
  <2>2. CASE MisalignedFlag \/ FrameEnd \/ InvalidBits
    <3>1. nitemsRead' = nitemsRead + (i + 1 - 8)
      BY <2>2 DEF MisalignedFlag, FrameEnd, InvalidBits, Consume
    <3>2. nitemsRead' = p - 7
      BY <1>3, <1>4, <3>1
    <3>3. p - 7 \in Nat
      BY <1>3
    <3>. QED
      BY <1>3, <3>2, <3>3
  <2>. QED
    BY <2>1, <2>2
<1>8. Seen' = z
  <2>1. Seen' = z + 0
    BY <1>5, <1>6, <1>7 DEF Seen
  <2>2. z + 0 = z
    OBVIOUS
  <2>. QED
    BY <2>1, <2>2
<1>9. SearchMisses'
  <2>1. Holds(0, rx, z, z) /\ z <= z
    BY HoldsNothing
  <2>2. p <= Len(rx)
    BY <1>3, <1>4
  <2>3. ClearAt(z, rx, resets)
    BY <1>3, <1>4, <1>7, <2>2, LeavingMissesNone
  <2>. QED
    BY <1>1, <1>5, <1>8, <2>1, <2>3 DEF SearchMisses
<1>10. ASSUME NEW e \in Nat, e <= z, Opening(rx, resets, e)
       PROVE  Settled(e, rx, out')
  <2>1. e = b0 \/ Settled(e, rx, out)
    BY <1>3, <1>7, <1>10
  <2>2. Settled(b0, rx, out')
    BY <1>2, LeavingSettles
  <2>3. ASSUME Settled(e, rx, out)
        PROVE  Settled(e, rx, out')
    BY <1>1, <2>3, StaysSettled DEF Next, Scan
  <2>. QED
    BY <2>1, <2>2, <2>3
<1>11. NoneForgotten'
  BY <1>1, <1>8, <1>10 DEF NoneForgotten
<1>. QED
  BY <1>5, <1>9, <1>11 DEF FlagInv, FrameIsQuiet

LEMMA NextFlagInv == IInv /\ IInv' /\ LineInv /\ FlagInv /\ [Next]_vars => FlagInv'
<1>. SUFFICES ASSUME IInv, IInv', LineInv, FlagInv, [Next]_vars PROVE FlagInv'
  OBVIOUS
<1>1. CASE \E chunk \in Chunks : Decode(Line(chunk))
  BY <1>1, DecodeKeepsFlags
<1>2. CASE Reset
  BY <1>2, ResetKeepsFlags
<1>3. CASE NoSyncBit \/ NoSyncFlag \/ NoSyncEnd
  BY <1>3, NoSyncKeepsFlags
<1>4. CASE InSyncBit \/ InSyncData
  BY <1>4, InSyncKeepsFlags
<1>5. CASE OutOfBits
  BY <1>5, OutOfBitsKeepsFlags
<1>6. CASE StuffedBit \/ DataBit
  BY <1>6, DecodingKeepsFlags
<1>7. CASE MisalignedFlag \/ FrameEnd \/ InvalidBits \/ WrongSize
  BY <1>7, LeavingKeepsFlags
<1>8. CASE UNCHANGED vars
  BY <1>8 DEF vars, objectVars, env, FlagInv, SearchMisses, FrameIsQuiet, NoneForgotten,
              Tracked, Seen
<1>. QED
  BY <1>1, <1>2, <1>3, <1>4, <1>5, <1>6, <1>7, <1>8 DEF Next, Scan

-----------------------------------------------------------------------------
(* The frames of the line *)

\* A frame of the line lies between two flags that no other flag lies between.
LEMMA FrameOfLine ==
  ASSUME NEW line, NEW f \in FramesIn(line)
  PROVE  \E p, q \in FlagsIn(line) :
           /\ p + 8 <= q
           /\ \A r \in FlagsIn(line) : ~ (p < r /\ r < q)
           /\ Len(Unstuff(SubSeq(line, p + 8, q - 1))) % 8 = 0
           /\ Stuff(Unstuff(SubSeq(line, p + 8, q - 1))) = SubSeq(line, p + 8, q - 1)
           /\ f = [open |-> p, close |-> q,
                   raw |-> BytesOf(Unstuff(SubSeq(line, p + 8, q - 1)))]
BY DEF FramesIn

\* A frame that must be published is one of those the invariant is about.
LEMMA MustIsDue ==
  ASSUME IInv, NEW f \in FramesIn(rx), MustPublish(f)
  PROVE  \E e, c \in Nat, x \in Seq(Bit) :
           /\ Due(rx, e, c, x) /\ f.raw = BytesOf(x)
           /\ f.open = e - 7 /\ f.close = c + 1
           /\ Opening(rx, resets, e)
           /\ e + 8 <= nitemsRead
<1>1. rx \in Seq(Bit) /\ Len(rx) \in Nat /\ nitemsRead \in Nat
  BY LenProperties DEF IInv, TypeOK
<1>2. PICK p \in FlagsIn(rx), q \in FlagsIn(rx) :
           /\ p + 8 <= q
           /\ \A r \in FlagsIn(rx) : ~ (p < r /\ r < q)
           /\ Len(Unstuff(SubSeq(rx, p + 8, q - 1))) % 8 = 0
           /\ Stuff(Unstuff(SubSeq(rx, p + 8, q - 1))) = SubSeq(rx, p + 8, q - 1)
           /\ f = [open |-> p, close |-> q,
                   raw |-> BytesOf(Unstuff(SubSeq(rx, p + 8, q - 1)))]
  BY FrameOfLine
<1>3. p \in 1 .. Len(rx) - 7 /\ q \in 1 .. Len(rx) - 7
  BY DEF FlagsIn
<1>4. PICK e \in Nat : e = p + 7
  BY <1>3
<1>5. PICK c \in Nat : c = q - 1
  BY <1>3
<1>6. PICK body : body = Piece(rx, e, c)
  OBVIOUS
<1>7. SubSeq(rx, p + 8, q - 1) = body
  <2>1. p + 8 = e + 1
    BY <1>3, <1>4
  <2>. QED
    BY <1>5, <1>6, <2>1 DEF Piece
<1>8. e <= c /\ c <= Len(rx)
  BY <1>1, <1>2, <1>3, <1>4, <1>5
<1>9. body \in Seq(Bit) /\ Len(body) = c - e
  <2>1. rx \in Seq(Bit)
    BY <1>1
  <2>2. Piece(rx, e, c) \in Seq(Bit) /\ Len(Piece(rx, e, c)) = c - e
    BY <1>8, <2>1, PieceBit
  <2>. QED
    BY <1>6, <2>2
<1>10. PICK x \in Seq(Bit) : x = Unstuff(body)
  BY <1>9, UnstuffType
<1>11. /\ f.open = p /\ f.close = q /\ f.raw = BytesOf(x)
       /\ Len(x) % 8 = 0 /\ Stuff(x) = body
  BY <1>2, <1>7, <1>10
<1>12. /\ FirstOctetPlain(body)
       /\ Len(BytesOf(x)) \in MinFrameLen .. MaxFrameLen - 1
       /\ IsFrameValid(BytesOf(x))
       /\ ~ UpTo(p, FlagTail)
       /\ \A n \in 1 .. Len(resets) : resets[n].sent < p
       /\ nitemsRead >= q - 1
  BY <1>7, <1>11 DEF MustPublish
<1>13. e + 8 <= c
  BY <1>8, <1>9, <1>12 DEF FirstOctetPlain
<1>14. PlainBehind(rx, e)
  BY <1>1, <1>6, <1>8, <1>12, PlainOctet
<1>15. ASSUME NEW r \in 1 .. Len(rx) - 7
       PROVE  r \in FlagsIn(rx) <=> FlagEndsAt(rx, r + 7)
  <2>1. PICK from \in Nat : from = r - 1
    <3>1. r - 1 \in Nat
      OBVIOUS
    <3>. QED
      BY <3>1
  <2>2. from + 1 = r /\ from + 8 = r + 7 /\ from + 8 <= Len(rx)
    BY <1>1, <2>1
  <2>3. from + 1 \in FlagsIn(rx) <=> FlagEndsAt(rx, from + 8)
    BY <1>1, <2>2, FlagsAre
  <2>. QED
    BY <2>2, <2>3
<1>16. FlagEndsAt(rx, e) /\ FlagEndsAt(rx, c + 8) /\ c + 8 <= Len(rx)
  <2>1. q + 7 = c + 8
    BY <1>3, <1>5
  <2>. QED
    BY <1>1, <1>3, <1>4, <1>15, <2>1
<1>17. \A s \in e + 1 .. c + 7 : ~ FlagEndsAt(rx, s)
  <2>. SUFFICES ASSUME NEW s \in e + 1 .. c + 7, FlagEndsAt(rx, s)
                PROVE  FALSE
    OBVIOUS
  <2>1. PICK r \in 1 .. Len(rx) - 7 : r = s - 7
    <3>1. s - 7 \in 1 .. Len(rx) - 7
      BY <1>1, <1>3, <1>4, <1>5
    <3>. QED
      BY <3>1
  <2>2. r + 7 = s /\ p < r /\ r < q
    BY <1>3, <1>4, <1>5, <2>1
  <2>3. r \in FlagsIn(rx)
    BY <1>15, <2>2
  <2>. QED
    BY <1>2, <2>2, <2>3
<1>18. FrameAt(rx, e, c, x)
  BY <1>6, <1>11, <1>13, <1>14, <1>16, <1>17 DEF FrameAt
<1>19. Len(BytesOf(x)) = Len(x) \div 8
  <2>1. PICK len \in Nat : len = Len(x) \div 8
    <3>1. PICK m \in Nat : m = Len(x)
      BY LenProperties
    <3>2. m \div 8 \in Nat
      OBVIOUS
    <3>. QED
      BY <3>1, <3>2
  <2>2. PICK bytes : bytes = BytesOf(x)
    OBVIOUS
  <2>3. bytes = [k \in 1 .. len |-> ByteOf(SubSeq(x, 8 * k - 7, 8 * k))]
    BY <2>1, <2>2 DEF BytesOf
  <2>4. Len(bytes) = len
    BY <2>3
  <2>. QED
    BY <2>1, <2>2, <2>4
<1>20. Due(rx, e, c, x)
  BY <1>12, <1>18, <1>19 DEF Due
<1>21. ~ TailAt(rx, e - 7)
  <2>1. PICK m \in Nat : m = p
    BY <1>3
  <2>2. e - 7 = m
    BY <1>3, <1>4, <2>1
  <2>3. ~ TailAt(rx, m)
    BY <1>1, <1>12, <2>1, UpToTail
  <2>. QED
    BY <2>2, <2>3
<1>22. e - 7 = p /\ c + 1 = q /\ e >= 8 /\ e <= Len(rx)
  BY <1>1, <1>3, <1>4, <1>5
<1>23. Opening(rx, resets, e)
  BY <1>12, <1>16, <1>21, <1>22 DEF Opening
<1>24. e + 8 <= nitemsRead
  BY <1>1, <1>5, <1>12, <1>13
<1>. QED
  BY <1>11, <1>20, <1>22, <1>23, <1>24

LEMMA NoneDiscarded == IInv /\ FlagInv => NoFrameDiscarded
<1>. SUFFICES ASSUME IInv, FlagInv, NEW f \in FramesIn(rx), MustPublish(f)
              PROVE  \E n \in 1 .. Len(out) : /\ out[n].raw = f.raw
                                              /\ out[n].start + out[n].cnt = f.close + 6
  BY DEF NoFrameDiscarded
<1>1. PICK e \in Nat, c \in Nat, x \in Seq(Bit) :
           /\ Due(rx, e, c, x) /\ f.raw = BytesOf(x)
           /\ f.open = e - 7 /\ f.close = c + 1
           /\ Opening(rx, resets, e)
           /\ e + 8 <= nitemsRead
  BY MustIsDue
<1>2. /\ Seen >= nitemsRead /\ Seen \in Nat /\ nitemsRead \in Nat
      /\ decodedBits \in 0 .. 7
  BY DEF Seen, IInv, TypeOK
<1>3. e <= Seen
  BY <1>1, <1>2
<1>4. ~ Tracked(e)
  BY <1>1, <1>2 DEF Tracked
<1>5. Settled(e, rx, out)
  BY <1>1, <1>3, <1>4 DEF FlagInv, NoneForgotten
<1>6. Extends(rx, rx)
  BY SeenInLine
<1>7. Among(out, BytesOf(x), c + 7)
  BY <1>1, <1>5, <1>6 DEF Settled
<1>8. f.close + 6 = c + 7
  BY <1>1
<1>. QED
  BY <1>1, <1>7, <1>8 DEF Among

\* No frame that the decoder is bound to publish is discarded, whatever the
\* line holds around it, however the stream is cut into calls and whatever
\* resets come before it.
THEOREM NoFrameIsDiscarded == Spec => []NoFrameDiscarded
<1>1. Init => LineInv /\ FlagInv
  BY InitLineInv, InitFlagInv
<1>2. IInv /\ IInv' /\ LineInv /\ FlagInv /\ [Next]_vars => LineInv' /\ FlagInv'
  BY NextLineInv, NextFlagInv
<1>3. IInv /\ FlagInv => NoFrameDiscarded
  BY NoneDiscarded
<1>. QED
  BY <1>1, <1>2, <1>3, Invariance, PTL DEF Spec
=============================================================================
