----------------------------- MODULE AX25Encoder -----------------------------
(***************************************************************************)
(* A frame_encoder block (lib/frame_encoder_impl.cc) with ax25_encoder     *)
(* (lib/ax25_encoder.cc), which frames each message by itself: scrambler   *)
(* and line level start anew, while the receiver behind it (as HDLC, NRZI  *)
(* and the G3RUH polynomial define it) goes on from what it has received,  *)
(* noise between the frames included.                                      *)
(***************************************************************************)
EXTENDS HDLC, FiniteSets

CONSTANTS
  Header,        \* what insert_address, insert_ctrl and insert_pid make of the
                 \* constructor arguments: octets in front of every message
  EncConfigs,    \* d_preamble_len, d_postamble_len, d_scramble, d_nrzi
  EncPdus,       \* messages
  EncCrc(_),     \* ax25::crc of some octets, as the two octets sent
  LineNoise,     \* line levels received when nothing is sent
  MaxOnLine      \* bound: frames and bursts of noise

\* Octets in, octets out; so many flags in front of a frame and behind it.
Arguments ==
  /\ Header \in Seq(Byte)
  /\ EncPdus \subseteq Seq(Byte)
  /\ \A pdu \in EncPdus : EncCrc(Header \o pdu) \in Seq(Byte)
  /\ LineNoise \subseteq Seq(Bit)
  /\ EncConfigs \subseteq [preamble : Nat, postamble : Nat,
                          scramble : BOOLEAN, nrzi : BOOLEAN]

VARIABLES
  encConf,       \* the constructor arguments
  onLine,        \* how many frames and bursts of noise there were
  line,          \* all line levels received
  framed         \* the octets of the frames sent, with their FCS

encoderVars == <<encConf, onLine, line, framed>>

-----------------------------------------------------------------------------
(* encode().  Octets are packed and sent most significant bit first: only    *)
(* the order of the bits is left of them.                                    *)

Contents(pdu) == Header \o pdu \o EncCrc(Header \o pdu)

Flags(n) == [k \in 1 .. 8 * n |-> Flag[((k - 1) % 8) + 1]]

\* How many bits the last octet lacks.
Missing(bits) == (8 - (Len(bits) % 8)) % 8
Zeros(n) == [k \in 1 .. n |-> 0]

\* Faulty variant of Filled: sr is stored as it is, not shifted to the top.
FilledInFront(bits) ==
  LET whole == Len(bits) - (Len(bits) % 8)
  IN  SubSeq(bits, 1, whole) \o Zeros(Missing(bits))
        \o SubSeq(bits, whole + 1, Len(bits))

\* The octet that the postamble ends in is filled with zeros.
Filled(bits) == bits \o Zeros(Missing(bits))

Ax25Pdu(pdu) ==
  Filled(Flags(encConf.preamble)
           \o Stuff(BitsOf(Contents(pdu)))
           \o Flags(encConf.postamble))

\* Faulty variant of Scrambled: the second tap is a stage off.
ScrambledTapOff(bits) ==
  LET In[k \in -16 .. Len(bits)] ==
        IF k <= 0 THEN 0 ELSE (bits[k] + In[k - 17] + In[k - 11]) % 2
  IN  [k \in 1 .. Len(bits) |-> In[k - 17]]

\* G3RUH: whitening(0x21, 0x0, 16), empty at the beginning of each frame, adds
\* the bits that came into its register 17 and 12 bits ago to the one that
\* comes in; a bit leaves it 17 bits after it has come in.
Scrambled(bits) ==
  LET In[k \in -16 .. Len(bits)] ==
        IF k <= 0 THEN 0 ELSE (bits[k] + In[k - 17] + In[k - 12]) % 2
  IN  [k \in 1 .. Len(bits) |-> In[k - 17]]

\* A zero changes the level, which is 0 before the first bit of each frame.
Nrzi(bits) ==
  [k \in 1 .. Len(bits) |-> Cardinality({j \in 1 .. k : bits[j] = 0}) % 2]

Encoded(pdu) ==
  LET bits == Ax25Pdu(pdu)
      scrambled == IF encConf.scramble THEN Scrambled(bits) ELSE bits
  IN  IF encConf.nrzi THEN Nrzi(scrambled) ELSE scrambled

-----------------------------------------------------------------------------
(* The block and its line *)

Init ==
  /\ encConf \in EncConfigs
  /\ onLine = 0
  /\ line = <<>>
  /\ framed = <<>>

\* A message on the "pdu" port.
Encode(pdu) ==
  /\ onLine < MaxOnLine
  /\ onLine' = onLine + 1
  /\ line' = line \o Encoded(pdu)
  /\ framed' = Append(framed, Contents(pdu))
  /\ UNCHANGED encConf

Noise(levels) ==
  /\ onLine < MaxOnLine
  /\ onLine' = onLine + 1
  /\ line' = line \o levels
  /\ UNCHANGED <<encConf, framed>>

Next == \/ \E pdu \in EncPdus : Encode(pdu)
        \/ \E levels \in LineNoise : Noise(levels)

Spec == Init /\ [][Next]_encoderVars

-----------------------------------------------------------------------------
(* Properties *)

At(bits, k) == IF k > 0 THEN bits[k] ELSE 0

\* What a receiver makes of the line: a level that stays is a one; a bit is
\* descrambled with the ones 12 and 17 before it.
Received ==
  LET levels == line
      bits == IF encConf.nrzi
                THEN [k \in 1 .. Len(levels) |->
                        IF levels[k] = At(levels, k - 1) THEN 1 ELSE 0]
                ELSE levels
  IN  IF encConf.scramble
        THEN [k \in 1 .. Len(bits) |->
                (bits[k] + At(bits, k - 12) + At(bits, k - 17)) % 2]
        ELSE bits

IsGood(octets) ==
  LET n == Len(octets) - 2
  IN  n > 0 /\ EncCrc(SubSeq(octets, 1, n)) = SubSeq(octets, n + 1, n + 2)

LOCAL INSTANCE SequencesExt

\* The frames whose FCS is right, in the order in which they came.
GoodFrames ==
  LET frames == SetToSortSeq({f \in FramesIn(Received) : IsGood(f.raw)},
                             LAMBDA f, g : f.open < g.open)
  IN  [k \in 1 .. Len(frames) |-> frames[k].raw]

\* The first bit is read against the level and the bits before it, and the
\* last 17 bits never leave the scrambler.
IsReadable ==
  /\ encConf.preamble >= IF encConf.nrzi THEN 2 ELSE 1
  /\ encConf.postamble >= IF encConf.scramble THEN 4 ELSE 1

\* Each message is read as it was framed, once and in order: whatever was on the
\* line before, noise or another frame, and although each frame is coded as if
\* nothing was.
EncodedReadable == IsReadable => GoodFrames = framed

\* A message is a frame to the receiver, with the octets that encode() framed,
\* on the stretch of the line that encode() adds for it, whatever was received
\* before.
MessageArrives ==
  (IsReadable /\ framed' # framed) =>
    \E f \in FramesIn(Received') : /\ f.open > Len(line)
                                   /\ f.raw = framed'[Len(framed')]
=============================================================================
