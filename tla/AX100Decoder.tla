---------------------------- MODULE AX100Decoder ----------------------------
(***************************************************************************)
(* ax100_decoder (lib/ax100_decoder.cc): a frame_decoder block with the    *)
(* decoder of one of the two modes, which the flowgraph picks by calling   *)
(* mode5_make or mode6_make.  The variables of the other mode keep their   *)
(* initial values.                                                         *)
(***************************************************************************)
EXTENDS Integers, Sequences

CONSTANTS
  Mode5Configs, LengthFieldLen, GolayDecode(_), Mode5Chunks, MaxHeld,
  Mode6Configs, MaxFrameLen, HeaderLen, FcsLen, Mode6Chunks,
  Parity, RsDecode(_), CrcSize, Crc(_), Descramble(_, _),
  MaxSends, MaxResets

\* The words to search for, the fields of a frame, and what arrives: bits, some
\* in each call in mode 6.
ASSUME StreamAssumption ==
  /\ \A c \in Mode5Configs : c.preamble \in Seq({0, 1}) /\ c.sync \in Seq({0, 1})
  /\ LengthFieldLen \in Nat \ {0}
  /\ HeaderLen \in Nat /\ FcsLen \in Nat /\ Parity \in Nat
  /\ MaxFrameLen \in Nat /\ MaxFrameLen >= 2
  /\ Mode5Chunks \subseteq Seq({0, 1})
  /\ Mode6Chunks \subseteq Seq({0, 1}) \ {<<>>}

VARIABLES
  mode,                                    \* 5 or 6
  conf, state, dsPos, frameStart, nitemsRead, rx, sends, resets, out,
  preambleReg, syncReg, cnt, len, pdu, inp, hunted,        \* mode 5
  shiftReg, decB, prevBit, decodedBits, frame, bitstream,  \* mode 6
  startIdx, pc, i, level

shared == <<conf, state, dsPos, frameStart, nitemsRead, rx, sends, resets, out>>
only5 == <<preambleReg, syncReg, cnt, len, pdu, inp, hunted>>
only6 == <<shiftReg, decB, prevBit, decodedBits, frame, bitstream, startIdx,
           pc, i, level>>
vars == <<mode, shared, only5, only6>>

Mode5 == INSTANCE AX100Mode5
Mode6 == INSTANCE AX100Mode6

Idle5 == /\ preambleReg = <<>> /\ syncReg = <<>> /\ pdu = <<>> /\ inp = <<>>
         /\ cnt = 0 /\ len = 0 /\ hunted = {}

Idle6 == /\ shiftReg = 0 /\ decB = 0 /\ prevBit = 0 /\ decodedBits = 0
         /\ frame = <<>> /\ bitstream = <<>> /\ startIdx = 0
         /\ pc = "idle" /\ i = 0 /\ level = 0

\* mode5_make, mode6_make
Init ==
  \/ mode = 5 /\ Mode5!Init /\ Idle6
  \/ mode = 6 /\ Mode6!Init /\ Idle5

Next ==
  /\ UNCHANGED mode
  /\ \/ mode = 5 /\ Mode5!Next /\ UNCHANGED only6
     \/ mode = 6 /\ Mode6!Next /\ UNCHANGED only5

Spec == Init /\ [][Next]_vars

\* The thread that has called decode() keeps running.
Scan6 == mode = 6 /\ Mode6!Scan /\ UNCHANGED <<mode, only5>>

FairSpec == Spec /\ WF_vars(Scan6)

-----------------------------------------------------------------------------
(* Properties, see the modules of the two modes *)

\* Mode 6 loses no bit that it may have to search again.
BufferAccounted == mode = 6 => Mode6!BufferAccounted

\* Whatever is published was sent, in the range its metadata names.
FrameFaithful ==
  /\ mode = 5 => Mode5!FrameFaithful
  /\ mode = 6 => Mode6!FrameFaithful

\* No correctable frame is lost to what comes before it.
NoFrameMissed ==
  /\ mode = 5 => Mode5!NoFrameMissed
  /\ mode = 6 => Mode6!NoFrameMissed

\* A call of decode() returns in mode 6, although a frame that is given up or
\* has a wrong CRC sends its loop back over bits it has seen.
DecodeReturns == pc = "scan" ~> pc = "idle"

\* Both keep the contract of the decoders; no two frames overlap.
Spans ==
  [j \in 1 .. Len(out) |-> [start |-> out[j].start, cnt |-> out[j].cnt]]

Contract == INSTANCE Decoder
  WITH Overlap <- 0, fed <- Len(rx), read <- nitemsRead, spans <- Spans

ImplementsDecoder == Contract!Spec
=============================================================================
