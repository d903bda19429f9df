---------------------------- MODULE AX100Mode6 -----------------------------
(***************************************************************************)
(* ax100_mode6 (lib/ax100_mode6.cc) driven by the frame_decoder block: an  *)
(* HDLC frame whose octets behind an AX.25 header are a scrambled Reed-    *)
(* Solomon block, the FCS of the frame not being looked at.                *)
(*                                                                         *)
(* As in AX25Decoder, Decode begins a call and each step behind it is one  *)
(* turn of an inner loop of _decode().  The two decoders search, erase and *)
(* give up differently: here three flags in a row open a frame, nothing is *)
(* erased when a frame is given up, and a wrong CRC does not reset.        *)
(*                                                                         *)
(* `frame` is d_frame_buffer[0 .. d_received_bytes - 1].  Indices into     *)
(* d_bitstream are 0-based.  The G3RUH descrambler is off.                 *)
(***************************************************************************)
EXTENDS HDLC, FiniteSets

CONSTANTS
  MaxFrameLen,       \* d_max_frame_len
  HeaderLen,         \* 2 + ax25::min_addr_len
  FcsLen,            \* crc::crc_size(crc::CRC16_AX25)
  Parity,            \* the 32 parity octets of a Reed-Solomon block
  RsDecode(_),       \* decode_rs_8: the corrected octets, <<>>: failed
  CrcSize,           \* crc::crc_size(crc::CRC32_C)
  Crc(_),            \* crc::crc32_c of some octets, as the octets sent
  Descramble(_, _),  \* position in the descrambler's sequence, octet
  Mode6Configs,      \* sets of constructor arguments
  Mode6Chunks,       \* the bits one call of decode() may bring
  MaxSends,          \* bound: calls of decode() in a behaviour
  MaxResets          \* bound: reset messages in a behaviour

VARIABLES
  conf,         \* the const members
  \* the decoder object
  state,        \* d_state
  shiftReg,     \* d_shift_reg, 24 bits
  decB,         \* d_dec_b
  prevBit,      \* d_prev_bit_nrzi
  decodedBits,  \* d_decoded_bits
  frame,        \* d_frame_buffer[0 .. d_received_bytes - 1]
  dsPos,        \* octets descrambled since the last reset()
  bitstream,    \* d_bitstream
  startIdx,     \* d_start_idx
  frameStart,   \* d_frame_start
  nitemsRead,   \* d_nitems_read
  \* the call in progress
  pc,           \* "idle" between two calls, "scan" inside _decode()
  i,            \* the loop variable of the inner loops
  \* the environment and the history
  level,        \* the last level on the line
  rx,           \* every bit sent on the line so far
  sends,        \* calls of decode() so far
  resets,       \* for each reset, the bits sent, those read, and the frames
                \* published before it
  out           \* what the block published on its "out" port

machine == <<state, shiftReg, decB, decodedBits, frame, dsPos>>
buffer == <<bitstream, startIdx, frameStart, nitemsRead>>
env == <<conf, prevBit, level, rx, sends, resets>>
vars == <<machine, buffer, pc, i, env, out>>

-----------------------------------------------------------------------------
(* Operators *)

SyncFlag == 126

\* The value of d_shift_reg after three flags.
ThreeFlags == SyncFlag * (1 + 2 ^ 8 + 2 ^ 16)

CurrentBit == bitstream[i + 1]

\* decode_1b
NextReg == (shiftReg \div 2) + 2 ^ 23 * CurrentBit
NextDecB == (decB \div 2) + 128 * CurrentBit

\* d_shift_reg >> 16
LastOctet == NextReg \div 2 ^ 16

IsFlag == LastOctet = SyncFlag
IsStuffed == LastOctet \div 4 = 31   \* (reg & 0xfc) == 0x7c

\* whitening::descramble of octets from this position on.
Descrambled(octets, pos) ==
  [k \in 1 .. Len(octets) |-> Descramble(pos + k - 1, octets[k])]

\* decode: (~((input[i] - d_prev_bit_nrzi) % 2)) & 0x1
Nrzi(in) ==
  [k \in 1 .. Len(in) |->
     1 - ((in[k] - (IF k = 1 THEN prevBit ELSE in[k - 1])) % 2)]

\* The levels that carry these bits: one keeps the level.
Line(bits) ==
  [k \in 1 .. Len(bits) |->
     (level + Cardinality({j \in 1 .. k : bits[j] = 0})) % 2]

-----------------------------------------------------------------------------
(* State changes shared by the steps *)

\* What reset_state and enter_sync_state both clear.
ClearedTo(s) ==
  /\ state' = s
  /\ decB' = 0
  /\ shiftReg' = 0
  /\ decodedBits' = 0
  /\ frame' = <<>>

ResetState == ClearedTo("NO_SYNC") /\ dsPos' = 0

\* erase(begin, begin + n) and incr_nitems_read(n)
Erase(n) ==
  /\ bitstream' = SubSeq(bitstream, n + 1, Len(bitstream))
  /\ nitemsRead' = nitemsRead + n

Return == pc' = "idle" /\ i' = 0

-----------------------------------------------------------------------------
(* The calls of the block *)

Init ==
  /\ conf \in Mode6Configs
  /\ state = "NO_SYNC"
  /\ shiftReg = 0
  /\ decB = 0
  /\ prevBit = 0
  /\ decodedBits = 0
  /\ frame = <<>>
  /\ dsPos = 0
  /\ bitstream = <<>>
  /\ startIdx = 0
  /\ frameStart = 0
  /\ nitemsRead = 0
  /\ pc = "idle"
  /\ i = 0
  /\ level = 0
  /\ rx = <<>>
  /\ sends = 0
  /\ resets = <<>>
  /\ out = <<>>

\* frame_decoder::work calls decode() with the levels that carry these bits.
Decode(bits) ==
  /\ pc = "idle"
  /\ sends < MaxSends
  /\ sends' = sends + 1
  /\ bitstream' = bitstream \o Nrzi(Line(bits))
  /\ prevBit' = Line(bits)[Len(bits)]
  /\ pc' = "scan"
  /\ i' = IF state = "NO_SYNC" THEN 0 ELSE startIdx
  /\ rx' = rx \o bits
  /\ level' = Line(bits)[Len(bits)]
  /\ UNCHANGED <<machine, startIdx, frameStart, nitemsRead, conf, resets, out>>

\* A message on the "reset" port: the buffered bits stay.
Reset ==
  /\ pc = "idle"
  /\ Len(resets) < MaxResets
  /\ ResetState
  /\ resets' = Append(resets, [sent |-> Len(rx), read |-> nitemsRead,
                               published |-> Len(out)])
  /\ UNCHANGED <<buffer, pc, i, conf, prevBit, level, rx, sends, out>>

-----------------------------------------------------------------------------
(* One turn of the loop of case NO_SYNC, from the first buffered bit *)

Turn(s) == pc = "scan" /\ state = s /\ i < Len(bitstream)

NoSyncBit ==
  /\ Turn("NO_SYNC")
  /\ NextReg # ThreeFlags
  /\ shiftReg' = NextReg
  /\ decB' = NextDecB
  /\ i' = i + 1
  /\ UNCHANGED <<state, decodedBits, frame, dsPos, buffer, pc, env, out>>

\* Three flags: all of them go.
NoSyncFlags ==
  /\ Turn("NO_SYNC")
  /\ NextReg = ThreeFlags
  /\ Erase(i + 1)
  /\ ClearedTo("IN_SYNC")
  /\ frameStart' = nitemsRead'
  /\ startIdx' = 0
  /\ i' = 0
  /\ UNCHANGED <<dsPos, pc, env, out>>

NoSyncEnd ==
  /\ pc = "scan"
  /\ state = "NO_SYNC"
  /\ i = Len(bitstream)
  /\ Erase(Len(bitstream))
  /\ Return
  /\ UNCHANGED <<machine, startIdx, frameStart, env, out>>

-----------------------------------------------------------------------------
(* One turn of the loop of case IN_SYNC *)

\* Less than an octet since the last flag, or one more flag to skip.
InSyncBit ==
  /\ Turn("IN_SYNC")
  /\ decodedBits = 7 => IsFlag
  /\ shiftReg' = NextReg
  /\ decB' = NextDecB
  /\ decodedBits' = (decodedBits + 1) % 8
  /\ i' = i + 1
  /\ UNCHANGED <<state, frame, dsPos, buffer, pc, env, out>>

\* Faulty variant: the stuffed zero stays in d_dec_b, in front of the last bit
\* of the octet.
InSyncDataKeepsStuffed ==
  /\ Turn("IN_SYNC")
  /\ decodedBits = 7
  /\ ~ IsFlag
  /\ state' = "DECODING"
  /\ shiftReg' = NextReg
  /\ decB' = NextDecB
  /\ IF IsStuffed
       THEN decodedBits' = 7 /\ frame' = <<>>
       ELSE decodedBits' = 0 /\ frame' = <<NextDecB>>
  /\ startIdx' = i + 1
  /\ i' = i + 1
  /\ UNCHANGED <<dsPos, bitstream, frameStart, nitemsRead, pc, env, out>>

\* enter_decoding_state: the octet is the first of a frame, unless its last
\* bit is a stuffed zero.
InSyncData ==
  /\ Turn("IN_SYNC")
  /\ decodedBits = 7
  /\ ~ IsFlag
  /\ state' = "DECODING"
  /\ shiftReg' = NextReg
  /\ IF IsStuffed
       THEN /\ decB' = (2 * NextDecB) % 256
            /\ decodedBits' = 7
            /\ frame' = <<>>
       ELSE /\ decB' = NextDecB
            /\ decodedBits' = 0
            /\ frame' = <<NextDecB>>
  /\ startIdx' = i + 1
  /\ i' = i + 1
  /\ UNCHANGED <<dsPos, bitstream, frameStart, nitemsRead, pc, env, out>>

\* Faulty variant: what has been seen of the buffer is not remembered.
OutOfBitsForgets ==
  /\ pc = "scan"
  /\ state \in {"IN_SYNC", "DECODING"}
  /\ i = Len(bitstream)
  /\ Return
  /\ UNCHANGED <<machine, buffer, env, out>>

\* All buffered bits seen, in case IN_SYNC or DECODING: wait for more.
OutOfBits ==
  /\ pc = "scan"
  /\ state \in {"IN_SYNC", "DECODING"}
  /\ i = Len(bitstream)
  /\ startIdx' = Len(bitstream)
  /\ Return
  /\ UNCHANGED <<machine, bitstream, frameStart, nitemsRead, env, out>>

-----------------------------------------------------------------------------
(* One turn of the loop of case DECODING: any flag ends the frame *)

\* The block of these octets: without the header, the FCS, the scrambler.
Block(octets, pos) ==
  Descrambled(SubSeq(octets, HeaderLen + 1, Len(octets) - FcsLen), pos)

\* What Reed-Solomon makes of it, and the data without the parity.
Corrected(octets, pos) == RsDecode(Block(octets, pos))
Data(octets, pos) ==
  LET block == Corrected(octets, pos)
  IN  SubSeq(block, 1, Len(block) - Parity)

IsTooShort(octets) == Len(octets) < HeaderLen + FcsLen + Parity

\* The frame buffer holds a frame that Reed-Solomon can correct.
IsDecodable(octets, pos) ==
  ~ IsTooShort(octets) /\ Corrected(octets, pos) # <<>>

IsGood(data) ==
  LET n == Len(data) - CrcSize
  IN  Crc(SubSeq(data, 1, n)) = SubSeq(data, n + 1, Len(data))

\* Too short, or not decodable: the buffer is searched again for flags, from
\* its first bit.  (More octets than a block has are never collected.)
FrameDropped ==
  /\ Turn("DECODING")
  /\ IsFlag
  /\ ~ IsDecodable(frame, dsPos)
  /\ ResetState
  /\ i' = 0
  /\ UNCHANGED <<buffer, pc, env, out>>

\* A wrong CRC: the frame buffer holds the corrected block now, and the loop
\* goes over the same bits again without a reset, adding to the frame.
FrameCrcWrong ==
  /\ Turn("DECODING")
  /\ IsFlag
  /\ IsDecodable(frame, dsPos)
  /\ conf.crc /\ ~ IsGood(Data(frame, dsPos))
  /\ shiftReg' = NextReg
  /\ decB' = NextDecB
  /\ frame' = SubSeq(frame, 1, HeaderLen) \o Corrected(frame, dsPos)
                \o SubSeq(frame, Len(frame) - FcsLen + 1, Len(frame))
  /\ dsPos' = dsPos + Len(frame) - HeaderLen - FcsLen
  /\ i' = startIdx
  /\ UNCHANGED <<state, decodedBits, buffer, pc, env, out>>

\* The header is published as received.
Metadata ==
  LET data == Data(frame, dsPos)
  IN  [pdu |-> SubSeq(frame, 1, HeaderLen)
                 \o SubSeq(data, 1, Len(data) - (IF conf.crc THEN CrcSize ELSE 0)),
       crcValid |-> conf.crc,
       start |-> frameStart,
       cnt |-> nitemsRead + i - frameStart]

\* Faulty variant: the frame stays buffered.
FrameEndKept ==
  /\ Turn("DECODING")
  /\ IsFlag
  /\ IsDecodable(frame, dsPos)
  /\ conf.crc => IsGood(Data(frame, dsPos))
  /\ out' = Append(out, Metadata)
  /\ ResetState
  /\ Return
  /\ UNCHANGED <<buffer, env>>

\* Everything up to the closing flag goes, the flag too.
FrameEnd ==
  /\ Turn("DECODING")
  /\ IsFlag
  /\ IsDecodable(frame, dsPos)
  /\ conf.crc => IsGood(Data(frame, dsPos))
  /\ out' = Append(out, Metadata)
  /\ ResetState
  /\ Erase(i + 1)
  /\ startIdx' = Len(bitstream')
  /\ Return
  /\ UNCHANGED <<frameStart, env>>

\* A zero after five ones carries no data.
StuffedBit ==
  /\ Turn("DECODING")
  /\ ~ IsFlag /\ IsStuffed
  /\ shiftReg' = NextReg
  /\ decB' = (2 * NextDecB) % 256
  /\ i' = i + 1
  /\ UNCHANGED <<state, decodedBits, frame, dsPos, buffer, pc, env, out>>

\* A data bit; the eighth completes an octet.
DataBit ==
  /\ Turn("DECODING")
  /\ ~ IsFlag /\ ~ IsStuffed
  /\ decodedBits = 7 => Len(frame) + 1 < MaxFrameLen
  /\ shiftReg' = NextReg
  /\ decB' = NextDecB
  /\ decodedBits' = (decodedBits + 1) % 8
  /\ frame' = IF decodedBits = 7 THEN Append(frame, NextDecB) ELSE frame
  /\ i' = i + 1
  /\ UNCHANGED <<state, dsPos, buffer, pc, env, out>>

\* Faulty variant: the frame is emptied, the state is kept.
WrongSizeStays ==
  /\ Turn("DECODING")
  /\ ~ IsFlag /\ ~ IsStuffed
  /\ decodedBits = 7
  /\ Len(frame) + 1 >= MaxFrameLen
  /\ ClearedTo("DECODING")
  /\ dsPos' = 0
  /\ i' = startIdx
  /\ UNCHANGED <<buffer, pc, env, out>>

\* The octet that reaches the frame limit: the buffer is searched again.
WrongSize ==
  /\ Turn("DECODING")
  /\ ~ IsFlag /\ ~ IsStuffed
  /\ decodedBits = 7
  /\ Len(frame) + 1 >= MaxFrameLen
  /\ ResetState
  /\ i' = 0
  /\ UNCHANGED <<buffer, pc, env, out>>

-----------------------------------------------------------------------------
(* Specification *)

Scan ==
  \/ NoSyncBit \/ NoSyncFlags \/ NoSyncEnd
  \/ InSyncBit \/ InSyncData \/ OutOfBits
  \/ FrameDropped \/ FrameCrcWrong \/ FrameEnd
  \/ StuffedBit \/ DataBit \/ WrongSize

Next ==
  \/ pc = "idle" /\ \E bits \in Mode6Chunks : Decode(bits)
  \/ Reset
  \/ Scan

-----------------------------------------------------------------------------
(* Properties *)

\* The buffer holds what was sent and not read, in order; from the flags on
\* that open a frame nothing leaves it until the frame is delivered, so that it
\* can be searched again when the frame is given up; indices stay inside it
\* and the octets inside the frame buffer, after a reset or a wrong CRC too.
BufferAccounted ==
  /\ prevBit = level
  /\ nitemsRead + Len(bitstream) = Len(rx)
  /\ bitstream = SubSeq(rx, nitemsRead + 1, Len(rx))
  /\ i <= Len(bitstream)
  /\ state # "NO_SYNC" => /\ frameStart = nitemsRead
                          /\ startIdx <= Len(bitstream)
                          /\ pc = "idle" => startIdx = Len(bitstream)
  /\ state # "DECODING" => frame = <<>> /\ dsPos = 0
  /\ Len(frame) < MaxFrameLen

ThreeFlagBits == Flag \o Flag \o Flag

\* The bits up to the p-th are these.
UpTo(p, bits) ==
  /\ p \in Len(bits) .. Len(rx)
  /\ SubSeq(rx, p - Len(bits) + 1, p) = bits

\* A stuffed bit in the first octet is only looked for in its eighth place.
FirstOctetPlain(body) ==
  /\ Len(body) >= 8
  /\ \A k \in 1 .. 2 : SubSeq(body, k, k + 4) # <<1, 1, 1, 1, 1>>

\* What these octets of a frame are published as.
PduOf(octets) ==
  LET data == Data(octets, 0)
  IN  SubSeq(octets, 1, HeaderLen)
        \o SubSeq(data, 1, Len(data) - (IF conf.crc THEN CrcSize ELSE 0))

Publishable(octets) ==
  IsDecodable(octets, 0) /\ (conf.crc => IsGood(Data(octets, 0)))

\* Every published frame is a frame of the line: three flags end where its
\* range starts, one flag where it ends, and what is published is what
\* Reed-Solomon makes of the octets in between, from the first that is no flag
\* on; the bits that a frame with a wrong CRC has left in the frame buffer
\* never are.
FrameFaithful ==
  pc = "idle" =>
    \A n \in 1 .. Len(out) :
      LET f == out[n]
          end == f.start + f.cnt + 1
          Body(k) == SubSeq(rx, f.start + 8 * k + 1, end - 8)
          Idle(k) == \A j \in 1 .. k : UpTo(f.start + 8 * j, Flag)
      IN  /\ UpTo(f.start, ThreeFlagBits)
          /\ UpTo(end, Flag)
          /\ \E k \in 0 .. f.cnt \div 8 :
               /\ Idle(k)
               /\ ~ UpTo(f.start + 8 * (k + 1), Flag)
               /\ FirstOctetPlain(Body(k)) =>
                    /\ Publishable(BytesOf(Unstuff(Body(k))))
                    /\ f.pdu = PduOf(BytesOf(Unstuff(Body(k))))

\* A frame the decoder is bound to publish: correctable and of a legal size,
\* behind three flags that close no published frame, sent after the last
\* reset, and read.
MustPublish(f) ==
  /\ Len(f.raw) < MaxFrameLen
  /\ Publishable(f.raw)
  /\ FirstOctetPlain(SubSeq(rx, f.open + 8, f.close - 1))
  /\ UpTo(f.open + 7, ThreeFlagBits)
  /\ \A n \in 1 .. Len(out) :
       ~ out[n].start + out[n].cnt + 1 \in f.open - 16 .. f.open + 7
  /\ \A r \in 1 .. Len(resets) : resets[r].sent < f.open - 16
  /\ nitemsRead >= f.close + 7

\* No such frame is lost to what comes before: flags that open nothing, a frame
\* that cannot be decoded, is too long, or has a wrong CRC, whose bits the
\* decoder goes over a second time and then a third.
NoFrameMissed ==
  pc = "idle" =>
    \A f \in FramesIn(rx) :
      MustPublish(f) =>
        \E n \in 1 .. Len(out) :
          /\ out[n].pdu = PduOf(f.raw)
          /\ out[n].start + out[n].cnt = f.close + 6
=============================================================================
