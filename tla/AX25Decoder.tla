---------------------------- MODULE AX25Decoder ----------------------------
(***************************************************************************)
(* ax25_decoder (lib/ax25_decoder.cc) driven by the frame_decoder block    *)
(* (lib/frame_decoder_impl.cc).                                            *)
(*                                                                         *)
(* The scheduler runs work() and the "reset" message handler of a block in *)
(* one thread: a reset falls between two calls of decode(), never inside   *)
(* one.  Decode starts a call; from then on pc = "scan" and each step is   *)
(* one turn of an inner loop of _decode() (one bit, in the state the       *)
(* decoder is in), until a step returns to pc = "idle".                    *)
(*                                                                         *)
(* d_frame_buffer with d_received_bytes is the sequence `frame` of the     *)
(* octets received so far; nothing beyond d_received_bytes is ever read.   *)
(* Indices into d_bitstream (i, startIdx) are 0-based, as in the code.     *)
(* The G3RUH descrambler is off (d_descramble = false).                    *)
(***************************************************************************)
EXTENDS HDLC

CONSTANTS
  MaxFrameLen,      \* d_max_frame_len
  MinFrameLen,      \* ax25::min_addr_len + sizeof(uint16_t)
  CrcCheck,         \* d_crc_check
  ErrorCorrection,  \* d_error_correction
  Fcs(_),           \* ax25::crc, as the two octets sent for it
  Chunks,           \* what one call of decode() may bring: line levels,
                    \* as their difference from the last level before
  MaxCalls,         \* bound: calls of decode() in a behaviour
  MaxResets         \* bound: reset messages in a behaviour

ASSUME ConstantsAssumption ==
  /\ MinFrameLen \in Nat /\ MinFrameLen >= 3
  /\ MaxFrameLen \in Nat /\ MaxFrameLen >= 2
  /\ CrcCheck \in BOOLEAN
  /\ ErrorCorrection \in BOOLEAN
  /\ Chunks \subseteq Seq(Bit) \ {<<>>}
  /\ MaxCalls \in Nat
  /\ MaxResets \in Nat

VARIABLES
  \* the ax25_decoder object
  state,        \* d_state
  shiftReg,     \* d_shift_reg
  decB,         \* d_dec_b
  prevBit,      \* d_prev_bit_nrzi
  decodedBits,  \* d_decoded_bits
  frame,        \* d_frame_buffer[0 .. d_received_bytes - 1]
  bitstream,    \* d_bitstream
  startIdx,     \* d_start_idx
  frameStart,   \* d_frame_start
  nitemsRead,   \* d_nitems_read
  \* the call in progress
  pc,           \* "idle" between two calls, "scan" inside _decode()
  i,            \* the loop variable of the inner loops
  \* the environment and the history
  calls,        \* calls of decode() so far
  level,        \* the last level on the line
  rx,           \* every bit sent on the line so far
  resets,       \* for each reset, how much was sent and published before it
  out           \* what the block published on its "out" port

objectVars == <<state, shiftReg, decB, decodedBits, frame, bitstream,
                startIdx, frameStart, nitemsRead>>
env == <<calls, level, rx>>
vars == <<objectVars, prevBit, pc, i, env, resets, out>>

-----------------------------------------------------------------------------
(* Operators *)

SyncFlag == 126   \* 0x7e: the value of d_shift_reg after Flag

\* d_bitstream.erase(begin, begin + n)
Drop(bits, n) == SubSeq(bits, n + 1, Len(bits))

\* decode_1b: bits enter at the most significant end.
ShiftIn(reg, b) == (reg \div 2) + 128 * b

CurrentBit == bitstream[i + 1]
NextReg == ShiftIn(shiftReg, CurrentBit)
NextDecB == ShiftIn(decB, CurrentBit)

IsStuffed(reg) == reg \div 4 = 31     \* (reg & 0xfc) == 0x7c
IsAbort(reg) == reg \div 2 = 127      \* (reg & 0xfe) == 0xfe

\* is_frame_valid: the FCS travels least significant octet first.
IsFrameValid(bytes) ==
  LET n == Len(bytes)
  IN  Fcs(SubSeq(bytes, 1, n - 2)) = <<bytes[n - 1], bytes[n]>>

Masks == {1, 2, 4, 8, 16, 32, 64, 128}

Toggle(byte, mask) ==
  IF (byte \div mask) % 2 = 0 THEN byte + mask ELSE byte - mask

\* error_correction tries every single bit, octet by octet from the first,
\* least significant bit first, and keeps the first one that is valid.
Tries(bytes) == (1 .. Len(bytes)) \X Masks

Tried(bytes, try) == [bytes EXCEPT ![try[1]] = Toggle(@, try[2])]

IsBefore(try, other) ==
  \/ try[1] < other[1]
  \/ try[1] = other[1] /\ try[2] <= other[2]

Corrections(bytes) ==
  {try \in Tries(bytes) : ErrorCorrection /\ IsFrameValid(Tried(bytes, try))}

FirstCorrection(bytes) ==
  Tried(bytes, CHOOSE try \in Corrections(bytes) :
                 \A other \in Corrections(bytes) : IsBefore(try, other))

\* decode: (~((input[i] - d_prev_bit_nrzi) % 2)) & 0x1
Nrzi(in) ==
  [k \in 1 .. Len(in) |->
     1 - ((in[k] - (IF k = 1 THEN prevBit ELSE in[k - 1])) % 2)]

\* What the transmitter means by these levels: one keeps the level.
Meaning(in) ==
  [k \in 1 .. Len(in) |->
     IF in[k] = (IF k = 1 THEN level ELSE in[k - 1]) THEN 1 ELSE 0]

\* The levels that differ from the last one as the chunk says.
Line(chunk) == [k \in 1 .. Len(chunk) |-> (level + chunk[k]) % 2]

-----------------------------------------------------------------------------
(* State changes shared by the steps *)

\* reset_state and enter_sync_state clear the same fields.
ClearedTo(s) ==
  /\ state' = s
  /\ decB' = 0
  /\ shiftReg' = 0
  /\ decodedBits' = 0
  /\ frame' = <<>>

\* Erases the first n bits and counts them as read.
Consume(n) ==
  /\ bitstream' = Drop(bitstream, n)
  /\ nitemsRead' = nitemsRead + n

\* _decode() goes round its while loop again, in the (new) state s.
Continue(s, start) ==
  /\ pc' = "scan"
  /\ i' = IF s = "NO_SYNC" THEN 0 ELSE start

Return == pc' = "idle" /\ i' = 0

\* frame_decoder::work publishes the frame decode() reports.
Publish(pdu) == out' = Append(out, pdu)

-----------------------------------------------------------------------------
(* The calls of the block *)

Init ==
  /\ state = "NO_SYNC"
  /\ shiftReg = 0
  /\ decB = 0
  /\ prevBit = 0
  /\ decodedBits = 0
  /\ frame = <<>>
  /\ bitstream = <<>>
  /\ startIdx = 0
  /\ frameStart = 0
  /\ nitemsRead = 0
  /\ pc = "idle"
  /\ i = 0
  /\ calls = 0
  /\ level = 0
  /\ rx = <<>>
  /\ resets = <<>>
  /\ out = <<>>

\* frame_decoder::work calls decode() with the items in, all of them consumed.
Decode(in) ==
  /\ pc = "idle"
  /\ calls < MaxCalls
  /\ calls' = calls + 1
  /\ bitstream' = bitstream \o Nrzi(in)
  /\ prevBit' = in[Len(in)]
  /\ Continue(state, startIdx)
  /\ rx' = rx \o Meaning(in)
  /\ level' = in[Len(in)]
  /\ UNCHANGED <<state, shiftReg, decB, decodedBits, frame, startIdx,
                 frameStart, nitemsRead, resets, out>>

\* Faulty variant: the reset drops the buffered bits without counting them.
ResetUncounted ==
  /\ pc = "idle"
  /\ Len(resets) < MaxResets
  /\ ClearedTo("NO_SYNC")
  /\ bitstream' = <<>>
  /\ resets' = Append(resets, [sent |-> Len(rx), published |-> Len(out)])
  /\ UNCHANGED <<startIdx, frameStart, nitemsRead, prevBit, pc, i, env, out>>

\* A message on the "reset" port: frame_decoder::reset calls reset_state(),
\* which leaves d_bitstream, d_start_idx and d_frame_start alone.
Reset ==
  /\ pc = "idle"
  /\ Len(resets) < MaxResets
  /\ ClearedTo("NO_SYNC")
  /\ resets' = Append(resets, [sent |-> Len(rx), published |-> Len(out)])
  /\ UNCHANGED <<bitstream, startIdx, frameStart, nitemsRead, prevBit, pc, i,
                 env, out>>

-----------------------------------------------------------------------------
(* One turn of the loop of case NO_SYNC *)

InScan(s) == pc = "scan" /\ state = s

\* No flag yet: the next bit.
NoSyncBit ==
  /\ InScan("NO_SYNC")
  /\ i < Len(bitstream)
  /\ NextReg # SyncFlag
  /\ shiftReg' = NextReg
  /\ decB' = NextDecB
  /\ i' = i + 1
  /\ UNCHANGED <<state, decodedBits, frame, bitstream, startIdx, frameStart,
                 nitemsRead, prevBit, pc, env, resets, out>>

\* A flag: everything before its last zero goes, the frame may start there.
NoSyncFlag ==
  /\ InScan("NO_SYNC")
  /\ i < Len(bitstream)
  /\ NextReg = SyncFlag
  /\ Consume(i)
  /\ ClearedTo("IN_SYNC")
  /\ frameStart' = nitemsRead'
  /\ startIdx' = 1
  /\ Continue("IN_SYNC", 1)
  /\ UNCHANGED <<prevBit, env, resets, out>>

\* All buffered bits searched.
NoSyncEnd ==
  /\ InScan("NO_SYNC")
  /\ i = Len(bitstream)
  /\ Consume(Len(bitstream))
  /\ Return
  /\ UNCHANGED <<state, shiftReg, decB, decodedBits, frame, startIdx,
                 frameStart, prevBit, env, resets, out>>

-----------------------------------------------------------------------------
(* One turn of the loop of case IN_SYNC *)

\* Faulty variant: behind a flag that is skipped the next octet begins with
\* the last zero of the flag.
InSyncBitSharedZero ==
  /\ InScan("IN_SYNC")
  /\ i < Len(bitstream)
  /\ decodedBits = 7 => NextReg = SyncFlag
  /\ shiftReg' = NextReg
  /\ decB' = NextDecB
  /\ decodedBits' = IF decodedBits = 7 THEN 1 ELSE decodedBits + 1
  /\ i' = i + 1
  /\ UNCHANGED <<state, frame, bitstream, startIdx, frameStart, nitemsRead,
                 prevBit, pc, env, resets, out>>

\* Less than an octet since the last flag, or one more flag to skip.
InSyncBit ==
  /\ InScan("IN_SYNC")
  /\ i < Len(bitstream)
  /\ decodedBits = 7 => NextReg = SyncFlag
  /\ shiftReg' = NextReg
  /\ decB' = NextDecB
  /\ decodedBits' = (decodedBits + 1) % 8
  /\ i' = i + 1
  /\ UNCHANGED <<state, frame, bitstream, startIdx, frameStart, nitemsRead,
                 prevBit, pc, env, resets, out>>

\* Faulty variant: d_start_idx is not moved along with the erase.
InSyncDataStaleIndex ==
  /\ InScan("IN_SYNC")
  /\ i < Len(bitstream)
  /\ decodedBits = 7
  /\ NextReg # SyncFlag
  /\ Consume(i + 1 - 7)
  /\ state' = "DECODING"
  /\ shiftReg' = NextReg
  /\ decB' = NextDecB
  /\ decodedBits' = 0
  /\ frame' = <<NextDecB>>
  /\ Continue("DECODING", startIdx)
  /\ UNCHANGED <<startIdx, frameStart, prevBit, env, resets, out>>

\* enter_decoding_state: the octet is the first of a frame, unless its last
\* bit is a stuffed zero.
InSyncData ==
  /\ InScan("IN_SYNC")
  /\ i < Len(bitstream)
  /\ decodedBits = 7
  /\ NextReg # SyncFlag
  /\ Consume(i + 1 - 7)
  /\ state' = "DECODING"
  /\ shiftReg' = NextReg
  /\ IF IsStuffed(NextReg)
       THEN /\ decB' = (2 * NextDecB) % 256
            /\ decodedBits' = 7
            /\ frame' = <<>>
       ELSE /\ decB' = NextDecB
            /\ decodedBits' = 0
            /\ frame' = <<NextDecB>>
  /\ startIdx' = 7
  /\ Continue("DECODING", 7)
  /\ UNCHANGED <<frameStart, prevBit, env, resets, out>>

\* All buffered bits seen, in case IN_SYNC or DECODING: wait for more.
OutOfBits ==
  /\ pc = "scan"
  /\ state \in {"IN_SYNC", "DECODING"}
  /\ i = Len(bitstream)
  /\ startIdx' = Len(bitstream)
  /\ Return
  /\ UNCHANGED <<state, shiftReg, decB, decodedBits, frame, bitstream,
                 frameStart, nitemsRead, prevBit, env, resets, out>>

-----------------------------------------------------------------------------
(* One turn of the loop of case DECODING *)

\* A flag off the octet boundary may open a new frame: it stays buffered.
MisalignedFlag ==
  /\ InScan("DECODING")
  /\ i < Len(bitstream)
  /\ NextReg = SyncFlag
  /\ decodedBits # 7
  /\ Consume(i + 1 - 8)
  /\ ClearedTo("NO_SYNC")
  /\ Continue("NO_SYNC", 0)
  /\ UNCHANGED <<startIdx, frameStart, prevBit, env, resets, out>>

\* Faulty variant: the count is the absolute index.
MetadataAbsolute(bytes, valid) ==
  [pdu |-> SubSeq(bytes, 1, Len(bytes) - 2), crcValid |-> valid,
   start |-> frameStart, cnt |-> nitemsRead + i,
   raw |-> bytes]

\* What enter_frame_end adds to the status for these octets.
Metadata(bytes, valid) ==
  [pdu |-> SubSeq(bytes, 1, Len(bytes) - 2), crcValid |-> valid,
   start |-> frameStart, cnt |-> nitemsRead + i - frameStart,
   raw |-> bytes]

\* Faulty variant: the last flip tried stays in d_frame_buffer when none makes
\* the frame valid.
EnterFrameEndNotRestored ==
  /\ ClearedTo("NO_SYNC")
  /\ \/ /\ Len(frame) < MinFrameLen
        /\ UNCHANGED out
     \/ /\ Len(frame) >= MinFrameLen
        /\ IsFrameValid(frame)
        /\ Publish(Metadata(frame, TRUE))
     \/ /\ Len(frame) >= MinFrameLen
        /\ ~ IsFrameValid(frame)
        /\ Corrections(frame) # {}
        /\ Publish(Metadata(FirstCorrection(frame), TRUE))
     \/ /\ Len(frame) >= MinFrameLen
        /\ ~ IsFrameValid(frame)
        /\ Corrections(frame) = {}
        /\ IF CrcCheck
             THEN UNCHANGED out
             ELSE Publish(Metadata(Tried(frame, <<Len(frame), 128>>), FALSE))

\* enter_frame_end: too short a frame is dropped; a valid one, one that a
\* single flip makes valid, and with the check off an invalid one are
\* published.  reset_state() on every path.
EnterFrameEnd ==
  /\ ClearedTo("NO_SYNC")
  /\ \/ /\ Len(frame) < MinFrameLen
        /\ UNCHANGED out
     \/ /\ Len(frame) >= MinFrameLen
        /\ IsFrameValid(frame)
        /\ Publish(Metadata(frame, TRUE))
     \/ /\ Len(frame) >= MinFrameLen
        /\ ~ IsFrameValid(frame)
        /\ Corrections(frame) # {}
        /\ Publish(Metadata(FirstCorrection(frame), TRUE))
     \/ /\ Len(frame) >= MinFrameLen
        /\ ~ IsFrameValid(frame)
        /\ Corrections(frame) = {}
        /\ IF CrcCheck
             THEN UNCHANGED out
             ELSE Publish(Metadata(frame, FALSE))

\* Faulty variant: the closing flag is erased with the frame.
FrameEndEatsFlag ==
  /\ InScan("DECODING")
  /\ i < Len(bitstream)
  /\ NextReg = SyncFlag
  /\ decodedBits = 7
  /\ EnterFrameEnd
  /\ Consume(i + 1)
  /\ Return
  /\ UNCHANGED <<startIdx, frameStart, prevBit, env, resets>>

\* A flag on the octet boundary ends the frame; the flag stays buffered and
\* _decode() returns with whatever follows it unsearched.
FrameEnd ==
  /\ InScan("DECODING")
  /\ i < Len(bitstream)
  /\ NextReg = SyncFlag
  /\ decodedBits = 7
  /\ EnterFrameEnd
  /\ Consume(i + 1 - 8)
  /\ Return
  /\ UNCHANGED <<startIdx, frameStart, prevBit, env, resets>>

\* A zero after five ones carries no data.
StuffedBit ==
  /\ InScan("DECODING")
  /\ i < Len(bitstream)
  /\ NextReg # SyncFlag
  /\ IsStuffed(NextReg)
  /\ shiftReg' = NextReg
  /\ decB' = (2 * NextDecB) % 256
  /\ i' = i + 1
  /\ UNCHANGED <<state, decodedBits, frame, bitstream, startIdx, frameStart,
                 nitemsRead, prevBit, pc, env, resets, out>>

\* Seven ones never occur in a frame.
InvalidBits ==
  /\ InScan("DECODING")
  /\ i < Len(bitstream)
  /\ ~ IsStuffed(NextReg)
  /\ IsAbort(NextReg)
  /\ Consume(i + 1 - 8)
  /\ ClearedTo("NO_SYNC")
  /\ Continue("NO_SYNC", 0)
  /\ UNCHANGED <<startIdx, frameStart, prevBit, env, resets, out>>

IsDataBit == NextReg # SyncFlag /\ ~ IsStuffed(NextReg) /\ ~ IsAbort(NextReg)

\* A data bit; the eighth completes an octet.
DataBit ==
  /\ InScan("DECODING")
  /\ i < Len(bitstream)
  /\ IsDataBit
  /\ decodedBits = 7 => Len(frame) + 1 < MaxFrameLen
  /\ shiftReg' = NextReg
  /\ decB' = NextDecB
  /\ decodedBits' = (decodedBits + 1) % 8
  /\ frame' = IF decodedBits = 7 THEN Append(frame, NextDecB) ELSE frame
  /\ i' = i + 1
  /\ UNCHANGED <<state, bitstream, startIdx, frameStart, nitemsRead, prevBit,
                 pc, env, resets, out>>

\* Faulty variant: the counters are cleared but the state is kept.
WrongSizeStays ==
  /\ InScan("DECODING")
  /\ i < Len(bitstream)
  /\ IsDataBit
  /\ decodedBits = 7
  /\ Len(frame) + 1 >= MaxFrameLen
  /\ ClearedTo("DECODING")
  /\ Continue("DECODING", startIdx)
  /\ UNCHANGED <<bitstream, startIdx, frameStart, nitemsRead, prevBit, env,
                 resets, out>>

\* The octet that reaches the frame limit: all of it is searched again for a
\* flag, from the first buffered bit.
WrongSize ==
  /\ InScan("DECODING")
  /\ i < Len(bitstream)
  /\ IsDataBit
  /\ decodedBits = 7
  /\ Len(frame) + 1 >= MaxFrameLen
  /\ ClearedTo("NO_SYNC")
  /\ Continue("NO_SYNC", 0)
  /\ UNCHANGED <<bitstream, startIdx, frameStart, nitemsRead, prevBit, env,
                 resets, out>>

-----------------------------------------------------------------------------
(* Specification *)

Scan ==
  \/ NoSyncBit \/ NoSyncFlag \/ NoSyncEnd
  \/ InSyncBit \/ InSyncData \/ OutOfBits
  \/ MisalignedFlag \/ FrameEnd \/ StuffedBit \/ InvalidBits
  \/ DataBit \/ WrongSize

Next ==
  \/ \E chunk \in Chunks : Decode(Line(chunk))
  \/ Reset
  \/ Scan

Spec == Init /\ [][Next]_vars

\* The scheduler's thread keeps running once it is inside work().
FairSpec == Spec /\ WF_vars(Scan)

-----------------------------------------------------------------------------
(* Properties *)

States == {"NO_SYNC", "IN_SYNC", "DECODING"}

Pdus == [pdu : Seq(Byte), crcValid : BOOLEAN, start : Nat, cnt : Nat,
         raw : Seq(Byte)]

\* Every variable keeps the type and the width of the field it stands for.
TypeOK ==
  /\ state \in States
  /\ shiftReg \in Byte
  /\ decB \in Byte
  /\ prevBit \in Bit
  /\ decodedBits \in 0 .. 7
  /\ frame \in Seq(Byte)
  /\ bitstream \in Seq(Bit)
  /\ startIdx \in Nat
  /\ frameStart \in Nat
  /\ nitemsRead \in Nat
  /\ pc \in {"idle", "scan"}
  /\ i \in Nat
  /\ calls \in Nat
  /\ level \in Bit
  /\ rx \in Seq(Bit)
  /\ resets \in Seq([sent : Nat, published : Nat])
  /\ out \in Seq(Pdus)

\* d_bitstream and d_nitems_read together account for every bit sent: what is
\* buffered is exactly what was sent and not read, in order.  A line level
\* forgotten between two calls, or an erase that is counted differently from
\* what it removes, breaks it; the sample range of every later frame would be
\* wrong.
NoBitLost ==
  /\ prevBit = level
  /\ nitemsRead + Len(bitstream) = Len(rx)
  /\ bitstream = Drop(rx, nitemsRead)

\* The size_t arithmetic on d_start_idx and i in the three loops never wraps
\* and never leaves d_bitstream, whatever a reset between two calls leaves
\* behind: erase(i + 1 - 8) and erase(i + 1 - 7) find their bits.
Cursors ==
  /\ i <= Len(bitstream)
  /\ state = "IN_SYNC" => /\ startIdx <= Len(bitstream)
                          /\ startIdx >= decodedBits + 1 \/ pc = "scan"
                          /\ pc = "scan" => i >= decodedBits + 1
  /\ state = "DECODING" => /\ startIdx \in 7 .. Len(bitstream)
                           /\ pc = "scan" => i >= 7

\* d_frame_buffer is left before it is full, d_received_bytes and
\* d_decoded_bits start every frame from zero, and the frame whose octets are
\* collected began at or before the bits that are still buffered.
FrameInProgress ==
  /\ state = "NO_SYNC" => frame = <<>> /\ decodedBits = 0
  /\ state = "IN_SYNC" => frame = <<>>
  /\ state = "DECODING" => Len(frame) < MaxFrameLen
  /\ state # "NO_SYNC" => frameStart <= nitemsRead

\* A published frame ends at most seven bits past the read cursor (its closing
\* flag is searched again), inside what was sent, and so is the frame being
\* received never marked to start earlier than that.
DeliveredBehind ==
  \A n \in 1 .. Len(out) :
    LET end == out[n].start + out[n].cnt
    IN  /\ end <= nitemsRead + 7
        /\ end <= Len(rx)
        /\ state # "NO_SYNC" => end <= frameStart + 7

\* The octet that ends the first eight line bits is only handled for a
\* stuffed bit in the eighth place.
FirstOctetPlain(body) ==
  /\ Len(body) >= 8
  /\ \A k \in 1 .. 2 : SubSeq(body, k, k + 4) # <<1, 1, 1, 1, 1>>

\* The bits up to the p-th are these.
UpTo(p, bits) ==
  /\ p \in Len(bits) .. Len(rx)
  /\ SubSeq(rx, p - Len(bits) + 1, p) = bits

\* The line bits between the flags that delimit a published frame.
BodyOf(f) == SubSeq(rx, f.start + 2, f.start + f.cnt - 7)

\* The line bits are the stuffed octets, or, with a one too many before the
\* closing flag that completes a run of five: the first zero of the flag
\* passes for the stuffed one.
Carries(bits, bytes) ==
  \/ Stuff(BitsOf(bytes)) = bits
  \/ Stuff(Append(BitsOf(bytes), 1)) = Append(bits, 0)

\* The octets published are the ones the line bits stand for or, when they
\* are said to be right, one corrected bit away from them.
CarriedBy(f, bits) ==
  \/ Carries(bits, f.raw)
  \/ /\ ErrorCorrection
     /\ f.crcValid
     /\ \E try \in Tries(f.raw) : Carries(bits, Tried(f.raw, try))

\* So many flags, and nothing else, from the p-th bit on.
IdleFrom(p, flags) ==
  \A k \in 1 .. 8 * flags : rx[p + k] = Flag[((k - 1) % 8) + 1]

\* Every published frame is a frame of the line: its sample_start is the last
\* bit of a flag, its sample_start + sample_cnt the last bit of another
\* (README: "the sample index at the end of the frame"), and the bits between
\* them are the stuffed octets of the frame, behind all the idle flags there
\* are: the frame begins with the first octet that is no flag.  This ties
\* together destuffing, octet alignment, the erases and the metadata over any
\* split of the stream into calls.
FrameFaithful ==
  \A n \in 1 .. Len(out) :
    LET f == out[n]
        end == f.start + f.cnt
        body(flags) == SubSeq(BodyOf(f), 8 * flags + 1, Len(BodyOf(f)))
    IN  /\ UpTo(f.start + 1, FlagTail)
        /\ UpTo(end + 1, Flag)
        /\ \E flags \in 0 .. Len(BodyOf(f)) \div 8 :
             /\ IdleFrom(f.start + 1, flags)
             /\ ~ IdleFrom(f.start + 1, flags + 1)
             /\ FirstOctetPlain(body(flags)) => CarriedBy(f, body(flags))

\* A frame that the decoder is bound to publish once it has read past it: a
\* valid one of a legal size, whose opening flag is sent after the last reset
\* and shares no zero with the flag before it.
MustPublish(f) ==
  /\ Len(f.raw) \in MinFrameLen .. MaxFrameLen - 1
  /\ IsFrameValid(f.raw)
  /\ FirstOctetPlain(SubSeq(rx, f.open + 8, f.close - 1))
  /\ ~ UpTo(f.open, FlagTail)
  /\ \A n \in 1 .. Len(resets) : resets[n].sent < f.open
  /\ nitemsRead >= f.close - 1

\* No good frame is lost to what surrounds it: noise that looks like a flag or
\* like data, an aborted frame, an overlong one, a flag shared with the frame
\* before, a reset before it, a call that ends anywhere.
NoFrameDiscarded ==
  \A f \in FramesIn(rx) :
    MustPublish(f) =>
      \E n \in 1 .. Len(out) : /\ out[n].raw = f.raw
                               /\ out[n].start + out[n].cnt = f.close + 6

\* include/satnogs/decoder.h: reset() "Resets the internal state of the
\* decoder to the initial defaults": a frame that ended before a reset is not
\* published after it.
ResetForgets ==
  \A r \in 1 .. Len(resets) :
    \A n \in resets[r].published + 1 .. Len(out) :
      out[n].start + out[n].cnt >= resets[r].sent

\* A call of decode() returns: no state sends the while loop of _decode()
\* round for ever over the same bits.
DecodeReturns == pc = "scan" ~> pc = "idle"

\* The sample ranges in the metadata of frames.
SpanOf(f) == [start |-> f.start, cnt |-> f.cnt]

SpansOf(frames) == [n \in 1 .. Len(frames) |-> SpanOf(frames[n])]

\* ax25_decoder keeps the contract of the decoders; a closing flag that is
\* searched again may share its first seven bits with the next frame.
Contract == INSTANCE Decoder
  WITH Overlap <- 7,
       fed <- Len(rx),
       read <- nitemsRead,
       spans <- SpansOf(out)

ImplementsDecoder == Contract!Spec
=============================================================================
