---------------------------- MODULE ArgosDecoder ----------------------------
(***************************************************************************)
(* argos_ldr_decoder (lib/argos_ldr_decoder.cc) driven by the              *)
(* frame_decoder block: HDLC frames whose octets are sent most significant *)
(* bit first.  Decode begins a call and each step behind it is one turn of *)
(* an inner loop of _decode(), over d_bitstream from 0-based index i.      *)
(***************************************************************************)
EXTENDS HDLC

LOCAL INSTANCE SequencesExt

CONSTANTS
  ArgosMaxFrameLen,  \* d_max_frame_len
  ArgosFcs(_),       \* crc16_ccitt of some octets, as the two octets sent
  ArgosConfigs,      \* sets of constructor arguments
  ArgosChunks,       \* the bits one call of decode() may bring
  MaxSends,          \* bound: calls of decode() in a behaviour
  MaxResets          \* bound: reset messages in a behaviour

VARIABLES
  conf,         \* crc: d_crc_check
  state,        \* d_state
  shiftReg,     \* d_shift_reg, 24 bits, the last bit received lowest
  decB,         \* d_dec_b
  decodedBits,  \* d_decoded_bits
  frame,        \* d_frame_buffer[0 .. d_received_bytes - 1]
  bitstream,    \* d_bitstream
  startIdx,     \* d_start_idx
  frameStart,   \* d_frame_start
  nitemsRead,   \* d_nitems_read
  pc,           \* "idle" between two calls, "scan" inside _decode()
  i,            \* the loop variable
  status,       \* the frame in the status that decode() returns, if any
  rx,           \* every bit handed over so far
  sends,        \* calls so far
  resets,       \* for each reset, the bits handed over before it
  out           \* what the block published

machine == <<state, shiftReg, decB, decodedBits, frame>>
buffer == <<bitstream, startIdx, frameStart, nitemsRead>>
env == <<conf, rx, sends, resets>>
vars == <<machine, buffer, pc, i, status, env, out>>

-----------------------------------------------------------------------------
(* Operators *)

SyncFlag == 126
ThreeFlagsReg == SyncFlag * (1 + 2 ^ 8 + 2 ^ 16)

\* decode_1b
NextReg == (2 * shiftReg + bitstream[i + 1]) % 2 ^ 24
NextDecB == (2 * decB + bitstream[i + 1]) % 256

\* What _decode makes of the last eight bits.
IsFlag == NextReg % 256 = SyncFlag
IsStuffed == (NextReg % 256) \div 4 = 31     \* (reg & 0xfc) == 0x7c
IsInvalid == (NextReg % 256) \div 2 = 127    \* (reg & 0xfe) == 0xfe

\* frame_check
IsGood(octets) ==
  LET n == Len(octets) - 2
  IN  /\ \E k \in 1 .. Len(octets) : octets[k] # 0
      /\ ArgosFcs(SubSeq(octets, 1, n)) = SubSeq(octets, n + 1, n + 2)

\* What reset_state and enter_sync_state do.
ClearedTo(s) ==
  /\ state' = s
  /\ shiftReg' = 0
  /\ decB' = 0
  /\ decodedBits' = 0
  /\ frame' = <<>>

\* erase(begin, begin + n) and incr_nitems_read(n)
Erase(n) ==
  /\ bitstream' = SubSeq(bitstream, n + 1, Len(bitstream))
  /\ nitemsRead' = nitemsRead + n

\* decode() returns, and the block publishes a frame if there is one.
Return(st) ==
  /\ pc' = "idle"
  /\ i' = 0
  /\ status' = <<>>
  /\ out' = out \o st

-----------------------------------------------------------------------------
(* The calls of the block *)

Init ==
  /\ conf \in ArgosConfigs
  /\ state = "NO_SYNC"
  /\ shiftReg = 0
  /\ decB = 0
  /\ decodedBits = 0
  /\ frame = <<>>
  /\ bitstream = <<>>
  /\ startIdx = 0
  /\ frameStart = 0
  /\ nitemsRead = 0
  /\ pc = "idle"
  /\ i = 0
  /\ status = <<>>
  /\ rx = <<>>
  /\ sends = 0
  /\ resets = <<>>
  /\ out = <<>>

Decode(bits) ==
  /\ pc = "idle"
  /\ sends < MaxSends
  /\ sends' = sends + 1
  /\ bitstream' = bitstream \o bits
  /\ rx' = rx \o bits
  /\ pc' = "scan"
  /\ i' = IF state = "NO_SYNC" THEN 0 ELSE startIdx
  /\ UNCHANGED <<machine, startIdx, frameStart, nitemsRead, status, conf,
                 resets, out>>

\* Faulty variant: the bits of the frame in progress go uncounted.
ResetUncounted ==
  /\ pc = "idle"
  /\ Len(resets) < MaxResets
  /\ ClearedTo("NO_SYNC")
  /\ bitstream' = <<>>
  /\ resets' = Append(resets, Len(rx))
  /\ UNCHANGED <<startIdx, frameStart, nitemsRead, pc, i, status, conf, rx,
                 sends, out>>

\* A message on the "reset" port: the buffered bits stay.
Reset ==
  /\ pc = "idle"
  /\ Len(resets) < MaxResets
  /\ ClearedTo("NO_SYNC")
  /\ resets' = Append(resets, Len(rx))
  /\ UNCHANGED <<buffer, pc, i, status, conf, rx, sends, out>>

-----------------------------------------------------------------------------
(* One turn of an inner loop *)

Turn(s) == pc = "scan" /\ state = s /\ i < Len(bitstream)

\* The bit is shifted in and the loop goes on.
Shift ==
  /\ shiftReg' = NextReg
  /\ i' = i + 1
  /\ UNCHANGED <<buffer, pc, status, env, out>>

NoSyncBit ==
  /\ Turn("NO_SYNC")
  /\ NextReg # ThreeFlagsReg
  /\ decB' = NextDecB
  /\ Shift
  /\ UNCHANGED <<state, decodedBits, frame>>

\* enter_sync_state: the flags and what is before them goes.
NoSyncFlags ==
  /\ Turn("NO_SYNC")
  /\ NextReg = ThreeFlagsReg
  /\ Erase(i + 1)
  /\ ClearedTo("IN_SYNC")
  /\ frameStart' = nitemsRead'
  /\ startIdx' = 0
  /\ i' = 0
  /\ UNCHANGED <<pc, status, env, out>>

NoSyncEnd ==
  /\ pc = "scan"
  /\ state = "NO_SYNC"
  /\ i = Len(bitstream)
  /\ Erase(Len(bitstream))
  /\ Return(status)
  /\ UNCHANGED <<machine, startIdx, frameStart, env>>

\* Less than an octet since the last flag, or one more flag to skip.
InSyncBit ==
  /\ Turn("IN_SYNC")
  /\ decodedBits = 7 => IsFlag
  /\ decB' = NextDecB
  /\ decodedBits' = (decodedBits + 1) % 8
  /\ Shift
  /\ UNCHANGED <<state, frame>>

\* enter_decoding_state looks for a stuffed bit in the octet two before.
InSyncData ==
  /\ Turn("IN_SYNC")
  /\ decodedBits = 7
  /\ ~ IsFlag
  /\ state' = "DECODING"
  /\ shiftReg' = NextReg
  /\ IF NextReg \div 2 ^ 18 = 31
       THEN decB' = NextDecB \div 2 /\ decodedBits' = 7 /\ frame' = <<>>
       ELSE decB' = NextDecB /\ decodedBits' = 0 /\ frame' = <<NextDecB>>
  /\ startIdx' = i + 1
  /\ i' = i + 1
  /\ UNCHANGED <<bitstream, frameStart, nitemsRead, pc, status, env, out>>

\* All buffered bits seen: wait for more.
OutOfBits ==
  /\ pc = "scan"
  /\ state \in {"IN_SYNC", "DECODING"}
  /\ i = Len(bitstream)
  /\ startIdx' = Len(bitstream)
  /\ Return(status)
  /\ UNCHANGED <<machine, bitstream, frameStart, nitemsRead, env>>

-----------------------------------------------------------------------------
(* One turn of the loop of case DECODING.  A flag calls enter_frame_end *)

AtFlag == Turn("DECODING") /\ IsFlag

\* Back to the search, from the first buffered bit.
Restart ==
  /\ ClearedTo("NO_SYNC")
  /\ i' = 0
  /\ UNCHANGED <<buffer, pc, env, out>>

TooShort == AtFlag /\ Len(frame) < 3 /\ Restart /\ UNCHANGED status

Pdu == SubSeq(frame, 1, Len(frame) - 2)

\* Faulty variant: the length of the frame is counted from the first sample.
FrameEndAbsolute ==
  /\ AtFlag
  /\ Len(frame) >= 3
  /\ IsGood(frame)
  /\ ClearedTo("NO_SYNC")
  /\ Erase(i + 1)
  /\ startIdx' = Len(bitstream')
  /\ Return(<<[pdu |-> Pdu, crcValid |-> TRUE, start |-> frameStart,
               cnt |-> nitemsRead + i]>>)
  /\ UNCHANGED <<frameStart, env>>

\* Faulty variant: the octets of an unchecked frame in the status stay there.
FrameEndKeepsOctets ==
  /\ AtFlag
  /\ Len(frame) >= 3
  /\ IsGood(frame)
  /\ ClearedTo("NO_SYNC")
  /\ Erase(i + 1)
  /\ startIdx' = Len(bitstream')
  /\ Return(<<[pdu |-> IF status = <<>> THEN Pdu ELSE status[1].pdu,
               crcValid |-> TRUE, start |-> frameStart,
               cnt |-> nitemsRead + i - frameStart]>>)
  /\ UNCHANGED <<frameStart, env>>

\* A good frame replaces whatever the status holds; the call ends.
FrameEnd ==
  /\ AtFlag
  /\ Len(frame) >= 3
  /\ IsGood(frame)
  /\ ClearedTo("NO_SYNC")
  /\ Erase(i + 1)
  /\ startIdx' = Len(bitstream')
  /\ Return(<<[pdu |-> Pdu, crcValid |-> TRUE, start |-> frameStart,
               cnt |-> nitemsRead + i - frameStart]>>)
  /\ UNCHANGED <<frameStart, env>>

\* A wrong FCS without the CRC check: published without a sample range (a good
\* frame in the same call takes its place), and searched for flags again.
FrameUnchecked ==
  /\ AtFlag
  /\ Len(frame) >= 3
  /\ ~ IsGood(frame) /\ ~ conf.crc
  /\ status' = <<[pdu |-> Pdu, crcValid |-> FALSE, start |-> 0, cnt |-> 0]>>
  /\ Restart

\* Faulty variant: only the loop is restarted.
FrameCrcWrongLoops ==
  /\ AtFlag
  /\ Len(frame) >= 3
  /\ ~ IsGood(frame) /\ conf.crc
  /\ i' = startIdx
  /\ UNCHANGED <<machine, buffer, pc, status, env, out>>

\* A wrong FCS with the CRC check: no reset, the loop goes over the same bits
\* again and adds them to the frame.
FrameCrcWrong ==
  /\ AtFlag
  /\ Len(frame) >= 3
  /\ ~ IsGood(frame) /\ conf.crc
  /\ shiftReg' = NextReg
  /\ decB' = NextDecB
  /\ i' = startIdx
  /\ UNCHANGED <<state, decodedBits, frame, buffer, pc, status, env, out>>

\* Five ones, and not the bit behind them but the next one is dropped.
StuffedBit ==
  /\ Turn("DECODING")
  /\ ~ IsFlag /\ IsStuffed
  /\ decB' = NextDecB \div 2
  /\ Shift
  /\ UNCHANGED <<state, decodedBits, frame>>

DataTurn == Turn("DECODING") /\ ~ IsFlag /\ ~ IsStuffed /\ ~ IsInvalid

\* A data bit; the eighth completes an octet.
DataBit ==
  /\ DataTurn
  /\ decodedBits = 7 => Len(frame) + 1 < ArgosMaxFrameLen
  /\ decB' = NextDecB
  /\ decodedBits' = (decodedBits + 1) % 8
  /\ frame' = IF decodedBits = 7 THEN Append(frame, NextDecB) ELSE frame
  /\ Shift
  /\ UNCHANGED state

WrongSize ==
  /\ DataTurn
  /\ decodedBits = 7
  /\ Len(frame) + 1 >= ArgosMaxFrameLen
  /\ Restart
  /\ UNCHANGED status

SevenOnes ==
  /\ Turn("DECODING")
  /\ ~ IsFlag /\ ~ IsStuffed /\ IsInvalid
  /\ Restart
  /\ UNCHANGED status

-----------------------------------------------------------------------------
(* Specification *)

Scan ==
  \/ NoSyncBit \/ NoSyncFlags \/ NoSyncEnd
  \/ InSyncBit \/ InSyncData \/ OutOfBits
  \/ TooShort \/ FrameEnd \/ FrameUnchecked \/ FrameCrcWrong
  \/ StuffedBit \/ DataBit \/ WrongSize \/ SevenOnes

Next ==
  \/ pc = "idle" /\ \E bits \in ArgosChunks : Decode(bits)
  \/ Reset
  \/ Scan

-----------------------------------------------------------------------------
(* Properties *)

\* The buffer holds what was handed over and not read; indices stay inside
\* it and octets inside the frame buffer, after a reset or a wrong FCS too.
BufferAccounted ==
  /\ bitstream = SubSeq(rx, nitemsRead + 1, Len(rx))
  /\ nitemsRead <= Len(rx)
  /\ i <= Len(bitstream)
  /\ state # "NO_SYNC" => /\ frameStart = nitemsRead
                          /\ startIdx <= Len(bitstream)
  /\ state # "DECODING" => frame = <<>>
  /\ Len(frame) < ArgosMaxFrameLen

OctetsOf(bits) ==
  [k \in 1 .. Len(bits) \div 8 |->
     FoldLeft(LAMBDA acc, b : 2 * acc + b, 0, SubSeq(bits, 8 * k - 7, 8 * k))]

UpTo(p, bits) ==
  p \in Len(bits) .. Len(rx) /\ SubSeq(rx, p - Len(bits) + 1, p) = bits

Flags(n) == FlattenSeq([k \in 1 .. n |-> Flag])

\* What HDLC makes of the bits between two flags.
Carried(body) == OctetsOf(Unstuff(body))

\* A frame with a valid FCS is one of the line: three flags end where its range
\* starts and one where it ends; its octets are the ones HDLC reads there,
\* behind any idle flags, with the FCS they carry.
FrameFaithful ==
  pc = "idle" =>
    \A n \in 1 .. Len(out) :
      LET f == out[n]
          end == f.start + f.cnt + 1
          Body(k) == SubSeq(rx, f.start + 8 * k + 1, end - 8)
      IN  f.crcValid =>
            /\ UpTo(f.start, Flags(3))
            /\ UpTo(end, Flag)
            /\ \E k \in 0 .. f.cnt \div 8 :
                 /\ UpTo(f.start + 8 * k, Flags(k))
                 /\ Carried(Body(k)) = f.pdu \o ArgosFcs(f.pdu)

\* The bit that is taken for the stuffed one is a zero as well.
StuffingHarmless(body) ==
  /\ \A k \in 1 .. 2 : SubSeq(body, k, k + 4) # <<1, 1, 1, 1, 1>>
  /\ \A k \in 1 .. Len(body) - 6 :
       SubSeq(body, k, k + 4) = <<1, 1, 1, 1, 1>> => body[k + 6] = 0

\* A frame that fits and is sent, behind this many flags, after the last reset
\* and after the closing flag of the last published frame, and has been read.
Readable(f, flags) ==
  LET body == SubSeq(rx, f.open + 8, f.close - 1)
      before == f.open + 8 - 8 * flags
  IN  /\ nitemsRead >= f.close + 7
      /\ Len(f.raw) \in 3 .. ArgosMaxFrameLen - 1
      /\ IsGood(Carried(body))
      /\ StuffingHarmless(body)
      /\ UpTo(f.open + 7, Flags(flags))
      /\ \A r \in 1 .. Len(resets) : resets[r] < before
      /\ \A n \in 1 .. Len(out) :
           ~ out[n].start + out[n].cnt + 1 \in before .. f.open + 7

Published(f) ==
  \E n \in 1 .. Len(out) : /\ out[n].start + out[n].cnt = f.close + 6
                           /\ out[n].crcValid

\* No good frame behind three or four flags is lost to what comes before it:
\* a frame with a wrong FCS, whose bits are gone over again and again, one
\* that is too long or aborted, or a call that ends anywhere.
NoFrameMissed ==
  pc = "idle" =>
    \A f \in FramesIn(rx) :
      (Readable(f, 3) /\ ~ UpTo(f.open + 7, Flags(5))) => Published(f)

\* lib/argos_ldr_decoder.cc:118: "HDLC flag in most case is repeated multiple
\* times": however many flags there are in front of a good frame, it is found.
AnyNumberOfFlags ==
  pc = "idle" =>
    \A f \in FramesIn(rx) :
      \A flags \in 3 .. f.open \div 8 + 1 : Readable(f, flags) => Published(f)
=============================================================================
