---------------------------- MODULE AX100Mode5 -----------------------------
(***************************************************************************)
(* ax100_mode5 (lib/ax100_mode5.cc) driven by the frame_decoder block:     *)
(* preamble, if the constructor gets one, and sync word, a Golay coded     *)
(* length, then that many scrambled octets: data, CRC and Reed-Solomon     *)
(* parity.                                                                 *)
(*                                                                         *)
(* A call of decode() does one thing and says how many items it consumed;  *)
(* the scheduler hands the others over again from the input buffer `inp`.  *)
(* d_pdu[0 .. d_cnt - 1] is `pdu` while octets are received; `cnt` is      *)
(* d_cnt in the search for the sync word.                                  *)
(***************************************************************************)
EXTENDS ShiftReg, FiniteSetsExt

CONSTANTS
  Mode5Configs,      \* sets of constructor arguments
  LengthFieldLen,    \* d_length_field_len
  GolayDecode(_),    \* golay24::decode24 & 0xFF of these octets, -1: failed
  Parity,            \* the 32 parity octets of a Reed-Solomon block
  RsDecode(_),       \* decode_rs_8: the corrected octets, <<>>: failed
  CrcSize,           \* crc::crc_size(crc::CRC32_C)
  Crc(_),            \* crc::crc32_c of some octets, as the octets sent
  Descramble(_, _),  \* position in the descrambler's sequence, octet
  Mode5Chunks,       \* the bits that may arrive together
  MaxHeld,           \* bound: items in the input buffer when more arrive
  MaxSends,          \* bound: chunks in a behaviour
  MaxResets          \* bound: reset messages in a behaviour

VARIABLES
  conf,         \* the const members
  \* the decoder object
  state,        \* d_state
  preambleReg,  \* d_preamble_shift_reg
  syncReg,      \* d_sync_shift_reg
  cnt,          \* d_cnt, in SEARCHING_SYNC
  len,          \* d_len
  pdu,          \* d_pdu[0 .. d_cnt - 1], in the last two states
  dsPos,        \* octets descrambled since the last reset()
  frameStart,   \* d_frame_start
  nitemsRead,   \* d_nitems_read
  \* the block, the environment and the history
  inp,          \* items in the input buffer of the block
  rx,           \* every bit sent so far
  sends,        \* chunks sent so far
  resets,       \* for each reset, the bits sent, those read, and the frames
                \* published before it
  hunted,       \* the bits of rx read in the search for a preamble
  out           \* what the block published on its "out" port

objectVars == <<state, preambleReg, syncReg, cnt, len, pdu, dsPos, frameStart>>
env == <<conf, rx, sends, resets>>
vars == <<objectVars, nitemsRead, inp, env, hunted, out>>

-----------------------------------------------------------------------------
(* Operators *)

\* whitening::descramble of octets from this position on.
Descrambled(octets, pos) ==
  [k \in 1 .. Len(octets) |-> Descramble(pos + k - 1, octets[k])]

CrcLen == IF conf.crc THEN CrcSize ELSE 0

\* check_crc
CheckCrc(data) ==
  LET n == Len(data) - CrcLen
  IN  ~ conf.crc \/ Crc(SubSeq(data, 1, n)) = SubSeq(data, n + 1, Len(data))

\* Faulty variant: no room for more than one preamble word.
SyncLimitOneWord == Len(conf.preamble) + Len(conf.sync)

\* The sync word is overdue this many bits behind the preamble.
SyncLimit == 2 * Len(conf.preamble) + Len(conf.sync)

\* incr_nitems_read, and the scheduler's consume.
Consume(n) ==
  /\ nitemsRead' = nitemsRead + n
  /\ inp' = SubSeq(inp, n + 1, Len(inp))

\* reset()
ResetObject ==
  /\ dsPos' = 0
  /\ cnt' = 0
  /\ state' = "SEARCHING"
  /\ preambleReg' = Zeros(Len(conf.preamble))
  /\ syncReg' = Zeros(Len(conf.sync))
  /\ pdu' = <<>>

-----------------------------------------------------------------------------
(* The block *)

Init ==
  /\ conf \in Mode5Configs
  /\ state = "SEARCHING"
  /\ preambleReg = Zeros(Len(conf.preamble))
  /\ syncReg = Zeros(Len(conf.sync))
  /\ cnt = 0
  /\ len = 0
  /\ pdu = <<>>
  /\ dsPos = 0
  /\ frameStart = 0
  /\ nitemsRead = 0
  /\ inp = <<>>
  /\ rx = <<>>
  /\ sends = 0
  /\ resets = <<>>
  /\ hunted = {}
  /\ out = <<>>

\* More items arrive in the input buffer.
Send(chunk) ==
  /\ sends < MaxSends
  /\ Len(inp) <= MaxHeld
  /\ sends' = sends + 1
  /\ inp' = inp \o chunk
  /\ rx' = rx \o chunk
  /\ UNCHANGED <<objectVars, nitemsRead, conf, resets, hunted, out>>

\* A message on the "reset" port, between two calls of work().
Reset ==
  /\ Len(resets) < MaxResets
  /\ ResetObject
  /\ resets' = Append(resets, [sent |-> Len(rx), read |-> nitemsRead,
                               published |-> Len(out)])
  /\ UNCHANGED <<len, frameStart, nitemsRead, inp, conf, rx, sends, hunted, out>>

-----------------------------------------------------------------------------
(* case SEARCHING: search_preamble *)

PreamblesIn(in) ==
  {k \in 1 .. Len(in) : Distance(Shifted(preambleReg, in, k), conf.preamble)
                          <= conf.preambleThrsh}

NoPreamble(in) ==
  /\ state = "SEARCHING"
  /\ conf.preamble # <<>>
  /\ PreamblesIn(in) = {}
  /\ preambleReg' = Shifted(preambleReg, in, Len(in))
  /\ Consume(Len(in))
  /\ hunted' = hunted \cup nitemsRead + 1 .. nitemsRead'
  /\ UNCHANGED <<state, syncReg, cnt, len, pdu, dsPos, frameStart, env, out>>

PreambleFound(in) ==
  /\ state = "SEARCHING"
  /\ conf.preamble # <<>>
  /\ LET found == PreamblesIn(in)
         k == Min(found)
     IN  /\ found # {}
         /\ preambleReg' = Shifted(preambleReg, in, k)
         /\ frameStart' = nitemsRead + k
         /\ Consume(k)
  /\ state' = "SEARCHING_SYNC"
  /\ cnt' = 0
  /\ hunted' = hunted \cup nitemsRead + 1 .. nitemsRead'
  /\ UNCHANGED <<syncReg, len, pdu, dsPos, env, out>>

-----------------------------------------------------------------------------
(* case SEARCHING_SYNC: search_sync *)

IsSyncAt(in, k) == Distance(Shifted(syncReg, in, k), conf.sync) <= conf.syncThrsh

\* Where the loop returns early: at a sync word, or when it is overdue.
SyncEnds(in) == {k \in 1 .. Len(in) : IsSyncAt(in, k) \/ cnt + k > SyncLimit}

NoSync(in) ==
  /\ SyncEnds(in) = {}
  /\ syncReg' = Shifted(syncReg, in, Len(in))
  /\ cnt' = cnt + Len(in)
  /\ Consume(Len(in))
  /\ state' = "SEARCHING_SYNC"
  /\ UNCHANGED <<preambleReg, len, pdu, dsPos>>

SyncFound(in) ==
  /\ LET ends == SyncEnds(in)
         k == Min(ends)
     IN  /\ ends # {}
         /\ IsSyncAt(in, k)
         /\ syncReg' = Shifted(syncReg, in, k)
         /\ Consume(k)
  /\ state' = "DECODING_FRAME_LEN"
  /\ cnt' = 0
  /\ UNCHANGED <<preambleReg, len, pdu, dsPos>>

SyncOverdue(in) ==
  /\ LET ends == SyncEnds(in)
         k == Min(ends)
     IN  /\ ends # {}
         /\ ~ IsSyncAt(in, k)
         /\ Consume(k)
  /\ ResetObject
  /\ UNCHANGED len

\* search_sync
SearchSync(in) == NoSync(in) \/ SyncFound(in) \/ SyncOverdue(in)

\* Without a preamble search_preamble goes on to search_sync in the same call.
NoPreambleGiven(in) ==
  /\ state = "SEARCHING"
  /\ conf.preamble = <<>>
  /\ frameStart' = nitemsRead
  /\ SearchSync(in)
  /\ UNCHANGED <<env, hunted, out>>

SyncSearched(in) ==
  /\ state = "SEARCHING_SYNC"
  /\ SearchSync(in)
  /\ UNCHANGED <<frameStart, env, hunted, out>>

-----------------------------------------------------------------------------
(* case DECODING_FRAME_LEN: decode_frame_len *)

LengthMissing == LengthFieldLen - Len(pdu)

FrameLenPart(in) ==
  /\ state = "DECODING_FRAME_LEN"
  /\ Len(in) \div 8 < LengthMissing
  /\ pdu' = pdu \o Octets(in)
  /\ Consume(8 * (Len(in) \div 8))
  /\ UNCHANGED <<state, preambleReg, syncReg, cnt, len, dsPos, frameStart, env,
                 hunted, out>>

\* What follows is the payload, unless the length has too many wrong bits.  (A
\* length is below 256, never above max_frame_len.)
FrameLen(in) ==
  /\ state = "DECODING_FRAME_LEN"
  /\ Len(in) \div 8 >= LengthMissing
  /\ LET octets == pdu \o Octets(SubSeq(in, 1, 8 * LengthMissing))
     IN  IF GolayDecode(octets) # -1
           THEN /\ len' = GolayDecode(octets)
                /\ pdu' = <<>>
                /\ state' = "DECODING_PAYLOAD"
                /\ UNCHANGED <<preambleReg, syncReg, cnt, dsPos>>
           ELSE /\ ResetObject
                /\ UNCHANGED len
  /\ Consume(8 * LengthMissing)
  /\ UNCHANGED <<frameStart, env, hunted, out>>

-----------------------------------------------------------------------------
(* case DECODING_PAYLOAD: decode_payload *)

\* Octets missing.  d_cnt is only compared for equality with d_len.
Missing == len - Len(pdu)

\* Faulty variant: the octets of this call are thrown away.
PayloadPartLost(in) ==
  /\ state = "DECODING_PAYLOAD"
  /\ ~ Missing \in 1 .. Len(in) \div 8
  /\ Consume(8 * (Len(in) \div 8))
  /\ UNCHANGED <<state, preambleReg, syncReg, cnt, len, pdu, dsPos, frameStart,
                 env, hunted, out>>

PayloadPart(in) ==
  /\ state = "DECODING_PAYLOAD"
  /\ ~ Missing \in 1 .. Len(in) \div 8
  /\ pdu' = pdu \o Octets(in)
  /\ Consume(8 * (Len(in) \div 8))
  /\ UNCHANGED <<state, preambleReg, syncReg, cnt, len, dsPos, frameStart, env,
                 hunted, out>>

\* The data of a frame, its CRC included; <<>> if Reed-Solomon fails.
Data(octets) ==
  IF conf.rs
    THEN SubSeq(RsDecode(octets), 1, Len(RsDecode(octets)) - Parity)
    ELSE octets

\* An invalid CRC is reported; the frame is published all the same.
Metadata(data, end) ==
  [pdu |-> SubSeq(data, 1, Len(data) - CrcLen),
   crcValid |-> CheckCrc(data),
   start |-> frameStart,
   cnt |-> end - frameStart]

PayloadComplete(in) ==
  /\ state = "DECODING_PAYLOAD"
  /\ Missing \in 1 .. Len(in) \div 8
  /\ Consume(8 * Missing)
  /\ LET octets == Descrambled(pdu \o Octets(SubSeq(in, 1, 8 * Missing)), dsPos)
     IN  IF Data(octets) # <<>>
           THEN out' = Append(out, Metadata(Data(octets), nitemsRead'))
           ELSE UNCHANGED out
  /\ ResetObject
  /\ UNCHANGED <<len, frameStart, env, hunted>>

-----------------------------------------------------------------------------
(* Specification *)

\* frame_decoder::work, called with these items: one call of decode().
Work(in) ==
  \/ NoPreamble(in) \/ PreambleFound(in) \/ NoPreambleGiven(in)
  \/ SyncSearched(in)
  \/ FrameLenPart(in) \/ FrameLen(in)
  \/ PayloadPart(in) \/ PayloadComplete(in)

\* set_output_multiple(input_multiple()): whole octets of the buffer.
Run == \E n \in 1 .. Len(inp) \div 8 : Work(SubSeq(inp, 1, 8 * n))

Next ==
  \/ sends < MaxSends /\ Len(inp) <= MaxHeld /\ \E chunk \in Mode5Chunks : Send(chunk)
  \/ Reset
  \/ Run

-----------------------------------------------------------------------------
(* Properties *)

Near(bits, word, thrsh) ==
  Len(bits) = Len(word) /\ Distance(bits, word) <= thrsh

Stretch(from, n) == SubSeq(rx, from, from + n - 1)

\* The n octets sent from this bit on.
SentOctets(from, n) == Octets(Stretch(from, 8 * n))

\* The length sent behind a sync word, and the frame behind that.
LengthAt(from) == GolayDecode(SentOctets(from, LengthFieldLen))
FrameAt(from) ==
  Data(Descrambled(SentOctets(from + 8 * LengthFieldLen, LengthAt(from)), 0))

\* The last bit of the frame whose length is sent from this bit on.
CloseOf(from) == from + 8 * (LengthFieldLen + LengthAt(from)) - 1

\* The search that began at sample_start found the sync word in front of this
\* bit; zeros of the register stand for the bits before its first.
SyncInFront(start, from) ==
  /\ from - 1 - start \in 1 .. SyncLimit + 1
  /\ Distance(Entered(rx, start, from - 1, Len(conf.sync)), conf.sync)
       <= conf.syncThrsh

\* Every published frame was sent: the bits up to sample_start + sample_cnt
\* are a sync word no further from sample_start than the search allows, a
\* length, and as many octets, of which the frame is what Reed-Solomon makes;
\* crc_valid tells the truth.
FrameFaithful ==
  \A j \in 1 .. Len(out) :
    LET f == out[j]
    IN  \E from \in f.start + 2 .. f.start + SyncLimit + 2 :
          /\ from + 8 * LengthFieldLen - 1 <= Len(rx)
          /\ SyncInFront(f.start, from)
          /\ LengthAt(from) # -1
          /\ CloseOf(from) = f.start + f.cnt
          /\ FrameAt(from) # <<>>
          /\ f.crcValid = CheckCrc(FrameAt(from))
          /\ f.pdu = SubSeq(FrameAt(from), 1, Len(FrameAt(from)) - CrcLen)

\* A frame that Reed-Solomon can correct, behind k preamble words from the
\* p-th bit on, has been read; its preamble was searched from its first bit,
\* and no reset came meanwhile.
IsTransmission(p, k) ==
  LET P == Len(conf.preamble)
      S == Len(conf.sync)
      from == p + k * P + S
  IN  /\ p \in hunted
      /\ from + 8 * LengthFieldLen - 1 <= nitemsRead
      /\ \A j \in 0 .. k - 1 :
           Near(Stretch(p + j * P, P), conf.preamble, conf.preambleThrsh)
      /\ Near(Stretch(p + k * P, S), conf.sync, conf.syncThrsh)
      /\ LengthAt(from) # -1
      /\ CloseOf(from) <= nitemsRead
      /\ FrameAt(from) # <<>>
      /\ \A r \in 1 .. Len(resets) :
           ~ resets[r].read \in p .. CloseOf(from) - 1

IsPublished(from) ==
  \E j \in 1 .. Len(out) :
    /\ out[j].start + out[j].cnt = CloseOf(from)
    /\ out[j].pdu = SubSeq(FrameAt(from), 1, Len(FrameAt(from)) - CrcLen)

\* A frame behind one or two preamble words is never missed, with wrong bits
\* within the thresholds, a wrong octet, whatever noise or broken frame comes
\* before and however the scheduler cuts it.
NoFrameMissed ==
  \A p \in hunted, k \in 1 .. 2 :
    IsTransmission(p, k) =>
      IsPublished(p + k * Len(conf.preamble) + Len(conf.sync))

=============================================================================
