------------------------- MODULE IEEE802154Decoder -------------------------
(***************************************************************************)
(* ieee802_15_4_variant_decoder (lib/ieee802_15_4_variant_decoder.cc)      *)
(* driven by the frame_decoder block: preamble, sync word, a length octet  *)
(* in variable length mode, payload and CRC, octets sent most significant  *)
(* bit first.                                                              *)
(*                                                                         *)
(* Unlike ax25_decoder this decoder keeps no bits.  A call of decode()     *)
(* does one thing, says how many items it consumed, and the scheduler      *)
(* hands the others over again: `inp` is the input buffer of the block,    *)
(* and a call gets some multiple of input_multiple() of it.  The arguments *)
(* of the constructor are picked in Init and never change.                 *)
(*                                                                         *)
(* d_pdu[0 .. d_cnt - 1] is the sequence `pdu` while the frame is being    *)
(* received; `cnt` is d_cnt in the search for the sync word.  `dsPos` is   *)
(* the position of the descrambler in its sequence.                        *)
(***************************************************************************)
EXTENDS ShiftReg

LOCAL INSTANCE FiniteSetsExt

CONSTANTS
  Configs,           \* sets of constructor arguments
  CrcSize,           \* crc::crc_size(d_crc)
  Crc(_),            \* the CRC of some octets, as the octets sent
  Descramble(_, _),  \* position in the descrambler's sequence, octet
  Chunks,            \* the bits that may arrive together
  MaxSends,          \* bound: chunks in a behaviour
  MaxResets          \* bound: reset messages in a behaviour

\* What the constructor accepts (the words come as whole octets).
ASSUME ConfigsAssumption ==
  \A c \in Configs :
    /\ c.preamble \in Seq(Bit) /\ Len(c.preamble) % 8 = 0
    /\ c.sync \in Seq(Bit) /\ Len(c.sync) % 8 = 0 /\ Len(c.sync) >= 8
    /\ c.preambleThrsh \in Nat /\ c.syncThrsh \in Nat
    /\ c.preamble # <<>> => Len(c.preamble) >= 2 * c.preambleThrsh
    /\ Len(c.sync) >= 2 * c.syncThrsh
    /\ c.varLen \in BOOLEAN /\ c.dropInvalid \in BOOLEAN
    /\ c.maxLen \in Nat /\ c.maxLen >= 1

\* Items are bits, the CRC has some number of octets, and a descrambler that
\* was just reset gives an octet for an octet.
ASSUME DataAssumption ==
  /\ CrcSize \in Nat
  /\ \A chunk \in Chunks : chunk \in Seq(Bit)
  /\ \A octet \in Byte : Descramble(0, octet) \in Byte

VARIABLES
  conf,         \* the const members
  \* the decoder object
  state,        \* d_state
  preambleReg,  \* d_preamble_shift_reg, oldest bit first
  syncReg,      \* d_sync_shift_reg, oldest bit first
  cnt,          \* d_cnt, in SEARCHING_SYNC
  len,          \* d_len
  pdu,          \* d_pdu[0 .. d_cnt - 1], in DECODING_PAYLOAD
  dsPos,        \* octets descrambled since the last reset()
  frameStart,   \* d_frame_start_idx
  nitemsRead,   \* d_nitems_read
  \* the block, the environment and the history
  inp,          \* items in the input buffer of the block
  rx,           \* every bit sent so far
  sends,        \* chunks sent so far
  resets,       \* for each reset, the bits read and frames published before
  hunted,       \* the bits of rx read in the search for a preamble
  out           \* what the block published on its "out" port

objectVars == <<state, preambleReg, syncReg, cnt, len, pdu, dsPos, frameStart>>
env == <<conf, rx, sends, resets>>
vars == <<objectVars, nitemsRead, inp, env, hunted, out>>

-----------------------------------------------------------------------------
(* Operators *)

\* whitening::descramble of octets from this position on.
Descrambled(octets, pos) ==
  [k \in 1 .. Len(octets) |-> Descramble(pos + k - 1, octets[k])]

LengthField == IF conf.varLen THEN 1 ELSE 0   \* d_length_field_len

\* check_crc, over everything in d_pdu, the length octet included.
CheckCrc(octets) ==
  LET n == Len(octets) - CrcSize
  IN  CrcSize = 0 \/ Crc(SubSeq(octets, 1, n)) = SubSeq(octets, n + 1, n + CrcSize)

\* Faulty variant: no room for more than one preamble word.
SyncLimitOneWord == Len(conf.preamble) + Len(conf.sync) + conf.syncThrsh

\* The latest a sync word may end, in bits from the end of the preamble.
SyncLimit == 2 * Len(conf.preamble) + Len(conf.sync) + conf.syncThrsh

Hunting == IF conf.preamble # <<>> THEN "SEARCHING" ELSE "SEARCHING_SYNC"

\* incr_nitems_read, and the scheduler's consume.
Consume(n) ==
  /\ nitemsRead' = nitemsRead + n
  /\ inp' = SubSeq(inp, n + 1, Len(inp))

\* Faulty variant: the descrambler is not reset.
ResetObjectNotDescrambler ==
  /\ dsPos' = dsPos + Len(pdu)
  /\ cnt' = 0
  /\ state' = Hunting
  /\ preambleReg' = Zeros(Len(conf.preamble))
  /\ syncReg' = Zeros(Len(conf.sync))
  /\ pdu' = <<>>

\* reset()
ResetObject ==
  /\ dsPos' = 0
  /\ cnt' = 0
  /\ state' = Hunting
  /\ preambleReg' = Zeros(Len(conf.preamble))
  /\ syncReg' = Zeros(Len(conf.sync))
  /\ pdu' = <<>>

-----------------------------------------------------------------------------
(* The block *)

Init ==
  /\ conf \in Configs
  /\ state = Hunting
  /\ preambleReg = Zeros(Len(conf.preamble))
  /\ syncReg = Zeros(Len(conf.sync))
  /\ cnt = 0
  /\ len = conf.maxLen + CrcSize
  /\ pdu = <<>>
  /\ dsPos = 0
  /\ frameStart = 0
  /\ nitemsRead = 0
  /\ inp = <<>>
  /\ rx = <<>>
  /\ sends = 0
  /\ resets = <<>>
  /\ hunted = {}
  /\ out = <<>>

\* More items arrive in the input buffer.
Send(chunk) ==
  /\ sends < MaxSends
  /\ sends' = sends + 1
  /\ inp' = inp \o chunk
  /\ rx' = rx \o chunk
  /\ UNCHANGED <<objectVars, nitemsRead, conf, resets, hunted, out>>

\* Faulty variant: the reset clears the registers but not the state.
ResetKeepsState ==
  /\ Len(resets) < MaxResets
  /\ preambleReg' = Zeros(Len(conf.preamble))
  /\ syncReg' = Zeros(Len(conf.sync))
  /\ resets' = Append(resets, [read |-> nitemsRead, published |-> Len(out)])
  /\ UNCHANGED <<state, cnt, pdu, dsPos, len, frameStart, nitemsRead, inp,
                 conf, rx, sends, hunted, out>>

\* A message on the "reset" port, between two calls of work().
Reset ==
  /\ Len(resets) < MaxResets
  /\ ResetObject
  /\ resets' = Append(resets, [read |-> nitemsRead, published |-> Len(out)])
  /\ UNCHANGED <<len, frameStart, nitemsRead, inp, conf, rx, sends, hunted, out>>

-----------------------------------------------------------------------------
(* case SEARCHING: search_preamble *)

PreamblesIn(in) ==
  {k \in 1 .. Len(in) : Distance(Shifted(preambleReg, in, k), conf.preamble)
                          <= conf.preambleThrsh}

NoPreamble(in) ==
  /\ state = "SEARCHING"
  /\ PreamblesIn(in) = {}
  /\ preambleReg' = Shifted(preambleReg, in, Len(in))
  /\ Consume(Len(in))
  /\ hunted' = hunted \cup nitemsRead + 1 .. nitemsRead'
  /\ UNCHANGED <<state, syncReg, cnt, len, pdu, dsPos, frameStart, env, out>>

\* Faulty variant: the start of the frame is relative to the call.
PreambleFoundInCall(in) ==
  /\ state = "SEARCHING"
  /\ LET found == PreamblesIn(in)
         k == Min(found)
     IN  /\ found # {}
         /\ preambleReg' = Shifted(preambleReg, in, k)
         /\ frameStart' = k
         /\ Consume(k)
  /\ state' = "SEARCHING_SYNC"
  /\ cnt' = 0
  /\ hunted' = hunted \cup nitemsRead + 1 .. nitemsRead'
  /\ UNCHANGED <<syncReg, len, pdu, dsPos, env, out>>

PreambleFound(in) ==
  /\ state = "SEARCHING"
  /\ LET found == PreamblesIn(in)
         k == Min(found)
     IN  /\ found # {}
         /\ preambleReg' = Shifted(preambleReg, in, k)
         /\ frameStart' = nitemsRead + k
         /\ Consume(k)
  /\ state' = "SEARCHING_SYNC"
  /\ cnt' = 0
  /\ hunted' = hunted \cup nitemsRead + 1 .. nitemsRead'
  /\ UNCHANGED <<syncReg, len, pdu, dsPos, env, out>>

-----------------------------------------------------------------------------
(* case SEARCHING_SYNC: search_sync *)

IsSyncAt(in, k) == Distance(Shifted(syncReg, in, k), conf.sync) <= conf.syncThrsh

\* Where the loop returns early: at a sync word, or when it is overdue.
SyncEnds(in) == {k \in 1 .. Len(in) : IsSyncAt(in, k) \/ cnt + k > SyncLimit}

NoSync(in) ==
  /\ state = "SEARCHING_SYNC"
  /\ SyncEnds(in) = {}
  /\ syncReg' = Shifted(syncReg, in, Len(in))
  /\ cnt' = cnt + Len(in)
  /\ Consume(Len(in))
  /\ UNCHANGED <<state, preambleReg, len, pdu, dsPos, frameStart, env, hunted,
                 out>>

SyncFound(in) ==
  /\ state = "SEARCHING_SYNC"
  /\ LET ends == SyncEnds(in)
         k == Min(ends)
     IN  /\ ends # {}
         /\ IsSyncAt(in, k)
         /\ syncReg' = Shifted(syncReg, in, k)
         /\ Consume(k)
  /\ state' = IF conf.varLen THEN "DECODING_GENERIC_FRAME_LEN"
                             ELSE "DECODING_PAYLOAD"
  /\ cnt' = 0
  /\ UNCHANGED <<preambleReg, len, pdu, dsPos, frameStart, env, hunted, out>>

SyncOverdue(in) ==
  /\ state = "SEARCHING_SYNC"
  /\ LET ends == SyncEnds(in)
         k == Min(ends)
     IN  /\ ends # {}
         /\ ~ IsSyncAt(in, k)
         /\ Consume(k)
  /\ ResetObject
  /\ UNCHANGED <<len, frameStart, env, hunted, out>>

-----------------------------------------------------------------------------
(* case DECODING_GENERIC_FRAME_LEN: decode_frame_len *)

FrameLen(in) ==
  /\ state = "DECODING_GENERIC_FRAME_LEN"
  /\ LET length == Descramble(dsPos, OctetOf(SubSeq(in, 1, 8)))
     IN  /\ len' = length + CrcSize
         /\ pdu' = <<length>>
  /\ dsPos' = dsPos + 1
  /\ state' = "DECODING_PAYLOAD"
  /\ Consume(8)
  /\ UNCHANGED <<preambleReg, syncReg, cnt, frameStart, env, hunted, out>>

-----------------------------------------------------------------------------
(* case DECODING_PAYLOAD: decode_payload *)

\* Octets missing.  d_cnt is only compared for equality with the total.
Missing == len + LengthField - Len(pdu)

\* Faulty variant: a partial payload is left in the input buffer.
PayloadPartWaits(in) ==
  /\ state = "DECODING_PAYLOAD"
  /\ ~ Missing \in 1 .. Len(in) \div 8
  /\ Consume(0)
  /\ UNCHANGED <<state, preambleReg, syncReg, cnt, len, pdu, dsPos, frameStart,
                 env, hunted, out>>

PayloadPart(in) ==
  /\ state = "DECODING_PAYLOAD"
  /\ ~ Missing \in 1 .. Len(in) \div 8
  /\ pdu' = pdu \o Octets(in)
  /\ Consume(8 * (Len(in) \div 8))
  /\ UNCHANGED <<state, preambleReg, syncReg, cnt, len, dsPos, frameStart, env,
                 hunted, out>>

\* The frame in d_pdu, its payload and CRC descrambled.
Received(octets) ==
  SubSeq(octets, 1, LengthField)
    \o Descrambled(SubSeq(octets, LengthField + 1, Len(octets)), dsPos)

\* An invalid frame that is not dropped is published with its CRC octets.
Metadata(octets, end) ==
  [pdu |-> SubSeq(octets, LengthField + 1,
                  IF CheckCrc(octets) THEN Len(octets) - CrcSize
                                      ELSE Len(octets)),
   crcValid |-> CheckCrc(octets),
   start |-> frameStart,
   cnt |-> end - frameStart]

PayloadComplete(in) ==
  /\ state = "DECODING_PAYLOAD"
  /\ Missing \in 1 .. Len(in) \div 8
  /\ LET octets == Received(pdu \o Octets(SubSeq(in, 1, 8 * Missing)))
     IN  IF CheckCrc(octets) \/ ~ conf.dropInvalid
           THEN out' = Append(out, Metadata(octets, nitemsRead + 8 * Missing))
           ELSE UNCHANGED out
  /\ Consume(8 * Missing)
  /\ ResetObject
  /\ UNCHANGED <<len, frameStart, env, hunted>>

-----------------------------------------------------------------------------
(* Specification *)

\* frame_decoder::work, called with these items: one call of decode().
Work(in) ==
  \/ NoPreamble(in) \/ PreambleFound(in)
  \/ NoSync(in) \/ SyncFound(in) \/ SyncOverdue(in)
  \/ FrameLen(in)
  \/ PayloadPart(in) \/ PayloadComplete(in)

\* set_output_multiple(input_multiple()): whole octets of the buffer.
Run == \E n \in 1 .. Len(inp) \div 8 : Work(SubSeq(inp, 1, 8 * n))

Next ==
  \/ \E chunk \in Chunks : Send(chunk)
  \/ Reset
  \/ Run

Spec == Init /\ [][Next]_vars

\* The scheduler calls work() as long as there is enough input.
FairSpec == Spec /\ WF_vars(Run)

-----------------------------------------------------------------------------
(* Properties *)

Near(bits, word, thrsh) ==
  Len(bits) = Len(word) /\ Distance(bits, word) <= thrsh

Stretch(from, n) == SubSeq(rx, from, from + n - 1)

\* A search that began behind bit `from`, where the frame is said to start if
\* there is a preamble, found the sync word in front of this bit.
SyncInFront(c, stream, start, body) ==
  \E from \in start .. body - 2 :
    /\ c.preamble # <<>> => from = start
    /\ body - 1 - from <= 2 * Len(c.preamble) + Len(c.sync) + c.syncThrsh + 1
    /\ Distance(Entered(stream, from, body - 1, Len(c.sync)), c.sync)
         <= c.syncThrsh

\* The n octets sent from this bit on, as they were before the scrambler.
Sent(from, n) == Descrambled(Octets(Stretch(from, 8 * n)), 0)

\* The octets of a frame whose first are these.
Total(octets) ==
  LengthField + CrcSize + IF conf.varLen THEN octets[1] ELSE conf.maxLen

GoodCrc(octets) ==
  LET n == Len(octets) - CrcSize
  IN  \/ CrcSize = 0
      \/ Crc(SubSeq(octets, 1, n)) = SubSeq(octets, n + 1, Len(octets))

Payload(octets) ==
  SubSeq(octets, LengthField + 1, Len(octets) - CrcSize)

\* Every published frame was sent: the bits up to sample_start + sample_cnt
\* are a sync word no further from sample_start than the search allows, and
\* the scrambled octets of the frame; crc_valid tells the truth.  A counter, a
\* register or the descrambler that keeps something of the frame before, of a
\* search given up or of a reset breaks it.
IsAsSent(f) ==
  LET end == f.start + f.cnt
  IN  \E n \in 1 .. f.cnt \div 8 :
        LET body == end - 8 * n + 1
            octets == Sent(body, n)
        IN  /\ n = Total(octets)
            /\ SyncInFront(conf, rx, f.start, body)
            /\ f.crcValid = GoodCrc(octets)
            /\ f.crcValid \/ ~ conf.dropInvalid
            /\ f.pdu = IF f.crcValid
                         THEN Payload(octets)
                         ELSE SubSeq(octets, LengthField + 1, n)

FrameFaithful == \A j \in 1 .. Len(out) : IsAsSent(out[j])

\* A valid frame behind k preamble words from the p-th bit on has been read,
\* its preamble was searched from its first bit, and no reset came meanwhile.
IsTransmission(p, k) ==
  LET P == Len(conf.preamble)
      S == Len(conf.sync)
      body == p + k * P + S
      n == Total(Sent(body, 1))
      close == body + 8 * n - 1
  IN  /\ p \in hunted
      /\ body + 7 <= nitemsRead
      /\ \A j \in 0 .. k - 1 :
           Near(Stretch(p + j * P, P), conf.preamble, conf.preambleThrsh)
      /\ Near(Stretch(p + k * P, S), conf.sync, conf.syncThrsh)
      /\ close <= nitemsRead
      /\ GoodCrc(Sent(body, n))
      /\ \A r \in 1 .. Len(resets) : ~ resets[r].read \in p .. close - 1

IsPublished(p, k) ==
  LET body == p + k * Len(conf.preamble) + Len(conf.sync)
      n == Total(Sent(body, 1))
  IN  \E j \in 1 .. Len(out) :
        /\ out[j].start + out[j].cnt = body + 8 * n - 1
        /\ out[j].crcValid
        /\ out[j].pdu = Payload(Sent(body, n))

\* A frame behind one or two preamble words is never missed, with wrong bits
\* within the thresholds, whatever noise comes before and however the
\* scheduler cuts it: a false preamble found inside the first word is given up
\* late enough.
NoFrameMissed ==
  \A p \in hunted, k \in 1 .. 2 : IsTransmission(p, k) => IsPublished(p, k)

\* include/satnogs/decoder.h: reset() "Resets the internal state of the
\* decoder to the initial defaults": what began before a reset is not
\* published after it.  (Without a preamble d_frame_start_idx is never set, and
\* every frame is said to start at 0.)
ResetForgets ==
  conf.preamble # <<>> =>
    \A r \in 1 .. Len(resets) :
      \A j \in resets[r].published + 1 .. Len(out) :
        out[j].start >= resets[r].read

\* The block reads its input down to less than input_multiple() items: there
\* is no state in which decode() consumes nothing until more has arrived.
InputDrained == Len(inp) >= 8 ~> Len(inp) < 8

\* The sample ranges of the frames published.  Without a preamble they all
\* begin at 0, and none counts.
Spans ==
  [j \in 1 .. IF conf.preamble # <<>> THEN Len(out) ELSE 0 |->
     [start |-> out[j].start, cnt |-> out[j].cnt]]

\* The decoder keeps the contract of the decoders; no two frames overlap.
Contract == INSTANCE Decoder
  WITH Overlap <- 0,
       fed <- Len(rx),
       read <- nitemsRead,
       spans <- Spans

ImplementsDecoder == Contract!Spec
=============================================================================
