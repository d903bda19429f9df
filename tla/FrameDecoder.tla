---------------------------- MODULE FrameDecoder ----------------------------
(***************************************************************************)
(* A frame_decoder block (lib/frame_decoder_impl.cc) with one of the       *)
(* decoders that keep all undecoded input themselves: argos_ldr_decoder,   *)
(* amsat_duv_decoder or cw_decoder.  The variables of the others keep      *)
(* their initial values.                                                   *)
(***************************************************************************)
EXTENDS Integers, Sequences, FiniteSets

CONSTANTS
  Kinds,                                 \* of decoders: "argos", "amsat", "cw"
  ArgosMaxFrameLen, ArgosFcs(_), ArgosConfigs, ArgosChunks, MaxSends,
  Control, NegTable, PosTable, FrameWords, AmsatParity, Codewords,
  SpacecraftIds, AmsatChunks, AmsatMaxSends,
  Sentences, InjectErrors, PauseDots, DotWindows, ConfNum, ConfDen, MinLen,
  MaxLen, DirtyWindows, NfWindows, ChannelsNum, Recordings, LeadIn, WorkSizes,
  DecodeSizes, MaxErrors, MaxQueued, MaxAir, MaxSentences,
  MaxResets

\* What arrives are bits, and what Reed-Solomon may correct are octets.
\* d_frame_buffer has room for the octet that a frame begins with.
ASSUME StreamAssumption ==
  /\ ArgosMaxFrameLen \in Nat /\ ArgosMaxFrameLen >= 2
  /\ FrameWords \in Nat
  /\ ArgosChunks \subseteq Seq({0, 1})
  /\ AmsatChunks \subseteq Seq({0, 1})
  /\ AmsatParity \in Nat
  /\ Codewords \subseteq Seq(0 .. 255)
  /\ DotWindows \in Nat /\ MinLen \in Nat
  /\ ChannelsNum \in Nat \ {0}
  /\ DecodeSizes \subseteq Nat

VARIABLES
  kind,                                                     \* a decoder
  resets, out,                                              \* of all
  state, bitstream, pc, rx,                                 \* of argos and amsat
  conf, shiftReg, decB, decodedBits, frame, startIdx,       \* of argos
  frameStart, nitemsRead, i, status, sends,
  dataReg, words, erasures, bitstreamIdx, calls,            \* of amsat
  sentence, next, sent, errors, symbols, symbol, remaining, \* of cw
  air, recording, heard, deaf, chan, frames, messages, pending

ofBits == <<state, bitstream, pc, rx>>
onlyArgos == <<conf, shiftReg, decB, decodedBits, frame, startIdx, frameStart,
               nitemsRead, i, status, sends>>
onlyAmsat == <<dataReg, words, erasures, bitstreamIdx, calls>>
onlyCw == <<sentence, next, sent, errors, symbols, symbol, remaining, air,
            recording, heard, deaf, chan, frames, messages, pending>>
vars == <<kind, resets, out, ofBits, onlyArgos, onlyAmsat, onlyCw>>

Argos == INSTANCE ArgosDecoder
Amsat == INSTANCE AmsatDuvDecoder
Cw == INSTANCE CWLink

IdleArgos == /\ conf = [crc |-> FALSE]
             /\ shiftReg = 0 /\ decB = 0 /\ decodedBits = 0 /\ frame = <<>>
             /\ startIdx = 0 /\ frameStart = 0 /\ nitemsRead = 0 /\ i = 0
             /\ status = <<>> /\ sends = 0

IdleAmsat == /\ dataReg = <<>> /\ words = <<>> /\ erasures = {}
             /\ bitstreamIdx = 0 /\ calls = <<>>

IdleBits == state = "none" /\ bitstream = <<>> /\ pc = "idle" /\ rx = <<>>

IdleCw == /\ sentence = <<>> /\ next = 1 /\ sent = 0 /\ errors = 0
          /\ symbols = <<>> /\ symbol = "none" /\ remaining = 0 /\ air = <<>>
          /\ recording = <<>> /\ heard = 0 /\ deaf = {} /\ chan = <<>>
          /\ frames = <<>> /\ messages = <<>> /\ pending = <<>>

Init ==
  /\ kind \in Kinds
  /\ \/ kind = "argos" /\ Argos!Init /\ IdleAmsat /\ IdleCw
     \/ kind = "amsat" /\ Amsat!Init /\ IdleArgos /\ IdleCw
     \/ kind = "cw" /\ Cw!Init /\ IdleBits /\ IdleArgos /\ IdleAmsat

Next ==
  /\ UNCHANGED kind
  /\ \/ kind = "argos" /\ Argos!Next /\ UNCHANGED <<onlyAmsat, onlyCw>>
     \/ kind = "amsat" /\ Amsat!Next /\ UNCHANGED <<onlyArgos, onlyCw>>
     \/ kind = "cw" /\ Cw!Next /\ UNCHANGED <<ofBits, onlyArgos, onlyAmsat>>

Spec == Init /\ [][Next]_vars

\* The thread that has called decode() keeps running.  (A call of the amsat
\* decoder is over after three turns of its loop, and one of the cw decoder is
\* one step: nothing is assumed of them.)
Scan == kind = "argos" /\ Argos!Scan /\ UNCHANGED <<kind, onlyAmsat, onlyCw>>

FairSpec == Spec /\ WF_vars(Scan)

-----------------------------------------------------------------------------
(* Properties, see the modules of the decoders *)

\* Neither loses or misplaces a bit that it may have to search again.
BufferAccounted ==
  /\ kind = "argos" => Argos!BufferAccounted
  /\ kind = "amsat" => Amsat!BufferAccounted

\* What is published as good was sent, in the place it is said to come from.
FrameFaithful ==
  /\ kind = "argos" => Argos!FrameFaithful
  /\ kind = "amsat" => Amsat!FrameFaithful

\* No good frame is lost to what comes before it.
NoFrameMissed ==
  /\ kind = "argos" => Argos!NoFrameMissed
  /\ kind = "amsat" => Amsat!NoFrameMissed

\* lib/argos_ldr_decoder.cc:118: "HDLC flag in most case is repeated multiple
\* times": however many flags there are in front of a good frame, it is found.
AnyNumberOfFlags == kind = "argos" => Argos!AnyNumberOfFlags

\* The words of the text that cw decodes are those keyed, around a reset too.
WordsConserved == kind = "cw" => Cw!WordsConserved

\* Each message that is keyed comes out once, whole, on the channel it is from.
MessagesAsKeyed == kind = "cw" => Cw!MessagesAsKeyed

\* The texts that wait to be published, one for each call, do not pile up.
QueueShort == kind = "cw" => Cw!QueueShort

\* A call of decode() returns, although a frame with a wrong FCS or one that is
\* given up sends the loop of argos back over bits it has seen.
DecodeReturns == (kind = "argos" /\ pc = "scan") ~> pc = "idle"

\* The j-th least of a finite set of numbers.
Nth(S, j) == CHOOSE n \in S : Cardinality({m \in S : m <= n}) = j

\* The sample ranges: those of the frames of argos with a valid FCS.  The others
\* report no ranges and never count the items they have read.
Ranged == {n \in 1 .. Len(out) : out[n].crcValid}

Spans ==
  [j \in 1 .. IF kind = "argos" THEN Cardinality(Ranged) ELSE 0 |->
     [start |-> out[Nth(Ranged, j)].start, cnt |-> out[Nth(Ranged, j)].cnt]]

Contract == INSTANCE Decoder
  WITH Overlap <- 0,
       fed <- Len(rx),
       read <- nitemsRead,
       spans <- Spans

\* The decoders keep the contract of decoder.h; no two frames overlap.
ImplementsDecoder == Contract!Spec
=============================================================================
