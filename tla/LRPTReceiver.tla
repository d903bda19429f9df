---------------------------- MODULE LRPTReceiver ----------------------------
(***************************************************************************)
(* lrpt_sync (lib/lrpt_sync_impl.cc), which finds the coded frames (CADUs) *)
(* of a weather satellite in QPSK symbols of unknown phase, and the        *)
(* lrpt_decoder (lib/lrpt_decoder_impl.cc) behind it, which gets them as   *)
(* messages in a thread of its own.                                        *)
(*                                                                         *)
(* A symbol is what the decision maker says of it, 0 .. 3.  The scheduler  *)
(* hands the items that work() does not consume over again, and only       *)
(* multiples of d_window.                                                  *)
(***************************************************************************)
EXTENDS Integers, Sequences, FiniteSets

LOCAL INSTANCE SequencesExt
LOCAL INSTANCE FiniteSetsExt

CONSTANTS
  Asm,         \* d_asm_coded, in symbols
  Threshold,   \* d_thresh, in bits
  RegLen,      \* symbols of a shift register, whole octets
  Window,      \* d_window, in symbols
  CaduLen,     \* d_coded_cadu_len, in octets
  Vcdu(_),     \* the header of the VCDU that Viterbi decoder and descrambler
               \* make of the symbols behind the register
  LrptChunks,  \* what may arrive together: [symbols, asmAt], where the sync
               \* word ends, 0: nowhere
  Phases,      \* quarter turns the constellation may be off by
  MaxLrptSends,\* bound: chunks in a behaviour
  MaxLrptHeld  \* bound: items in the input buffer when more arrive

VARIABLES
  frameSync,   \* d_frame_sync
  regs,        \* d_shift_reg0 .. 3
  rotation,    \* d_rotate, in quarter turns
  codedCadu,   \* the first d_received octets of d_coded_cadu, in symbols
  inp,         \* items in the input buffer of lrpt_sync
  cadus,       \* the "cadu" messages, with where their data starts
  handled,     \* how many of them lrpt_decoder has handled
  haveMpdu,    \* d_have_mpdu
  frames,      \* the "frame" messages
  rx,          \* every symbol received
  asms,        \* the sync words sent: where they end, the turns to undo
  lrptSends    \* chunks sent

lrptVars == <<frameSync, regs, rotation, codedCadu, inp, cadus, handled,
              haveMpdu, frames, rx, asms, lrptSends>>

-----------------------------------------------------------------------------
(* Operators *)

BodyLen == 4 * CaduLen - RegLen
Consumed == Len(rx) - Len(inp)

\* A quarter turn takes the point of a symbol to that of the next one here.
Circle == <<0, 1, 3, 2>>
Quarters ==
  [k \in 0 .. 3, sym \in 0 .. 3 |->
     LET at == CHOOSE p \in 1 .. 4 : Circle[p] = sym
     IN  Circle[((at - 1 + k) % 4) + 1]]
Turned(sym, k) == Quarters[k, sym]
TurnedAll(syms, k) == [s \in 1 .. Len(syms) |-> Turned(syms[s], k)]

LastOf(syms, n) == SubSeq(syms, Len(syms) - n + 1, Len(syms))

\* found_sync counts the bits that differ, two in a symbol.
FoundSync(reg) ==
  LET last == LastOf(reg, Len(Asm))
      apart == {bit \in (1 .. Len(Asm)) \X {1, 2} :
                  (last[bit[1]] \div bit[2]) % 2
                    # (Asm[bit[1]] \div bit[2]) % 2}
  IN  Cardinality(apart) <= Threshold

Items(n) == SubSeq(inp, 1, n)

\* What goes through each register in n items, and register k after j of them.
Track(k, n) == regs[k] \o TurnedAll(Items(n), k)
Tracks(n) == <<Track(0, n), Track(1, n), Track(2, n), Track(3, n)>>
After(tracks, k, j) == SubSeq(tracks[k + 1], j + 1, j + RegLen)

-----------------------------------------------------------------------------
(* lrpt_sync *)

Init ==
  /\ frameSync = FALSE
  /\ regs = [k \in 0 .. 3 |-> [s \in 1 .. RegLen |-> 0]]
  /\ rotation = 0
  /\ codedCadu = <<>>
  /\ inp = <<>>
  /\ cadus = <<>>
  /\ handled = 0
  /\ haveMpdu = FALSE
  /\ frames = <<>>
  /\ rx = <<>>
  /\ asms = {}
  /\ lrptSends = 0

Receive(chunk, phase) ==
  /\ lrptSends < MaxLrptSends
  /\ Len(inp) <= MaxLrptHeld
  /\ lrptSends' = lrptSends + 1
  /\ inp' = inp \o TurnedAll(chunk.symbols, phase)
  /\ rx' = rx \o TurnedAll(chunk.symbols, phase)
  /\ asms' = IF chunk.asmAt = 0 THEN asms
             ELSE asms \cup {[end |-> Len(rx) + chunk.asmAt,
                              undo |-> (4 - phase) % 4,
                              whole |-> Len(rx) + Len(chunk.symbols)]}
  /\ UNCHANGED <<frameSync, regs, rotation, codedCadu, cadus, handled,
                 haveMpdu, frames>>

\* The matches in n items: symbol and register.
Matches(n) ==
  LET tracks == Tracks(n)
  IN  {m \in (1 .. n) \X (0 .. 3) : FoundSync(After(tracks, m[2], m[1]))}

\* work_no_sync: the first match counts, and the registers behind the one that
\* matches do not get its symbol.
SyncFound(n) ==
  /\ ~ frameSync
  /\ LET matches == Matches(n)
         tracks == Tracks(n)
         j == Min({m[1] : m \in matches})
         r == Min({m[2] : m \in {x \in matches : x[1] = j}})
     IN  /\ matches # {}
         /\ regs' = [k \in 0 .. 3 |->
                       After(tracks, k, IF k <= r THEN j ELSE j - 1)]
         /\ codedCadu' = After(tracks, r, j)
         /\ rotation' = r
         /\ inp' = SubSeq(inp, j + 1, Len(inp))
  /\ frameSync' = TRUE
  /\ UNCHANGED <<cadus, handled, haveMpdu, frames, rx, asms, lrptSends>>

SyncNotFound(n) ==
  /\ ~ frameSync
  /\ Matches(n) = {}
  /\ LET tracks == Tracks(n)
     IN  regs' = [k \in 0 .. 3 |-> After(tracks, k, n)]
  /\ inp' = SubSeq(inp, n + 1, Len(inp))
  /\ UNCHANGED <<frameSync, rotation, codedCadu, cadus, handled, haveMpdu,
                 frames, rx, asms, lrptSends>>

\* work_sync: four symbols make an octet.
Missing == 4 * CaduLen - Len(codedCadu)

CaduPart(n) ==
  /\ frameSync
  /\ n < Missing
  /\ codedCadu' = codedCadu \o TurnedAll(Items(n), rotation)
  /\ inp' = SubSeq(inp, n + 1, Len(inp))
  /\ UNCHANGED <<frameSync, regs, rotation, cadus, handled, haveMpdu, frames,
                 rx, asms, lrptSends>>

\* Faulty variant of CaduComplete: all items count as consumed.
CaduCompleteEatsRest(n) ==
  /\ frameSync
  /\ n >= Missing
  /\ cadus' = Append(cadus,
       [symbols |-> codedCadu \o TurnedAll(Items(Missing), rotation),
        at |-> Consumed + Missing - BodyLen + 1])
  /\ inp' = SubSeq(inp, n + 1, Len(inp))
  /\ frameSync' = FALSE
  /\ codedCadu' = <<>>
  /\ UNCHANGED <<regs, rotation, handled, haveMpdu, frames, rx, asms,
                 lrptSends>>

CaduComplete(n) ==
  /\ frameSync
  /\ n >= Missing
  /\ cadus' = Append(cadus,
       [symbols |-> codedCadu \o TurnedAll(Items(Missing), rotation),
        at |-> Consumed + Missing - BodyLen + 1])
  /\ inp' = SubSeq(inp, Missing + 1, Len(inp))
  /\ frameSync' = FALSE
  /\ codedCadu' = <<>>
  /\ UNCHANGED <<regs, rotation, handled, haveMpdu, frames, rx, asms,
                 lrptSends>>

Sync(n) == SyncFound(n) \/ SyncNotFound(n) \/ CaduPart(n) \/ CaduComplete(n)

-----------------------------------------------------------------------------
(* lrpt_decoder *)

Body(cadu) == LastOf(cadu.symbols, BodyLen)

\* decode_ccsds_packet publishes nothing before a VCDU in which a packet starts
\* at once.
IsPublished(vcdu) ==
  /\ vcdu.version = 1
  /\ vcdu.keys = 0
  /\ haveMpdu \/ vcdu.hdrPtr = 0

Decode ==
  /\ handled < Len(cadus)
  /\ handled' = handled + 1
  /\ LET body == Body(cadus[handled + 1])
     IN  IF IsPublished(Vcdu(body))
           THEN haveMpdu' = TRUE /\ frames' = Append(frames, body)
           ELSE UNCHANGED <<haveMpdu, frames>>
  /\ UNCHANGED <<frameSync, regs, rotation, codedCadu, inp, cadus, rx, asms,
                 lrptSends>>

Next ==
  \/ \E chunk \in LrptChunks, phase \in Phases : Receive(chunk, phase)
  \/ \E k \in 1 .. (Len(inp) \div Window) : Sync(k * Window)
  \/ Decode

Spec == Init /\ [][Next]_lrptVars

-----------------------------------------------------------------------------
(* Properties *)

\* Where the data of the frames found so far start, the last one perhaps not
\* complete yet.
Found ==
  {cadus[s].at : s \in 1 .. Len(cadus)} \cup
  IF frameSync THEN {Consumed - (Len(codedCadu) - RegLen) + 1} ELSE {}

\* A frame that came whole is passed on with its phase undone, however it is
\* cut into calls, unless it lies across another one found before or inside
\* its sync word; frames do not overlap.
CadusAsSent ==
  /\ \A s \in 1 .. Len(cadus) - 1 : cadus[s].at + BodyLen <= cadus[s + 1].at
  /\ \A a \in asms :
       LET from == a.end - Len(Asm) + 1
           until == a.end + BodyLen
           body == TurnedAll(SubSeq(rx, a.end + 1, until), a.undo)
       IN  until <= a.whole /\ until <= Consumed =>
             \/ \E s \in 1 .. Len(cadus) :
                  cadus[s].at = a.end + 1 /\ Body(cadus[s]) = body
             \/ \E at \in Found : at <= a.end /\ at + BodyLen > from

\* From the first VCDU in which a packet starts on, the decoder publishes all
\* valid ones, in order, however far it lags behind.
FramesComplete ==
  LET bodies == [s \in 1 .. handled |-> Body(cadus[s])]
      Valid(body) == Vcdu(body).version = 1 /\ Vcdu(body).keys = 0
      starts == {s \in 1 .. handled : /\ Valid(bodies[s])
                                      /\ Vcdu(bodies[s]).hdrPtr = 0}
  IN  frames = IF starts = {} THEN <<>>
               ELSE SelectSeq(SubSeq(bodies, Min(starts), handled), Valid)

LrptAsSent == CadusAsSent /\ FramesComplete
=============================================================================
