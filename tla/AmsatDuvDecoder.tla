-------------------------- MODULE AmsatDuvDecoder ---------------------------
(***************************************************************************)
(* amsat_duv_decoder (lib/amsat_duv_decoder.cc) driven by the              *)
(* frame_decoder block: a control symbol of 10 bits, of either polarity,   *)
(* and behind it the 10 bit words of an 8b10b coded Reed-Solomon block.    *)
(* Each step behind Decode is one turn of the loop of decode().            *)
(***************************************************************************)
EXTENDS Integers, Sequences, FiniteSets, FiniteSetsExt

CONSTANTS
  Control,         \* d_control_symbol_pos, 10 bits
  NegTable,        \* d_lookup_8b10b[0] and [1], words of 10 bits
  PosTable,
  FrameWords,      \* max_frame_len(): words behind a control symbol
  AmsatParity,     \* the 32 parity octets of a Reed-Solomon block
  Codewords,       \* blocks a satellite may send
  SpacecraftIds,   \* amsat_fox_spacecraft_id
  AmsatChunks,     \* the bits one call of decode() may bring
  AmsatMaxSends,   \* bound: calls of decode() in a behaviour
  MaxResets        \* bound: reset messages in a behaviour

VARIABLES
  state,        \* d_state
  dataReg,      \* the low 10 bits of d_data_reg
  words,        \* d_8b_words[0 .. d_word_cnt - 1]
  erasures,     \* d_erasures_indexes[0 .. d_erasure_cnt - 1], as a set
  bitstream,    \* d_bitstream
  bitstreamIdx, \* d_bitstream_idx
  pc,           \* "idle" between two calls, "scan" inside decode()
  rx,           \* every bit handed over so far
  calls,        \* Len(rx) after each call so far
  resets,       \* Len(rx) at each reset so far
  out           \* what the block published

machine == <<state, dataReg, words, erasures, bitstream, bitstreamIdx>>
vars == <<machine, pc, rx, calls, resets, out>>

-----------------------------------------------------------------------------
(* Operators *)

WordLen == 10
Inverted == [k \in 1 .. WordLen |-> 1 - Control[k]]
ZeroReg == [k \in 1 .. WordLen |-> 0]

\* d_data_reg once p of the buffered bits are shifted in.
RegAfter(p) == SubSeq(dataReg \o bitstream, p + 1, p + WordLen)

SyncsAt == {p \in 1 .. Len(bitstream) : RegAfter(p) \in {Control, Inverted}}

Distance(s, t) == Cardinality({k \in 1 .. Len(s) : s[k] # t[k]})

\* process_10b: the first entry of either table at the smallest distance.
Lookup ==
  LET table == NegTable \o PosTable
  IN  [word \in [1 .. WordLen -> {0, 1}] |->
         LET k == CHOOSE k \in 1 .. Len(table) :
                    \A j \in 1 .. Len(table) :
                      LET d == Distance(word, table[k])
                          e == Distance(word, table[j])
                      IN  d < e \/ (d = e /\ k <= j)
         IN  [value |-> (k - 1) % Len(NegTable), exact |-> table[k] = word]]

\* pack_10b_word, for the n words from this 0-based index on.
Packed(bits, idx, n) ==
  [k \in 1 .. n |-> SubSeq(bits, idx + WordLen * (k - 1) + 1, idx + WordLen * k)]

Values(packed) == [k \in 1 .. Len(packed) |-> Lookup[packed[k]].value]
Inexact(packed) == {k \in 1 .. Len(packed) : ~ Lookup[packed[k]].exact}

(***************************************************************************)
(* decode_rs_8 takes erasures as positions in the block of 255, whose      *)
(* first 255 - FrameWords octets are padding; the decoder passes positions *)
(* in the frame, which lie in the padding.  So an erasure never helps: it  *)
(* costs one parity octet.  With as many as there are parity octets any    *)
(* block counts as decodable, as it stands; more are written behind the    *)
(* end of lambda[], from where the block may fail or not.                  *)
(***************************************************************************)
NearBlocks(block, erased) ==
  {c \in Codewords :
     2 * Distance(c, block) + Cardinality(erased) <= AmsatParity}

RsResults(block, erased) ==
  CASE Cardinality(erased) < AmsatParity ->
         IF NearBlocks(block, erased) = {} THEN {<<>>} ELSE NearBlocks(block, erased)
    [] Cardinality(erased) = AmsatParity -> {block}
    [] OTHER -> {<<>>, block}

\* The first bit of rx that is still buffered has this 0-based index.
Base == Len(rx) - Len(bitstream)

-----------------------------------------------------------------------------
(* The calls of the block *)

Init ==
  /\ state = "SEARCH_SYNC"
  /\ dataReg = ZeroReg
  /\ words = <<>>
  /\ erasures = {}
  /\ bitstream = <<>>
  /\ bitstreamIdx = 0
  /\ pc = "idle"
  /\ rx = <<>>
  /\ calls = <<>>
  /\ resets = <<>>
  /\ out = <<>>

Decode(bits) ==
  /\ pc = "idle"
  /\ Len(calls) < AmsatMaxSends
  /\ bitstream' = bitstream \o bits
  /\ rx' = rx \o bits
  /\ calls' = Append(calls, Len(rx'))
  /\ pc' = "scan"
  /\ UNCHANGED <<state, dataReg, words, erasures, bitstreamIdx, resets, out>>

\* A message on the "reset" port: the shift register is kept.
Reset ==
  /\ pc = "idle"
  /\ Len(resets) < MaxResets
  /\ state' = "SEARCH_SYNC"
  /\ words' = <<>>
  /\ erasures' = {}
  /\ bitstream' = <<>>
  /\ bitstreamIdx' = 0
  /\ resets' = Append(resets, Len(rx))
  /\ UNCHANGED <<dataReg, pc, rx, calls, out>>

-----------------------------------------------------------------------------
(* The loop of decode() *)

\* With fewer bits than this no state does anything.
TooFewBits ==
  /\ pc = "scan"
  /\ Len(bitstream) < WordLen + 1
  /\ pc' = "idle"
  /\ UNCHANGED <<machine, rx, calls, resets, out>>

Turn(s) == pc = "scan" /\ state = s /\ Len(bitstream) > WordLen

\* Of the bits up to the p-th, those that may begin another control symbol
\* are kept: the last nine, or all but the first if there are few.
BehindControl(p) ==
  LET erased == IF p > WordLen + 1 THEN p - (WordLen - 1) ELSE 1
  IN  /\ dataReg' = RegAfter(p)
      /\ bitstream' = SubSeq(bitstream, erased + 1, Len(bitstream))
      /\ bitstreamIdx' = p - erased

\* A control symbol: the call returns although there may be data behind it.
SyncFound ==
  /\ Turn("SEARCH_SYNC")
  /\ SyncsAt # {}
  /\ BehindControl(Min(SyncsAt))
  /\ state' = "DECODING"
  /\ words' = <<>>
  /\ erasures' = {}
  /\ pc' = "idle"
  /\ UNCHANGED <<rx, calls, resets, out>>

SyncNotFound ==
  /\ Turn("SEARCH_SYNC")
  /\ SyncsAt = {}
  /\ dataReg' = RegAfter(Len(bitstream))
  /\ bitstream' = <<>>
  /\ pc' = "idle"
  /\ UNCHANGED <<state, words, erasures, bitstreamIdx, rx, calls, resets, out>>

\* The words of this call: all there are, or what completes the frame.
WordsNow ==
  Min({(Len(bitstream) - bitstreamIdx) \div WordLen, FrameWords - Len(words)})

NewWords == Packed(bitstream, bitstreamIdx, WordsNow)
AllWords == words \o Values(NewWords)
AllErasures == erasures \cup {Len(words) + k : k \in Inexact(NewWords)}
Complete == Len(words) + WordsNow = FrameWords

\* No frame complete yet; no word at all, possibly.
WordsTaken ==
  /\ Turn("DECODING")
  /\ ~ Complete
  /\ words' = AllWords
  /\ erasures' = AllErasures
  /\ bitstreamIdx' = bitstreamIdx + WordLen * WordsNow
  /\ pc' = "idle"
  /\ UNCHANGED <<state, dataReg, bitstream, rx, calls, resets, out>>

\* What decode_rs_8 may make of the frame, <<>> if it fails.
Blocks == RsResults(AllWords, AllErasures)

IsAccepted(block) == block # <<>> /\ block[1] % 8 \in SpacecraftIds

\* Back to the search; d_bitstream_idx stays at the last word.
Searching ==
  /\ state' = "SEARCH_SYNC"
  /\ dataReg' = ZeroReg
  /\ erasures' = AllErasures
  /\ bitstreamIdx' = bitstreamIdx + WordLen * (WordsNow - 1)
  /\ UNCHANGED <<rx, calls, resets>>

\* Published; the words of this call are erased, and one bit.
FrameAccepted ==
  /\ Turn("DECODING")
  /\ Complete
  /\ \E block \in Blocks :
       /\ IsAccepted(block)
       /\ words' = block
       /\ out' = Append(out, [pdu |-> SubSeq(block, 1, FrameWords - AmsatParity),
                              erasures |-> Cardinality(AllErasures),
                              \* where its first word starts in rx, 0-based
                              at |-> Base + bitstreamIdx - WordLen * Len(words)])
  /\ Searching
  /\ bitstream' = SubSeq(bitstream, WordLen * WordsNow + 2, Len(bitstream))
  /\ pc' = "idle"

\* Faulty variant: the search goes on behind the frame.
FrameRejectedErased ==
  /\ Turn("DECODING")
  /\ Complete
  /\ \E block \in Blocks : ~ IsAccepted(block)
  /\ words' = AllWords
  /\ Searching
  /\ bitstream' = SubSeq(bitstream, bitstreamIdx + WordLen * WordsNow + 1,
                         Len(bitstream))
  /\ UNCHANGED <<pc, out>>

\* Not decodable or no known spacecraft: the loop searches all the buffered
\* bits again, which still begin with the end of the control symbol.
FrameRejected ==
  /\ Turn("DECODING")
  /\ Complete
  /\ \E block \in Blocks :
       /\ ~ IsAccepted(block)
       /\ words' = IF block = <<>> THEN AllWords ELSE block
  /\ Searching
  /\ UNCHANGED <<bitstream, pc, out>>

Scan ==
  \/ TooFewBits
  \/ SyncFound \/ SyncNotFound
  \/ WordsTaken \/ FrameAccepted \/ FrameRejected

Next ==
  \/ pc = "idle" /\ \E bits \in AmsatChunks : Decode(bits)
  \/ Reset
  \/ Scan

-----------------------------------------------------------------------------
(* Properties *)

\* The n bits of rx from this 0-based index on.
BitsAt(idx, n) == SubSeq(rx, idx + 1, idx + n)

\* A control symbol of the line ends before this index.
IsControlAt(idx) ==
  idx >= WordLen /\ BitsAt(idx - WordLen, WordLen) \in {Control, Inverted}

\* Or one whose leading zeros are those that the end of a frame leaves in the
\* shift register.
MayBeControlAt(idx) ==
  \E c \in {Control, Inverted}, zeros \in 0 .. WordLen - 1 :
    /\ idx >= WordLen - zeros
    /\ \A k \in 1 .. zeros : c[k] = 0
    /\ BitsAt(idx - (WordLen - zeros), WordLen - zeros)
         = SubSeq(c, zeros + 1, WordLen)

WordsAt(idx) == Values(Packed(rx, idx, FrameWords))
ErasuresAt(idx) == Inexact(Packed(rx, idx, FrameWords))

\* A reset among these bits: the shift register may hold older ones.
ResetWithin(first, last) == \E r \in 1 .. Len(resets) : resets[r] \in first .. last

\* The buffer holds the end of what was handed over, and the words collected
\* are the ones right behind a control symbol (of which a reset may have cut
\* off the beginning), however often the same bits are searched.
BufferAccounted ==
  /\ bitstream = BitsAt(Base, Len(bitstream))
  /\ state = "DECODING" =>
       LET first == Base + bitstreamIdx - WordLen * Len(words)
       IN  /\ bitstreamIdx <= Len(bitstream)
           /\ MayBeControlAt(first) \/ ResetWithin(first - WordLen + 1, first)
           /\ words = Values(Packed(rx, first, Len(words)))

\* What Reed-Solomon may correct, had the erasures been passed on as meant.
Correctable(block, erased) ==
  {c \in Codewords :
     2 * Cardinality({k \in 1 .. Len(c) : c[k] # block[k]} \ erased)
       + Cardinality(erased) <= AmsatParity}

\* What is published, with fewer erasures than the parity allows, is the block
\* behind a control symbol, corrected.
FrameFaithful ==
  \A n \in 1 .. Len(out) :
    out[n].erasures < AmsatParity =>
      /\ \/ MayBeControlAt(out[n].at)
         \/ ResetWithin(out[n].at - WordLen + 1, out[n].at)
      /\ \E c \in Correctable(WordsAt(out[n].at), ErasuresAt(out[n].at)) :
           out[n].pdu = SubSeq(c, 1, FrameWords - AmsatParity)

FrameBits == WordLen * FrameWords

\* Every bit handed over has been searched.
AllSearched == pc = "idle" /\ state = "SEARCH_SYNC" /\ bitstream = <<>>

\* The end of the previous frame takes a bit of this control symbol, when the
\* last bit of its own came first in a call and the rest in one call.
FirstBitErased(at) ==
  \E n \in 1 .. Len(out) :
    /\ out[n].at = at - WordLen - FrameBits
    /\ \E k \in 1 .. Len(calls) : calls[k] = out[n].at - 1

\* Nothing that decode_rs_8 makes of the words from this index on is accepted.
NoFrameAt(idx) ==
  /\ idx + FrameBits <= Len(rx)
  /\ Cardinality(ErasuresAt(idx)) < AmsatParity
  /\ \A block \in RsResults(WordsAt(idx), ErasuresAt(idx)) : ~ IsAccepted(block)

\* A decodable frame, handed over whole since the last reset, has been
\* published: whatever came before it, wherever calls end, and although a false
\* control symbol in front of it begins a frame that takes in its own, and is
\* given up when all its words are there.
NoFrameMissed ==
  AllSearched =>
    \A at \in WordLen .. Len(rx) - FrameBits :
      ( /\ IsControlAt(at)
        /\ ~ ResetWithin(at - WordLen + 1, Len(rx))
        /\ \A other \in 1 .. at - 1 :
             MayBeControlAt(other) =>
               /\ other <= at - WordLen
               /\ other + FrameBits <= at - WordLen \/ NoFrameAt(other)
        /\ ~ FirstBitErased(at)
        /\ Cardinality(ErasuresAt(at)) < AmsatParity
        /\ \E block \in RsResults(WordsAt(at), ErasuresAt(at)) : IsAccepted(block) )
      => \E n \in 1 .. Len(out) : out[n].at = at
=============================================================================
