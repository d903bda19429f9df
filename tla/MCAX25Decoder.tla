-------------------------- MODULE MCAX25Decoder ---------------------------
(***************************************************************************)
(* Small streams for AX25Decoder.  Two frames of one octet and its FCS:    *)
(* FrameA has a stuffed bit behind its first octet and one in its FCS,     *)
(* FrameB has one in its first octet: the eighth line bit, which           *)
(* enter_decoding_state handles apart.  The chunks cut the stream inside   *)
(* an octet, and inside a flag, and mix in the noise that makes flags,     *)
(* aborts and octets appear where none is.                                 *)
(***************************************************************************)
EXTENDS AX25Decoder, FiniteSets

LOCAL INSTANCE SequencesExt

\* A stand-in for crc16_ax25 over the frames of this model.
MCFcs(bytes) ==
  LET sum == FoldLeft(LAMBDA acc, b : acc + b, 0, bytes)
  IN  <<(37 * sum + Len(bytes)) % 256, (91 * sum + 22) % 256>>

Framed(bytes) == Stuff(BitsOf(bytes \o MCFcs(bytes)))

FrameA == Framed(<<248>>)
FrameB == Framed(<<124>>)
FrameE == Framed(<<39>>)        \* ends in four ones
LongFrame == Framed(<<2, 4>>)   \* as many octets as MaxFrameLen

Cut == 13
BHead == SubSeq(FrameB, 1, Cut)
BTail == SubSeq(FrameB, Cut + 1, Len(FrameB))

Ones(n) == [k \in 1 .. n |-> 1]

\* The levels, relative to the last one, that carry these bits.
LevelsOf(bits) ==
  [k \in 1 .. Len(bits) |-> Cardinality({j \in 1 .. k : bits[j] = 0}) % 2]

LevelsOfAll(set) == {LevelsOf(bits) : bits \in set}

\* A clean link and everything that may disturb it.
NoisyChunks ==
  LevelsOfAll({Flag, FrameA \o Flag, BHead, BTail \o Flag,
     SubSeq(FrameA, 2, Len(FrameA)) \o Flag, <<1, 0, 1>>, Ones(8), FlagTail,
     Flag \o FrameB \o Flag \o FrameA \o Flag, FrameE \o <<1>> \o Flag})

Corrupted(bits, k) == [bits EXCEPT ![k] = 1 - @]

\* Frames with one and with two bits in error, one beyond the frame limit,
\* and one octet too few; two good ones that arrive in one call.
DamagedChunks ==
  LevelsOfAll({Flag, FrameB \o Flag \o FrameA \o Flag,
     Corrupted(FrameA, 12) \o Flag,
     Corrupted(Corrupted(FrameA, 12), 21) \o Flag,
     LongFrame \o LongFrame, SubSeq(FrameA, 1, 17) \o Flag, <<0, 1>>})

\* Two frames handed over at once, then anything.
BurstChunks ==
  LevelsOfAll({Flag, Flag \o FrameB \o Flag \o FrameA \o Flag})

=============================================================================
