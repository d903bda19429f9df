--------------------------- MODULE MCAX100Decoder ---------------------------
(***************************************************************************)
(* Small streams for AX100Decoder: blocks of one data octet, one of CRC    *)
(* and one of parity, among them one with a wrong CRC.  The stand-in for   *)
(* Reed-Solomon corrects one octet of a block of the code, and rejects     *)
(* the rest; the one for the Golay code corrects one of its two octets.    *)
(***************************************************************************)
EXTENDS AX100Decoder

LOCAL INSTANCE SequencesExt
LOCAL INSTANCE FiniteSetsExt

Air == INSTANCE HDLC

PreambleWord == <<1, 0, 1, 0, 1, 0, 1, 0>>
\* Its shifts behind a preamble are two bits or more away from it.
SyncWord == <<1, 1, 1, 1, 0, 0, 1, 0>>

MCConfig5(preamble, thrsh, rs) ==
  [preamble |-> preamble, preambleThrsh |-> IF preamble = <<>> THEN 0 ELSE thrsh,
   sync |-> SyncWord, syncThrsh |-> thrsh, rs |-> rs, crc |-> TRUE]

MCConfigs5 == {MCConfig5(PreambleWord, 1, TRUE), MCConfig5(<<>>, 0, FALSE)}
MCConfigs6 == {[crc |-> TRUE], [crc |-> FALSE]}
MCCrc(octets) ==
  <<FoldLeft(LAMBDA acc, b : 37 * acc + 3 * b, 7, octets) % 256>>

\* A descrambler whose sequence does not repeat in a frame.
MCDescramble(pos, octet) == (octet + 83 * (pos + 1)) % 256
Scrambled(octets) ==
  [k \in 1 .. Len(octets) |-> (octets[k] + 256 * 83 - 83 * k) % 256]

Good == <<77>> \o MCCrc(<<77>>)
Bad == <<200>> \o <<1>>

Coded(data) == data \o <<(data[1] + 5 * data[2] + 9) % 256>>

MCRsDecode(octets) ==
  LET near == {c \in {Coded(Good), Coded(Bad)} :
                 /\ Len(octets) = Len(c)
                 /\ Cardinality({k \in 1 .. Len(c) : c[k] # octets[k]}) <= 1}
  IN  IF near = {} THEN <<>> ELSE CHOOSE c \in near : TRUE

LengthField(n) == <<n, 3 * n + 165>>

MCGolayDecode(octets) ==
  LET lengths == {n \in 2 .. 3 : \E k \in 1 .. 2 : octets[k] = LengthField(n)[k]}
  IN  IF lengths = {} THEN -1 ELSE CHOOSE n \in lengths : TRUE

BitsMSB(octets) ==
  FlattenSeq([k \in 1 .. Len(octets) |->
                [j \in 1 .. 8 |-> (octets[k] \div (2 ^ (8 - j))) % 2]])

Broken(seq, k) == [seq EXCEPT ![k] = (@ + 1) % 2]

-----------------------------------------------------------------------------
(* Mode 5 *)

OnAir5(octets) == BitsMSB(LengthField(Len(octets)) \o Scrambled(octets))

GoodFrame5 == SyncWord \o OnAir5(Coded(Good))

MCChunks5 ==
  {PreambleWord,
   Broken(PreambleWord, 3) \o Broken(GoodFrame5, 30),
   SyncWord \o OnAir5(Coded(Bad)),
   PreambleWord \o SyncWord \o OnAir5(Good),
   SyncWord \o Broken(Broken(OnAir5(Good), 3), 12),
   <<1, 0>>}

-----------------------------------------------------------------------------
(* Mode 6: header, scrambled block, an FCS that nobody looks at *)

OnAir6(header, data) ==
  Air!Stuff(Air!BitsOf(<<header>> \o Scrambled(Coded(data)) \o <<66>>))

\* A zero is stuffed behind the seventh bit of this octet.
StuffedHeader == 124

ThreeFlags == Air!Flag \o Air!Flag \o Air!Flag

\* The frames are cut inside an octet.  The one with the stuffed header is
\* behind an idle flag.
HeadOf(bits) == SubSeq(bits, 1, 21)
TailOf(bits) == SubSeq(bits, 22, Len(bits))

MCChunks6 ==
  {ThreeFlags,
   HeadOf(OnAir6(130, Good)),
   TailOf(OnAir6(130, Good)) \o Air!Flag,
   OnAir6(130, Bad) \o Air!Flag,
   Broken(Broken(OnAir6(130, Good), 12), 33) \o Air!Flag,
   ThreeFlags \o OnAir6(130, Good) \o Air!Flag
     \o ThreeFlags \o Air!Flag \o OnAir6(StuffedHeader, Good) \o Air!Flag,
   <<1, 0, 1>>}
=============================================================================
