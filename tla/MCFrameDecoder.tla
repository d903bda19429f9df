--------------------------- MODULE MCFrameDecoder ---------------------------
(***************************************************************************)
(* Small streams for FrameDecoder.  Argos: frames of one octet and its     *)
(* FCS.  Amsat: blocks of two data and two parity octets, out of the first *)
(* entries of the real 8b10b tables, with the real control symbol.  Morse: *)
(* short sentences, with four windows to a dot.                            *)
(***************************************************************************)
EXTENDS FrameDecoder

LOCAL INSTANCE SequencesExt

Air == INSTANCE HDLC
Tree == INSTANCE MorseTree
Keyer == INSTANCE MorseKeying

All == {"argos", "amsat", "cw"}
ArgosOnly == {"argos"}

Broken(seq, k) == [seq EXCEPT ![k] = 1 - @]
HeadOf(bits, n) == SubSeq(bits, 1, n)
TailOf(bits, n) == SubSeq(bits, n + 1, Len(bits))

-----------------------------------------------------------------------------
(* Argos *)

MCConfigs == {[crc |-> TRUE], [crc |-> FALSE]}
CheckedConfig == {[crc |-> TRUE]}

BitsMSB(octets) ==
  FlattenSeq([k \in 1 .. Len(octets) |-> Reverse(Air!ByteBits(octets[k]))])

MCFcs(octets) ==
  LET sum == FoldLeft(LAMBDA acc, b : acc + b, 0, octets)
  IN  <<(37 * sum + 1) % 128, (11 * sum + 22) % 128>>

Framed(octets) == Air!Stuff(BitsMSB(octets \o MCFcs(octets)))

\* A zero is stuffed behind the seventh bit.
FrameA == Framed(<<62>>)
FrameB == Framed(<<65>>)
Abort == [k \in 1 .. 8 |-> 1]
ThreeFlags == Air!Flag \o Air!Flag \o Air!Flag

MCArgosChunks ==
  {ThreeFlags,
   HeadOf(FrameA, 13),
   TailOf(FrameA, 13) \o Air!Flag,
   Broken(FrameB, 12) \o Air!Flag,
   FrameB \o FrameB \o Air!Flag,
   ThreeFlags \o Air!Flag \o FrameA \o ThreeFlags \o FrameB \o Air!Flag,
   Abort \o <<1, 0, 1>>}

FlagChunks == {ThreeFlags, Air!Flag \o Air!Flag, FrameB \o Air!Flag}

-----------------------------------------------------------------------------
(* Amsat *)

MCControl == <<0, 0, 1, 1, 1, 1, 1, 0, 1, 0>>
Opposite(bits) == [k \in 1 .. Len(bits) |-> 1 - bits[k]]

\* RD-1 and RD+1 of the octets 0 to 7.
MCNegTable ==
  <<<<1,0,0,1,1,1,0,1,0,0>>, <<0,1,1,1,0,1,0,1,0,0>>, <<1,0,1,1,0,1,0,1,0,0>>,
    <<1,1,0,0,0,1,1,0,1,1>>, <<1,1,0,1,0,1,0,1,0,0>>, <<1,0,1,0,0,1,1,0,1,1>>,
    <<0,1,1,0,0,1,1,0,1,1>>, <<1,1,1,0,0,0,1,0,1,1>>>>
MCPosTable ==
  <<<<0,1,1,0,0,0,1,0,1,1>>, <<1,0,0,0,1,0,1,0,1,1>>, <<0,1,0,0,1,0,1,0,1,1>>,
    <<1,1,0,0,0,1,0,1,0,0>>, <<0,0,1,0,1,0,1,0,1,1>>, <<1,0,1,0,0,1,0,1,0,0>>,
    <<0,1,1,0,0,1,0,1,0,0>>, <<0,0,0,1,1,1,0,1,0,0>>>>

\* Octets of no spacecraft in the third block; two blocks differ in three
\* octets at least.
MCCodewords == {<<1, 6, 5, 2>>, <<2, 3, 6, 5>>, <<0, 4, 3, 1>>}
MCSpacecraftIds == 1 .. 5

Coded(table, octets) ==
  FlattenSeq([k \in 1 .. Len(octets) |-> table[octets[k] + 1]])

BlockA == Coded(MCNegTable, <<1, 6, 5, 2>>)
BlockB == Coded(MCPosTable, <<2, 3, 6, 5>>)
NoCraft == Coded(MCNegTable, <<0, 4, 3, 1>>)

MCAmsatChunks ==
  {MCControl \o HeadOf(BlockA, 17),
   TailOf(BlockA, 17) \o Opposite(MCControl) \o BlockB,
   HeadOf(MCControl, 9),
   TailOf(MCControl, 9) \o BlockB,
   Broken(Broken(BlockA, 4), 25) \o MCControl,
   Coded(MCPosTable, <<2, 3, 7, 5>>),
   MCControl \o NoCraft,
   <<1, 0, 1>>}

-----------------------------------------------------------------------------
(* Morse *)

\* The decoder's tree reads every character of the source.
ASSUME TreeReadsSource ==
  \A c \in DOMAIN Keyer!MorseCode : Tree!CharOf(Keyer!Keys(c, FALSE)) = <<c>>

\* The last one has a word too long for the decoder.
MCSentences == {<<"A", " ", "T">>, <<"T">>, <<"E", "E", "E", "E">>}

WindowsOf(syms) ==
  FlattenSeq([k \in 1 .. Len(syms) |->
    [j \in 1 .. Keyer!Duration(syms[k]) |-> Keyer!Level(syms[k])]])

\* Behind the same silence as the link has in front of it, "A T".
SameTime ==
  LET Word(c) == Keyer!Keyed(Keyer!Keys(c, FALSE))
  IN  [k \in 1 .. LeadIn |-> 0]
        \o WindowsOf(Word("A") \o <<"L_SPACE">> \o Word("T"))

\* The second channel ends its message in the same window as the link does
\* when that sends "A T", or has a carrier while the noise is estimated.
MCRecordings ==
  {[windows |-> SameTime, messages |-> <<<<"A", " ", "T", " ">>>>],
   [windows |-> <<1, 1, 1>> \o SameTime, messages |-> <<>>]}

MCWorkSizes == {8, 24}
MCDecodeSizes == {8, 16}
=============================================================================
