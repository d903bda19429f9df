----------------------------- MODULE MCPduBlocks -----------------------------
(***************************************************************************)
(* Small instances of the blocks in PduBlocks.  The Golay code is the real *)
(* one, and so are polynomial and seed of the CCSDS whitening; sync word,  *)
(* frames and the self-synchronising register are shorter than the real    *)
(* ones.                                                                   *)
(***************************************************************************)
EXTENDS PduBlocks

LOCAL INSTANCE SequencesExt

All == {"lrpt", "ber", "recorder", "golay", "white", "encoder"}
WhiteKind == {"white"}

\* Three of the 26 symbols; no quarter turn of it is within the threshold.
MCAsm == <<3, 1, 0>>
MCVcdu(body) == [version |-> IF body[1] = 0 THEN 0 ELSE 1,
                 keys |-> 0,
                 hdrPtr |-> IF body[2] = 1 THEN 0 ELSE 5]

Chunk(symbols, asmAt) == [symbols |-> symbols, asmAt |-> asmAt]
StartsPacket == <<1, 1, 2, 2, 0, 3, 0, 1>>
GoesOn == <<2, 2, 3, 0, 1, 1, 0, 2>>
OtherVersion == <<0, 1, 2, 0, 2, 1, 2, 3>>

\* A frame off the octet grid, one at once, one with a wrong bit in its sync
\* word, noise, and a frame that breaks off.
MCLrptChunks ==
  {Chunk(<<2>> \o MCAsm \o StartsPacket \o <<1>>, 4),
   Chunk(MCAsm \o GoesOn, 3),
   Chunk(<<3, 0, 0>> \o OtherVersion \o <<2, 0>>, 3),
   Chunk(<<2, 0, 3>>, 0),
   Chunk(<<1>> \o MCAsm \o <<2>>, 4),
   Chunk(<<1, 2, 3, 1>>, 0)}

MCFrameLen(payload) ==
  CASE payload = "empty" -> 0 [] payload = "short" -> 2
    [] payload = "long" -> 4 [] OTHER -> 5

MCGolayMessages == {{0, 1, 4, 7, 11}, {2, 3, 5, 6, 8, 9, 10}}

Ccsds == [selfSync |-> FALSE, octets |-> TRUE, mask |-> {1, 4, 6, 8},
          seed |-> <<1, 1, 1, 1, 1, 1, 1, 1>>]
SelfSync == [selfSync |-> TRUE, octets |-> FALSE, mask |-> {1, 3},
             seed |-> <<0, 0, 0>>]
MCWhiteningConfigs == {Ccsds, SelfSync}
\* Two to four flags are what it takes, see IsReadable.
EncConfig(preamble, postamble, scramble, nrzi) ==
  [preamble |-> preamble, postamble |-> postamble,
   scramble |-> scramble, nrzi |-> nrzi]
MCEncConfigs ==
  {EncConfig(1, 1, FALSE, FALSE), EncConfig(2, 1, FALSE, TRUE),
   EncConfig(1, 4, TRUE, FALSE), EncConfig(2, 4, TRUE, TRUE)}

MCHeader == <<65>>
MCEncCrc(octets) ==
  LET sum == FoldLeft(LAMBDA acc, b : (3 * acc + b) % 65536, 7, octets)
  IN  <<sum % 256, sum \div 256>>
\* Runs of ones across octets, and none.
MCEncPdus == {<<>>, <<255, 255>>, <<0, 126>>}
MCLineNoise == {<<1>>, <<1, 1, 1, 1, 1, 1, 1, 1, 1>>}

SelfSyncOctets == {[SelfSync EXCEPT !.octets = TRUE]}
=============================================================================
