------------------------ MODULE MCIEEE802154Decoder -------------------------
(***************************************************************************)
(* Small streams for IEEE802154Decoder: an alternating preamble word, a    *)
(* sync word, frames of one payload octet with and without a length octet, *)
(* each sent whole, in pieces, damaged, or behind noise that shifts it off *)
(* the octet grid of the scheduler.                                        *)
(***************************************************************************)
EXTENDS IEEE802154Decoder

LOCAL INSTANCE SequencesExt

PreambleWord == <<1, 0, 1, 0, 1, 0, 1, 0>>
\* Its shifts behind a preamble are two bits or more away from it.
SyncWord == <<1, 1, 1, 1, 0, 0, 1, 0>>

Config(varLen, thrsh, dropInvalid) ==
  [preamble |-> PreambleWord, preambleThrsh |-> thrsh,
   sync |-> SyncWord, syncThrsh |-> thrsh,
   varLen |-> varLen, maxLen |-> 1, dropInvalid |-> dropInvalid]

\* With a length octet, without, and without a preamble.
AllConfigs ==
  {Config(TRUE, 1, TRUE), Config(FALSE, 0, FALSE),
   [Config(TRUE, 1, FALSE) EXCEPT !.preamble = <<>>]}

MCCrc(octets) ==
  LET sum == FoldLeft(LAMBDA acc, b : 3 * acc + b, 7, octets)
  IN  <<(37 * sum) % 256, (91 * sum + 22) % 256>>

\* A descrambler whose sequence does not repeat in a frame.
MCDescramble(pos, octet) == (octet + 83 * (pos + 1)) % 256
Scramble(pos, octet) == (octet + 256 * 83 - 83 * (pos + 1)) % 256

Encoder == INSTANCE IEEE802154Encoder WITH Crc <- MCCrc

VarFrame == Encoder!Payload(TRUE, <<200>>)
OnAir(preambleLen, varLen, octets) ==
  Encoder!Encode(PreambleWord, preambleLen, SyncWord, varLen, octets)

Flipped(bits, k) == [bits EXCEPT ![k] = 1 - @]

MCChunks ==
  {PreambleWord,
   OnAir(0, TRUE, <<200>>),
   Flipped(PreambleWord, 3) \o Flipped(SyncWord, 6) \o VarFrame,
   OnAir(2, FALSE, <<77>>),
   Flipped(VarFrame, 20),
   <<1, 0>>}

=============================================================================
