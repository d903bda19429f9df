------------------------- MODULE IEEE802154Encoder -------------------------
(***************************************************************************)
(* ieee802_15_4_encoder (lib/ieee802_15_4_encoder.cc): what encode() makes *)
(* of a message, as bits.  The streams for ieee802_15_4_variant_decoder    *)
(* are put together from it, so that their runs are about both ends.       *)
(***************************************************************************)
EXTENDS Integers, Sequences

LOCAL INSTANCE SequencesExt

CONSTANTS
  Crc(_),         \* crc::append: the octets appended to these
  Scramble(_, _)  \* position in the scrambler's sequence, octet

BitsMSB(octet) == [k \in 1 .. 8 |-> (octet \div (2 ^ (8 - k))) % 2]

\* The CRC includes the length octet; the scrambler is reset for each message.
Payload(varLen, pdu) ==
  LET octets == (IF varLen THEN <<Len(pdu)>> ELSE <<>>) \o pdu
      all == octets \o Crc(octets)
  IN  FlattenSeq([k \in 1 .. Len(all) |-> BitsMSB(Scramble(k - 1, all[k]))])

\* Preamble octets, the sync word and the payload.
Encode(preamble, preambleLen, sync, varLen, pdu) ==
  FlattenSeq([k \in 1 .. preambleLen |-> preamble])
    \o sync \o Payload(varLen, pdu)
=============================================================================
