------------------------------- MODULE HDLC --------------------------------
(***************************************************************************)
(* HDLC framing as the transmitting side of gr-satnogs produces it         *)
(* (lib/ax25_encoder.cc) and, from it, the frames that a received bit      *)
(* stream contains.  The decoders are checked against these definitions;   *)
(* they do not use them.  Bits are 0 and 1, least significant bit of a     *)
(* byte first.                                                             *)
(***************************************************************************)
EXTENDS Bits

\* ax25::sync_flag, 0x7e, in transmission order.
Flag == <<0, 1, 1, 1, 1, 1, 1, 0>>

\* The tail of a flag that borrows its first zero from what precedes it.
FlagTail == Tail(Flag)

PlaceValues == <<1, 2, 4, 8, 16, 32, 64, 128>>

ByteBits(b) == [k \in 1 .. 8 |-> (b \div PlaceValues[k]) % 2]

BitsOf(bytes) ==
  [k \in 1 .. 8 * Len(bytes) |->
     ByteBits(bytes[((k - 1) \div 8) + 1])[((k - 1) % 8) + 1]]

ByteOf(bits) ==
  bits[1] + 2 * bits[2] + 4 * bits[3] + 8 * bits[4]
    + 16 * bits[5] + 32 * bits[6] + 64 * bits[7] + 128 * bits[8]

BytesOf(bits) ==
  [k \in 1 .. Len(bits) \div 8 |-> ByteOf(SubSeq(bits, 8 * k - 7, 8 * k))]

\* The encoder inserts a zero after every run of five ones: the line bits
\* `out` so far and the ones at their end.
StuffStep(line, b) ==
  LET ones == IF b = 1 THEN line.ones + 1 ELSE 0
  IN  IF ones = 5
        THEN [out |-> line.out \o <<1, 0>>, ones |-> 0]
        ELSE [out |-> Append(line.out, b), ones |-> ones]

Stuffing(bits) ==
  LET line[k \in 0 .. Len(bits)] ==
        IF k = 0 THEN [out |-> <<>>, ones |-> 0]
                 ELSE StuffStep(line[k - 1], bits[k])
  IN  line[Len(bits)]

Stuff(bits) == Stuffing(bits).out

\* The data bits under a stuffed body: the bit after five ones is dropped.
UnstuffStep(data, b) ==
  IF data.ones = 5
    THEN [out |-> data.out, ones |-> IF b = 1 THEN 6 ELSE 0]
    ELSE [out |-> Append(data.out, b),
          ones |-> IF b = 1 THEN data.ones + 1 ELSE 0]

Unstuffing(bits) ==
  LET data[k \in 0 .. Len(bits)] ==
        IF k = 0 THEN [out |-> <<>>, ones |-> 0]
                 ELSE UnstuffStep(data[k - 1], bits[k])
  IN  data[Len(bits)]

Unstuff(bits) == Unstuffing(bits).out

FlagsIn(bits) ==
  {p \in 1 .. Len(bits) - 7 : SubSeq(bits, p, p + 7) = Flag}

(***************************************************************************)
(* The bodies a stream holds between two neighbouring flags: `open` and    *)
(* `close` are the (1-based) positions of the flags, `raw` the octets      *)
(* between them.  Only bodies that unstuff to whole octets and re-stuff to *)
(* themselves are frames.                                                  *)
(***************************************************************************)
FramesIn(bits) ==
  LET flags == FlagsIn(bits)
      Body(p, q) == SubSeq(bits, p + 8, q - 1)
      IsFrame(p, q) ==
        LET data == Unstuff(Body(p, q))
        IN  Len(data) % 8 = 0 /\ Stuff(data) = Body(p, q)
      Closing(p) ==
        {q \in flags : /\ p + 8 <= q
                       /\ \A r \in flags : ~ (p < r /\ r < q)
                       /\ IsFrame(p, q)}
  IN  UNION {{[open |-> p, close |-> q, raw |-> BytesOf(Unstuff(Body(p, q)))] :
                q \in Closing(p)} : p \in flags}
=============================================================================
