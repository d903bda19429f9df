------------------------------ MODULE ShiftReg ------------------------------
(***************************************************************************)
(* satnogs::shift_reg (lib/shift_reg.cc) as a sequence of bits, the oldest *)
(* first, and the octets that the decoders which search for a word with it *)
(* build, most significant bit first.                                      *)
(***************************************************************************)
EXTENDS Bits

LOCAL INSTANCE FiniteSetsExt

Zeros(n) == [k \in 1 .. n |-> 0]

\* The first n bits enter, the oldest leave.
Shifted(reg, bits, n) == SubSeq(reg \o bits, n + 1, n + Len(reg))

\* (a ^ b).count()
Distance(a, b) == Cardinality({k \in 1 .. Len(b) : a[k] # b[k]})

OctetOf(bits) ==
  128 * bits[1] + 64 * bits[2] + 32 * bits[3] + 16 * bits[4]
    + 8 * bits[5] + 4 * bits[6] + 2 * bits[7] + bits[8]

Octets(bits) ==
  [k \in 1 .. Len(bits) \div 8 |-> OctetOf(SubSeq(bits, 8 * k - 7, 8 * k))]

\* The n bits up to this one as a register holds them that was cleared behind
\* bit `from`: zeros stand for the bits before.
Entered(stream, from, to, n) ==
  [k \in 1 .. n |-> IF to - n + k > from THEN stream[to - n + k] ELSE 0]
=============================================================================
