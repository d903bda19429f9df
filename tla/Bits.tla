-------------------------------- MODULE Bits --------------------------------
(***************************************************************************)
(* What every stream and message here is made of: bits, one in each item   *)
(* of a stream (uint8_t), and octets.                                      *)
(***************************************************************************)
EXTENDS Integers, Sequences

Bit  == {0, 1}
Byte == 0 .. 255
=============================================================================
