------------------------------- MODULE Golay24 -------------------------------
(***************************************************************************)
(* golay24::encode12 and decode24 (lib/golay24.cc), and a channel that     *)
(* inverts the bits of a code word one after the other.  Twelve bits are   *)
(* the set of the places that hold a one, 0 .. 11 from the least           *)
(* significant on; a code word has a high and a low half.                  *)
(***************************************************************************)
EXTENDS Integers, Sequences, FiniteSets

CONSTANTS
  GolayMessages,  \* messages that are encoded
  MaxErrors       \* bound: bits of a code word that are inverted

VARIABLES
  message,        \* the argument in of encode12
  lsbParity,      \* its argument lsb_parity
  errors          \* places of the code word that are inverted, 0 .. 23

golayVars == <<message, lsbParity, errors>>

Places == 0 .. 11
BitsOf(number) == {p \in Places : (number \div 2^p) % 2 = 1}

\* G_P, in decimal, and its rows.
G_P == <<2285, 475, 949, 1897, 3793, 3491, 2887, 1679, 3357, 2619, 1143, 4094>>
Rows == [k \in 1 .. 12 |-> BitsOf(G_P[k])]
\* Faulty variant of Unit: the first row holds the lowest place.
UnitReversed(k) == {k - 1}

\* Row k of G_I.
Unit(k) == {12 - k}

Xor(a, b) == (a \ b) \cup (b \ a)

\* The parities of a word with the rows, the first one in the highest place.
Times(word) == {12 - k : k \in {r \in 1 .. 12 :
                                  Cardinality(word \cap Rows[r]) % 2 = 1}}

Halves(high, low) == [high |-> high, low |-> low]

Encode12(in, lsb) ==
  IF lsb THEN Halves(in, Times(in)) ELSE Halves(Times(in), in)

Failed == [done |-> FALSE]
Decoded(high, low) == [done |-> TRUE, word |-> Halves(high, low)]

\* The first row, if any, that is at most `most` and at least `least` places
\* from a word.
RowsNear(word, least, most) ==
  {k \in 1 .. 12 : LET w == Cardinality(Xor(word, Rows[k]))
                   IN  least <= w /\ w <= most}
First(ks) == CHOOSE k \in ks : \A l \in ks : k <= l

\* What syndrome s and sP = s * P say of the errors.
Corrected(in, s, sP) ==
  LET near == RowsNear(s, 0, 2)
      nearP == RowsNear(sP, 2, 2)
  IN  CASE Cardinality(s) <= 3 -> Decoded(Xor(in.high, s), in.low)
        [] Cardinality(s) > 3 /\ near # {} ->
             LET k == First(near)
             IN  Decoded(Xor(in.high, Xor(s, Rows[k])), Xor(in.low, Unit(k)))
        [] Cardinality(s) > 3 /\ near = {} /\ Cardinality(sP) \in {2, 3} ->
             Decoded(in.high, Xor(in.low, sP))
        [] Cardinality(s) > 3 /\ near = {} /\ Cardinality(sP) \notin {2, 3}
             /\ nearP # {} ->
             LET k == First(nearP)
             IN  Decoded(Xor(in.high, Unit(k)), Xor(in.low, Xor(sP, Rows[k])))
        [] OTHER -> Failed

Decode24(in) ==
  LET s == Xor(Times(in.low), in.high) IN Corrected(in, s, Times(s))

-----------------------------------------------------------------------------
(* The channel *)

Init ==
  /\ message \in GolayMessages
  /\ lsbParity \in BOOLEAN
  /\ errors = {}

Invert(place) ==
  /\ Cardinality(errors) < MaxErrors
  /\ \A e \in errors : e < place
  /\ errors' = errors \cup {place}
  /\ UNCHANGED <<message, lsbParity>>

Next == \E place \in 0 .. 23 : Invert(place)

Spec == Init /\ [][Next]_golayVars

Sent == Encode12(message, lsbParity)
Received == Halves(Xor(Sent.high, {e - 12 : e \in errors \ Places}),
                   Xor(Sent.low, errors \cap Places))

-----------------------------------------------------------------------------
(* Properties *)

\* Up to three wrong bits are corrected, wherever they are and whichever half
\* holds the message; four are never taken for another word.
GolayCorrects ==
  Decode24(Received) =
    IF Cardinality(errors) <= 3 THEN [done |-> TRUE, word |-> Sent] ELSE Failed
=============================================================================
