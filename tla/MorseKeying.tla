----------------------------- MODULE MorseKeying -----------------------------
(***************************************************************************)
(* What morse_debug_source sends for a character, and how cw_encoder keys  *)
(* it.                                                                     *)
(***************************************************************************)
EXTENDS Integers, Sequences, TLC

LOCAL INSTANCE SequencesExt

CONSTANT DotWindows  \* d_dot_samples / d_window_size, and d_dot_duration

\* d_chars and d_symbols, 1 for a dash
MorseCode ==
  [A |-> <<0, 1>>, B |-> <<1, 0, 0, 0>>, C |-> <<1, 0, 1, 0>>,
   D |-> <<1, 0, 0>>, E |-> <<0>>, F |-> <<0, 0, 1, 0>>, G |-> <<1, 1, 0>>,
   H |-> <<0, 0, 0, 0>>,
   I |-> <<0, 0>>, J |-> <<0, 1, 1, 1>>, K |-> <<1, 0, 1>>, L |-> <<0, 1, 0, 0>>,
   M |-> <<1, 1>>, N |-> <<1, 0>>, O |-> <<1, 1, 1>>, P |-> <<0, 1, 1, 0>>,
   Q |-> <<1, 1, 0, 1>>, R |-> <<0, 1, 0>>, S |-> <<0, 0, 0>>, T |-> <<1>>,
   U |-> <<0, 0, 1>>, V |-> <<0, 0, 0, 1>>, W |-> <<0, 1, 1>>,
   X |-> <<1, 0, 0, 1>>, Y |-> <<1, 0, 1, 1>>, Z |-> <<1, 1, 0, 0>>] @@
  ("1" :> <<0, 1, 1, 1, 1>> @@ "2" :> <<0, 0, 1, 1, 1>> @@
   "3" :> <<0, 0, 0, 1, 1>> @@ "4" :> <<0, 0, 0, 0, 1>> @@
   "5" :> <<0, 0, 0, 0, 0>> @@ "6" :> <<1, 0, 0, 0, 0>> @@
   "7" :> <<1, 1, 0, 0, 0>> @@ "8" :> <<1, 1, 1, 0, 0>> @@
   "9" :> <<1, 1, 1, 1, 0>> @@ "0" :> <<1, 1, 1, 1, 1>>)

\* The dots and dashes of a character, swapped where an error is injected.
Keys(c, swapped) ==
  [k \in DOMAIN MorseCode[c] |->
     IF (MorseCode[c][k] = 1) # swapped THEN "DASH" ELSE "DOT"]

\* What the source sends for it.
Keyed(keys) ==
  Append(FlattenSeq([k \in DOMAIN keys |-> <<keys[k], "INTRA_SPACE">>]),
         "S_SPACE")

\* How many windows cw_encoder keys for a symbol, and whether with a carrier.
Duration(s) ==
  DotWindows * CASE s \in {"DOT", "INTRA_SPACE"} -> 1
                 [] s \in {"DASH", "S_SPACE"} -> 3
                 [] s = "L_SPACE" -> 7

Level(s) == IF s \in {"DOT", "DASH"} THEN 1 ELSE 0
=============================================================================
