------------------------------ MODULE Whitening ------------------------------
(***************************************************************************)
(* Two objects of class whitening (lib/whitening.cc), a scrambler and a    *)
(* descrambler, at the ends of a link that loses and inverts bits; either  *)
(* is reset at any time.  Buffers of octets or of one bit per octet go     *)
(* through the register bit by bit: a buffer is some steps here.           *)
(***************************************************************************)
EXTENDS Integers, Sequences, FiniteSets

CONSTANTS
  WhiteningConfigs,  \* [selfSync, octets, mask, seed]: d_self_sync, whether
                     \* descramble() is called or the function for one bit per
                     \* octet, the places of the register under the mask, and
                     \* the register at first, least significant bit first
  MaxUnderWay,       \* bound: bits under way
  MaxCount           \* bound: bits through one of the objects

\* The register is not empty and holds bits, and the mask names some of them.
Arguments ==
  /\ MaxCount \in Nat
  /\ \A c \in WhiteningConfigs :
       /\ c.selfSync \in BOOLEAN /\ c.octets \in BOOLEAN
       /\ c.seed \in Seq({0, 1}) /\ c.seed # <<>>
       /\ c.mask \subseteq 1 .. Len(c.seed)

VARIABLES
  config,     \* the constructor arguments of both
  scrReg,     \* d_lfsr of the scrambler
  desReg,     \* d_lfsr of the descrambler
  scrCount,   \* bits through the scrambler since its last reset
  desCount,   \* bits through the descrambler since its last reset
  inReg,      \* the bits given to the scrambler whose outcome is in scrReg,
              \* in their places; 2: none
  underWay,   \* bits on the link: as sent, the bit they stand for, scrCount
  whole,      \* bits received one after the other as they were sent since the
              \* last loss, inversion or reset of the descrambler
  last        \* the last bit out of the descrambler, and the one it stands for

whiteningVars == <<config, scrReg, desReg, scrCount, desCount, inReg, underWay,
                   whole, last>>

Stages == Len(config.seed)

-----------------------------------------------------------------------------
(* gr::digital::lfsr, a library *)

Parity(reg) == Cardinality({p \in config.mask : reg[p] = 1}) % 2
Plus(a, b) == (a + b) % 2
MinOf(a, b) == IF a < b THEN a ELSE b
Shift(reg, bit) == Append(Tail(reg), bit)

NextBit(reg) == [out |-> Head(reg), reg |-> Shift(reg, Parity(reg))]
NextBitScramble(reg, bit) ==
  [out |-> Head(reg), reg |-> Shift(reg, Plus(Parity(reg), bit))]
NextBitDescramble(reg, bit) ==
  [out |-> Plus(Parity(reg), bit), reg |-> Shift(reg, bit)]

Additive(reg, bit) ==
  LET next == NextBit(reg) IN [next EXCEPT !.out = Plus(@, bit)]

-----------------------------------------------------------------------------
(* The class *)

\* scramble, scramble_one_bit_per_byte
Scramble(reg, bit) ==
  IF config.selfSync THEN NextBitScramble(reg, bit) ELSE Additive(reg, bit)

\* Faulty variant of Descramble: one bit per octet goes through as octets do.
DescrambleAsOctets(reg, bit) == Scramble(reg, bit)

\* descramble is scramble.
Descramble(reg, bit) ==
  IF config.octets THEN Scramble(reg, bit)
  ELSE IF config.selfSync THEN NextBitDescramble(reg, bit)
  ELSE Additive(reg, bit)

Init ==
  /\ config \in WhiteningConfigs
  /\ scrReg = config.seed
  /\ desReg = config.seed
  /\ scrCount = 0
  /\ desCount = 0
  /\ inReg = [p \in 1 .. Stages |-> 2]
  /\ underWay = <<>>
  /\ whole = 0
  /\ last = [out |-> 0, for |-> 0, sent |-> 0]

\* The scrambler that synchronises itself lets a bit out when it has gone
\* through the register.
Send(bit) ==
  LET next == Scramble(scrReg, bit)
  IN  /\ Len(underWay) < MaxUnderWay
      /\ scrCount < MaxCount
      /\ scrReg' = next.reg
      /\ scrCount' = scrCount + 1
      /\ inReg' = Shift(inReg, bit)
      /\ underWay' = Append(underWay,
           [bit |-> next.out, count |-> scrCount,
            for |-> IF config.selfSync THEN Head(inReg) ELSE bit])
      /\ UNCHANGED <<config, desReg, desCount, whole, last>>

Receive(flip) ==
  LET sent == Head(underWay)
      next == Descramble(desReg, Plus(sent.bit, flip))
  IN  /\ underWay # <<>>
      /\ desCount < MaxCount
      /\ underWay' = Tail(underWay)
      /\ desReg' = next.reg
      /\ desCount' = desCount + 1
      /\ whole' = IF flip = 1 THEN 0 ELSE MinOf(whole, Stages) + 1
      /\ last' = [out |-> next.out, for |-> sent.for,
                  sent |-> sent.count - desCount]
      /\ UNCHANGED <<config, scrReg, scrCount, inReg>>

Lose ==
  /\ underWay # <<>>
  /\ underWay' = Tail(underWay)
  /\ whole' = 0
  /\ UNCHANGED <<config, scrReg, desReg, scrCount, desCount, inReg, last>>

\* reset() of the scrambler: what is in its register is never sent.
ResetScrambler ==
  /\ scrCount > 0
  /\ scrReg' = config.seed
  /\ scrCount' = 0
  /\ inReg' = [p \in 1 .. Stages |-> 2]
  /\ UNCHANGED <<config, desReg, desCount, underWay, whole, last>>

ResetDescrambler ==
  /\ desCount > 0
  /\ desReg' = config.seed
  /\ desCount' = 0
  /\ whole' = 0
  /\ UNCHANGED <<config, scrReg, scrCount, inReg, underWay, last>>

Next ==
  \/ \E bit \in {0, 1} : Send(bit) \/ Receive(bit)
  \/ Lose
  \/ ResetScrambler \/ ResetDescrambler

Spec == Init /\ [][Next]_whiteningVars

-----------------------------------------------------------------------------
(* Properties *)

\* With self synchronisation the descrambler is right again after as many bits
\* as there are stages, whatever was lost or reset at either end; without it,
\* as long as both have had as many bits since they were reset.
DescramblerRecovers ==
  last.for # 2 /\ whole > (IF config.selfSync THEN Stages ELSE 0) =>
    \/ last.out = last.for
    \/ ~ config.selfSync /\ last.sent # 0
=============================================================================
