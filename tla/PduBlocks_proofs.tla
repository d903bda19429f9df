---------------------------- MODULE PduBlocks_proofs ----------------------------
(***************************************************************************)
(* Proofs about the blocks of PduBlocks, for all constants: the bit error  *)
(* meter accounts for every frame, the recorder writes no file over, the   *)
(* descrambler recovers, and every message of the AX.25 encoder arrives.   *)
(***************************************************************************)
EXTENDS PduBlocks, DecoderLemmas, FiniteSetTheorems, TLAPS

-----------------------------------------------------------------------------
(***************************************************************************)
(* The bit error meter.  The link holds consecutive numbers up to the last *)
(* one sent; so without frames of another run the numbers between the last *)
(* one received and the first one under way were all lost, and the last    *)
(* one received was not.                                                   *)
(***************************************************************************)

BerTypeOK ==
  /\ cnt \in Nat
  /\ invalCnt \in Nat
  /\ lastAck \in Nat
  /\ dropped \in Nat
  /\ received \in Nat
  /\ finished \in BOOLEAN
  /\ link \in Seq(Ber!LinkFrames)
  /\ lost \in SUBSET Nat
  /\ aliens \in Nat

\* The first number that is still under way.
Front == cnt - Len(link)

LinkConsecutive ==
  /\ Len(link) <= cnt
  /\ \A i \in 1 .. Len(link) : link[i].cnt = Front + i - 1

\* Nothing is counted while only frames below d_skip have come.
CountedBehindSkip == received + dropped > 0 => lastAck > Skip

\* Without frames of another run.
LostInOrder ==
  aliens = 0 =>
    /\ lastAck <= Front
    /\ \A k \in lost : k < Front
    /\ \A k \in Nat : lastAck <= k /\ k < Front => k \in lost
    /\ lastAck > 0 => lastAck - 1 \notin lost

\* The numbers that count as dropped, and those that count as received.
DroppedNumbers == {k \in lost : k < lastAck /\ k .. (Skip - 1) \subseteq lost}
ReceivedNumbers == Skip .. (lastAck - 1) \ lost

\* Ber!DroppedWereLost and Ber!ReceivedCame.
CountedAsFound ==
  aliens = 0 => /\ dropped = Cardinality(DroppedNumbers)
                /\ received = Cardinality(ReceivedNumbers)

BerInv ==
  /\ BerTypeOK
  /\ LinkConsecutive
  /\ CountedBehindSkip
  /\ LostInOrder
  /\ Ber!NumbersBalance
  /\ CountedAsFound

\* What the constructor of the bit error meter is given.
LEMMA BerArguments == Ber!Arguments
BY ArgumentsAssumption DEF ArgumentsAssumption

\* An interval of numbers has as many of them as there are from end to end.
LEMMA IntervalSize ==
  ASSUME NEW a \in Nat, NEW b \in Nat, a <= b
  PROVE  /\ IsFiniteSet({k \in Nat : a <= k /\ k < b})
         /\ Cardinality({k \in Nat : a <= k /\ k < b}) = b - a
<1>1. {k \in Nat : a <= k /\ k < b} = a .. (b - 1)
  OBVIOUS
<1>2. IsFiniteSet(a .. (b - 1))
  BY FS_Interval
<1>3. Cardinality(a .. (b - 1)) = IF a > b - 1 THEN 0 ELSE (b - 1) - a + 1
  <2>1. b - 1 \in Int
    OBVIOUS
  <2>2. QED
    BY <2>1, FS_Interval
<1>4. (IF a > b - 1 THEN 0 ELSE (b - 1) - a + 1) = b - a
  OBVIOUS
<1>5. QED
  BY <1>1, <1>2, <1>3, <1>4

\* Numbers below a bound are finitely many.
LEMMA BoundedFinite ==
  ASSUME NEW S \in SUBSET Nat, NEW b \in Nat, \A k \in S : k < b
  PROVE  IsFiniteSet(S)
<1>1. \A k \in S : k <= b
  OBVIOUS
<1>2. QED
  BY <1>1, FS_BoundedSetOfNaturals

\* The counters start with nothing sent, lost or received.
LEMMA BerInitInv == Ber!Init => BerInv
<1>1. ASSUME Ber!Init PROVE BerInv
  <2>1. BerTypeOK
    <3>1. <<>> \in Seq(Ber!LinkFrames) /\ {} \in SUBSET Nat /\ 0 \in Nat
      OBVIOUS
    <3>2. QED
      BY <1>1, <3>1 DEF Ber!Init, BerTypeOK
  <2>2. LinkConsecutive /\ CountedBehindSkip
    BY <1>1 DEF Ber!Init, LinkConsecutive, CountedBehindSkip, Front
  <2>3. LostInOrder
    BY <1>1 DEF Ber!Init, LostInOrder, Front
  <2>4. Ber!NumbersBalance
    BY <1>1, BerArguments DEF Ber!Init, Ber!NumbersBalance, Ber!Arguments
  <2>5. DroppedNumbers = {} /\ ReceivedNumbers = {}
    BY <1>1, BerArguments
    DEF Ber!Init, DroppedNumbers, ReceivedNumbers, Ber!Arguments
  <2>6. CountedAsFound
    BY <1>1, <2>5, FS_EmptySet DEF Ber!Init, CountedAsFound
  <2>7. QED
    BY <2>1, <2>2, <2>3, <2>4, <2>6 DEF BerInv
<1>2. QED
  BY <1>1

\* What the head of the link and the link without it are.
LEMMA LinkHead ==
  ASSUME BerTypeOK, LinkConsecutive, link # <<>>
  PROVE  /\ Head(link) \in Ber!LinkFrames
         /\ Head(link).cnt = Front
         /\ Tail(link) \in Seq(Ber!LinkFrames)
         /\ Len(Tail(link)) = Len(link) - 1
         /\ \A i \in 1 .. Len(Tail(link)) : Tail(link)[i] = link[i + 1]
         /\ Len(link) \in Nat \ {0}
         /\ Front \in Nat /\ Front < cnt
<1>1. link \in Seq(Ber!LinkFrames) /\ cnt \in Nat
  BY DEF BerTypeOK
<1>2. /\ Head(link) \in Ber!LinkFrames /\ Tail(link) \in Seq(Ber!LinkFrames)
      /\ Len(Tail(link)) = Len(link) - 1
      /\ \A i \in 1 .. Len(Tail(link)) : Tail(link)[i] = link[i + 1]
  BY <1>1, HeadTailProperties
<1>3. Len(link) \in Nat \ {0} /\ Head(link) = link[1]
  BY <1>1
<1>4. Len(link) <= cnt /\ link[1].cnt = Front + 1 - 1
  BY <1>3 DEF LinkConsecutive
<1>5. Front \in Nat /\ Front < cnt
  BY <1>1, <1>3, <1>4 DEF Front
<1>6. QED
  BY <1>2, <1>3, <1>4, <1>5

\* The rest of the link stays consecutive when its head is gone.
LEMMA LinkTail ==
  ASSUME BerTypeOK, LinkConsecutive, link # <<>>, link' = Tail(link),
         cnt' = cnt
  PROVE  LinkConsecutive' /\ Front' = Front + 1
<1>1. Front' = Front + 1
  BY LinkHead DEF Front, BerTypeOK
<1>2. \A i \in 1 .. Len(link)' : link'[i].cnt = Front' + i - 1
  <2>1. TAKE i \in 1 .. Len(link)'
  <2>2. link'[i] = link[i + 1] /\ i + 1 \in 1 .. Len(link)
    BY LinkHead
  <2>3. link[i + 1].cnt = Front + (i + 1) - 1
    BY <2>2 DEF LinkConsecutive
  <2>4. QED
    BY <1>1, <2>2, <2>3, LinkHead
<1>3. Len(link)' <= cnt'
  BY LinkHead DEF BerTypeOK, LinkConsecutive
<1>4. QED
  BY <1>1, <1>2, <1>3 DEF LinkConsecutive

\* Whatever is received, the numbers balance and nothing below d_skip counts.
LEMMA ReceivedBalance ==
  ASSUME BerInv, NEW frame \in Ber!LinkFrames,
         Ber!ReceivedPdu(frame), cnt' = cnt
  PROVE  /\ Ber!NumbersBalance' /\ CountedBehindSkip'
         /\ lastAck' \in Nat /\ dropped' \in Nat /\ received' \in Nat
         /\ invalCnt' \in Nat
<1> USE BerArguments
    DEF BerInv, BerTypeOK, Ber!NumbersBalance, CountedBehindSkip, Ber!LinkFrames,
        Ber!Arguments
<1>1. CASE Ber!IsInvalid(frame)
  BY <1>1 DEF Ber!ReceivedPdu
<1>2. CASE ~ Ber!IsInvalid(frame) /\ frame.cnt < Skip
  <2>1. received + dropped = 0
    BY <1>2 DEF Ber!IsInvalid
  <2>2. QED
    BY <1>2, <2>1 DEF Ber!ReceivedPdu, Ber!IsInvalid
<1>3. CASE ~ Ber!IsInvalid(frame) /\ frame.cnt >= Skip
  <2>1. frame.cnt \in Nat /\ lastAck <= frame.cnt /\ frame.cnt <= cnt
    BY <1>3 DEF Ber!IsInvalid
  <2>2. /\ dropped' = dropped + (frame.cnt - lastAck)
        /\ lastAck' = frame.cnt + 1 /\ received' = received + 1
        /\ invalCnt' = invalCnt
    BY <1>3, <2>1 DEF Ber!ReceivedPdu
  <2>3. /\ lastAck \in Nat /\ dropped \in Nat /\ received \in Nat
        /\ Skip \in Nat /\ cnt \in Nat /\ invalCnt \in Nat
        /\ received + dropped <= lastAck /\ lastAck <= received + dropped + Skip
    OBVIOUS
  <2>4. frame.cnt - lastAck \in Nat
    BY <2>1, <2>3
  <2>5. Ber!NumbersBalance'
    <3>1. \A s, r, d, a, f, n \in Nat :
            r + d <= a /\ a <= r + d + s /\ f <= n
              => /\ (r + 1) + (d + (f - a)) <= f + 1
                 /\ f + 1 <= (r + 1) + (d + (f - a)) + s
                 /\ f + 1 <= n + 1
      OBVIOUS
    <3>. QED
      BY <2>1, <2>2, <2>3, <3>1
  <2>6. CountedBehindSkip'
    BY <1>3, <2>1, <2>2
  <2>7. lastAck' \in Nat /\ received' \in Nat
    BY <2>1, <2>2, <2>3
  <2>8. dropped' \in Nat /\ invalCnt' \in Nat
    BY <2>2, <2>3, <2>4
  <2>9. QED
    BY <2>5, <2>6, <2>7, <2>8
<1>4. QED
  BY <1>1, <1>2, <1>3

\* A number lost at the front of the link changes nothing of what counts: the
\* last one received is between it and the numbers in front of d_skip.
LEMMA StillCounted ==
  ASSUME BerTypeOK, LostInOrder, aliens = 0, Front \in Nat,
         lost' = lost \cup {Front}, lastAck' = lastAck
  PROVE  DroppedNumbers' = DroppedNumbers /\ ReceivedNumbers' = ReceivedNumbers
<1>1. /\ lastAck \in Nat /\ lost \in SUBSET Nat /\ Skip \in Nat
      /\ lastAck <= Front /\ (lastAck > 0 => lastAck - 1 \notin lost)
  BY BerArguments DEF BerTypeOK, LostInOrder, Ber!Arguments
<1>2. ReceivedNumbers' = ReceivedNumbers
  BY <1>1 DEF ReceivedNumbers
<1>3. ASSUME NEW k \in lost, k < lastAck, k .. (Skip - 1) \subseteq lost'
      PROVE  k .. (Skip - 1) \subseteq lost
  <2>1. k \in Nat /\ lastAck - 1 \in Nat /\ lastAck - 1 \notin lost'
    BY <1>1, <1>3
  <2>2. ~ (lastAck - 1 \in k .. (Skip - 1))
    BY <1>3, <2>1
  <2>3. Skip <= lastAck - 1
    BY <1>1, <1>3, <2>1, <2>2
  <2>4. \A j \in k .. (Skip - 1) : j # Front
    BY <1>1, <2>1, <2>3
  <2>. QED
    BY <1>3, <2>4
<1>4. DroppedNumbers' = {k \in lost' : k < lastAck /\ k .. (Skip - 1) \subseteq lost'}
  BY DEF DroppedNumbers
<1>5. ASSUME NEW k \in DroppedNumbers'
      PROVE  k \in DroppedNumbers
  <2>1. k \in lost' /\ k < lastAck /\ k .. (Skip - 1) \subseteq lost'
    BY <1>4, <1>5
  <2>2. k \in lost
    BY <1>1, <2>1
  <2>3. k .. (Skip - 1) \subseteq lost
    BY <1>3, <2>1, <2>2
  <2>. QED
    BY <2>1, <2>2, <2>3 DEF DroppedNumbers
<1>6. ASSUME NEW k \in DroppedNumbers
      PROVE  k \in DroppedNumbers'
  <2>1. k \in lost /\ k < lastAck /\ k .. (Skip - 1) \subseteq lost
    BY DEF DroppedNumbers
  <2>2. k \in lost' /\ k .. (Skip - 1) \subseteq lost'
    BY <2>1
  <2>. QED
    BY <1>4, <2>1, <2>2
<1>. QED
  BY <1>2, <1>5, <1>6

\* What counts is finitely many.
LEMMA CountedFinite ==
  ASSUME BerTypeOK
  PROVE  /\ IsFiniteSet(DroppedNumbers) /\ DroppedNumbers \in SUBSET Nat
         /\ IsFiniteSet(ReceivedNumbers) /\ ReceivedNumbers \in SUBSET Nat
<1>1. /\ lastAck \in Nat /\ lost \in SUBSET Nat /\ Skip \in Nat
  BY BerArguments DEF BerTypeOK, Ber!Arguments
<1>2. /\ DroppedNumbers \in SUBSET Nat /\ \A k \in DroppedNumbers : k < lastAck
  BY <1>1 DEF DroppedNumbers
<1>3. /\ ReceivedNumbers \in SUBSET Nat /\ \A k \in ReceivedNumbers : k < lastAck
  BY <1>1 DEF ReceivedNumbers
<1>4. IsFiniteSet(DroppedNumbers)
  BY <1>1, <1>2, BoundedFinite
<1>5. IsFiniteSet(ReceivedNumbers)
  BY <1>1, <1>3, BoundedFinite
<1>. QED
  BY <1>2, <1>3, <1>4, <1>5

\* The front of the link comes whole, from d_skip on: the numbers between it
\* and the last one received join those that count as dropped.
LEMMA CountedGap ==
  ASSUME BerInv, aliens = 0, lost' = lost, Front \in Nat, Front >= Skip,
         lastAck' = Front + 1
  PROVE  /\ Cardinality(DroppedNumbers')
              = Cardinality(DroppedNumbers) + (Front - lastAck)
         /\ Cardinality(ReceivedNumbers') = Cardinality(ReceivedNumbers) + 1
<1> DEFINE Gap == {k \in Nat : lastAck <= k /\ k < Front}
<1>1. /\ lastAck \in Nat /\ lost \in SUBSET Nat /\ Skip \in Nat
      /\ lastAck <= Front /\ \A k \in lost : k < Front
      /\ \A k \in Nat : lastAck <= k /\ k < Front => k \in lost
  BY BerArguments DEF BerInv, BerTypeOK, LostInOrder, Ber!Arguments
<1>2. PICK Old : Old = DroppedNumbers
  OBVIOUS
<1>3. IsFiniteSet(Old) /\ Old \in SUBSET Nat /\ IsFiniteSet(ReceivedNumbers)
  BY <1>2, CountedFinite DEF BerInv
<1>4. PICK New : New = DroppedNumbers'
  OBVIOUS
<1>5. New = {k \in lost : k < Front + 1 /\ k .. (Skip - 1) \subseteq lost}
  BY <1>4 DEF DroppedNumbers
<1>6. New = Old \cup Gap
  <2>1. ASSUME NEW k \in New
        PROVE  k \in Old \cup Gap
    BY <1>1, <1>2, <1>5 DEF DroppedNumbers
  <2>2. ASSUME NEW k \in Old
        PROVE  k \in New
    BY <1>1, <1>2, <1>5 DEF DroppedNumbers
  <2>3. ASSUME NEW k \in Gap
        PROVE  k \in New
    <3>1. k \in lost /\ k < Front + 1
      BY <1>1
    <3>2. \A j \in k .. (Skip - 1) : j \in Nat /\ lastAck <= j /\ j < Front
      BY <1>1
    <3>3. k .. (Skip - 1) \subseteq lost
      BY <1>1, <3>2
    <3>. QED
      BY <1>5, <3>1, <3>3
  <2>. QED
    BY <2>1, <2>2, <2>3
<1>7. IsFiniteSet(Gap) /\ Cardinality(Gap) = Front - lastAck
  BY <1>1, IntervalSize
<1>8. Old \cap Gap = {}
  BY <1>1, <1>2 DEF DroppedNumbers
<1>9. Cardinality(New) = Cardinality(Old) + (Front - lastAck)
  <2>1. Cardinality(Old \cup Gap)
          = Cardinality(Old) + Cardinality(Gap) - Cardinality(Old \cap Gap)
    BY <1>3, <1>7, FS_Union
  <2>2. Cardinality(Old \cap Gap) = 0
    BY <1>8, FS_EmptySet
  <2>3. Cardinality(Old) \in Nat /\ Cardinality(Gap) \in Nat
    BY <1>3, <1>7, FS_CardinalityType
  <2>4. PICK g : g = Cardinality(Gap)
    OBVIOUS
  <2>5. Cardinality(New) = Cardinality(Old) + g - 0 /\ g = Front - lastAck /\ g \in Nat
    BY <1>6, <1>7, <2>1, <2>2, <2>3, <2>4
  <2> HIDE DEF Gap
  <2>. QED
    BY <2>3, <2>5
<1>10. ReceivedNumbers' = ReceivedNumbers \cup {Front} /\ Front \notin ReceivedNumbers
  <2>1. ReceivedNumbers' = Skip .. Front \ lost
    BY <1>1 DEF ReceivedNumbers
  <2>2. \A k \in Skip .. Front : k \in Skip .. (lastAck - 1) \/ k \in Gap \/ k = Front
    BY <1>1
  <2>3. \A k \in Gap : k \in lost
    BY <1>1
  <2>4. Front \in Skip .. Front /\ Front \notin lost
    BY <1>1
  <2>5. \A k \in Skip .. (lastAck - 1) : k \in Skip .. Front /\ k # Front
    BY <1>1
  <2> HIDE DEF Gap
  <2>6. \A k \in Skip .. Front : k \notin lost => k \in Skip .. (lastAck - 1) \/ k = Front
    BY <2>2, <2>3
  <2>. QED
    BY <2>1, <2>4, <2>5, <2>6 DEF ReceivedNumbers
<1>11. Cardinality(ReceivedNumbers') = Cardinality(ReceivedNumbers) + 1
  BY <1>3, <1>10, FS_AddElement
<1>. QED
  BY <1>2, <1>4, <1>9, <1>11

\* The front of the link comes whole: what counts is counted.
LEMMA DeliverValid ==
  ASSUME BerInv, link # <<>>, aliens = 0, lost' = lost,
         NEW frame \in Ber!LinkFrames, frame.cnt = Front, frame.valid = TRUE,
         Ber!ReceivedPdu(frame)
  PROVE  /\ lastAck' = Front + 1
         /\ dropped' = Cardinality(DroppedNumbers')
         /\ received' = Cardinality(ReceivedNumbers')
<1>1. BerTypeOK /\ LinkConsecutive /\ LostInOrder /\ Skip \in Nat
  BY BerArguments DEF BerInv, Ber!Arguments
<1>2. frame.cnt = Front /\ frame.valid = TRUE /\ Front \in Nat /\ Front < cnt
  BY <1>1, LinkHead
<1>3. lastAck <= Front /\ ~ Ber!IsInvalid(frame)
  BY <1>1, <1>2 DEF Ber!IsInvalid, LostInOrder, BerTypeOK
<1>4. CASE frame.cnt < Skip
  <2>1. lastAck' = Front + 1 /\ dropped' = dropped /\ received' = received
    BY <1>1, <1>2, <1>3, <1>4 DEF Ber!ReceivedPdu
  <2>2. dropped = 0 /\ received = 0
    BY <1>1, <1>2, <1>3, <1>4 DEF BerInv, CountedBehindSkip, BerTypeOK
  <2>3. Front \notin lost /\ lost \in SUBSET Nat
    BY <1>1, <1>2 DEF LostInOrder, BerTypeOK
  <2>4. DroppedNumbers' = {k \in lost : k < Front + 1 /\ k .. (Skip - 1) \subseteq lost}
    BY <2>1 DEF DroppedNumbers
  <2>5. \A k \in Nat : k < Front + 1 => Front \in k .. (Skip - 1)
    BY <1>1, <1>2, <1>4
  <2>6. DroppedNumbers' = {}
    BY <2>3, <2>4, <2>5
  <2>7. ReceivedNumbers' = {}
    BY <1>1, <1>2, <1>4, <2>1 DEF ReceivedNumbers
  <2>. QED
    BY <2>1, <2>2, <2>6, <2>7, FS_EmptySet
<1>5. CASE frame.cnt >= Skip
  <2>1. /\ lastAck' = Front + 1 /\ received' = received + 1
        /\ dropped' = dropped + (Front - lastAck)
    BY <1>1, <1>2, <1>3, <1>5 DEF Ber!ReceivedPdu
  <2>2. /\ Cardinality(DroppedNumbers')
             = Cardinality(DroppedNumbers) + (Front - lastAck)
        /\ Cardinality(ReceivedNumbers') = Cardinality(ReceivedNumbers) + 1
    BY <1>2, <1>5, <2>1, CountedGap
  <2>3. dropped = Cardinality(DroppedNumbers) /\ received = Cardinality(ReceivedNumbers)
    BY DEF BerInv, CountedAsFound
  <2>. QED
    BY <2>1, <2>2, <2>3
<1>. QED
  BY <1>1, <1>2, <1>4, <1>5

\* Every step keeps the invariant.
LEMMA BerNextInv == ASSUME BerInv, Ber!Next PROVE BerInv'
<1>0. /\ BerTypeOK /\ LinkConsecutive /\ CountedBehindSkip
      /\ LostInOrder /\ Ber!NumbersBalance /\ CountedAsFound
  BY DEF BerInv
<1>1. CASE Ber!CreatePdu
  <2>1. BerTypeOK'
    BY <1>0, <1>1 DEF BerTypeOK, Ber!CreatePdu, Ber!LinkFrames
  <2>2. Front' = Front /\ Len(link') = Len(link) + 1 /\ cnt' = cnt + 1
    BY <1>0, <1>1 DEF BerTypeOK, Ber!CreatePdu, Front, Ber!LinkFrames
  <2>3. LinkConsecutive'
    <3>1. Len(link)' <= cnt'
      BY <1>0, <2>2 DEF BerTypeOK, LinkConsecutive
    <3>2. \A i \in 1 .. Len(link)' : link'[i].cnt = Front' + i - 1
      <4>1. TAKE i \in 1 .. Len(link)'
      <4>2. CASE i \in 1 .. Len(link)
        BY <1>0, <1>1, <2>2, <4>2 DEF BerTypeOK, Ber!CreatePdu, LinkConsecutive
      <4>3. CASE i = Len(link) + 1
        BY <1>0, <1>1, <2>2, <4>3 DEF BerTypeOK, Ber!CreatePdu, Front
      <4>4. QED
        BY <1>0, <2>2, <4>1, <4>2, <4>3 DEF BerTypeOK
    <3>3. QED
      BY <3>1, <3>2 DEF LinkConsecutive
  <2>4. CountedBehindSkip' /\ LostInOrder'
    BY <1>0, <1>1, <2>2 DEF Ber!CreatePdu, CountedBehindSkip, LostInOrder
  <2>5. Ber!NumbersBalance'
    BY <1>0, <1>1 DEF BerTypeOK, Ber!CreatePdu, Ber!NumbersBalance
  <2>6. CountedAsFound'
    BY <1>0, <1>1
    DEF Ber!CreatePdu, CountedAsFound, DroppedNumbers, ReceivedNumbers
  <2>7. QED
    BY <2>1, <2>3, <2>4, <2>5, <2>6 DEF BerInv
<1>2. CASE Ber!Lose
  <2>1. link # <<>> /\ link' = Tail(link) /\ cnt' = cnt
    BY <1>2 DEF Ber!Lose
  <2>2. LinkConsecutive' /\ Front' = Front + 1
    BY <1>0, <2>1, LinkTail
  <2>3. lost' = lost \cup {Front} /\ Front \in Nat
    BY <1>0, <1>2, LinkHead DEF Ber!Lose
  <2>4. BerTypeOK'
    BY <1>0, <1>2, <2>1, <2>3, LinkHead DEF BerTypeOK, Ber!Lose
  <2>5. CountedBehindSkip' /\ Ber!NumbersBalance'
    BY <1>0, <1>2 DEF Ber!Lose, CountedBehindSkip, Ber!NumbersBalance
  <2>6. LostInOrder'
    BY <1>0, <1>2, <2>2, <2>3 DEF Ber!Lose, LostInOrder, BerTypeOK
  <2>7. CountedAsFound'
    <3>1. SUFFICES ASSUME aliens' = 0
          PROVE  /\ dropped' = Cardinality(DroppedNumbers')
                 /\ received' = Cardinality(ReceivedNumbers')
      BY DEF CountedAsFound
    <3>2. /\ aliens = 0 /\ lastAck' = lastAck /\ dropped' = dropped
          /\ received' = received
      BY <1>2, <3>1 DEF Ber!Lose
    <3>3. DroppedNumbers' = DroppedNumbers /\ ReceivedNumbers' = ReceivedNumbers
      BY <1>0, <2>3, <3>2, StillCounted
    <3>. QED
      BY <1>0, <3>2, <3>3 DEF CountedAsFound
  <2>8. QED
    BY <2>2, <2>4, <2>5, <2>6, <2>7 DEF BerInv
<1>3. ASSUME NEW valid \in BOOLEAN, Ber!Deliver(valid) PROVE BerInv'
  <2> DEFINE frame == [Head(link) EXCEPT !.valid = valid]
  <2>1. /\ link # <<>> /\ link' = Tail(link) /\ cnt' = cnt
        /\ Ber!ReceivedPdu(frame) /\ aliens' = aliens /\ finished' = finished
    BY <1>3 DEF Ber!Deliver
  <2>2. LinkConsecutive' /\ Front' = Front + 1
    BY <1>0, <2>1, LinkTail
  <2>3. /\ lost' = IF valid THEN lost ELSE lost \cup {Front}
        /\ Front \in Nat /\ frame \in Ber!LinkFrames /\ frame.cnt = Front
        /\ frame.valid = valid
    BY <1>0, <1>3, LinkHead DEF Ber!Deliver, Ber!LinkFrames
  <2>4. /\ Ber!NumbersBalance' /\ CountedBehindSkip'
        /\ lastAck' \in Nat /\ dropped' \in Nat /\ received' \in Nat
        /\ invalCnt' \in Nat
    BY <2>1, <2>3, ReceivedBalance
  <2>5. BerTypeOK'
    BY <1>0, <2>1, <2>3, <2>4, LinkHead DEF BerTypeOK
  <2>6. LostInOrder' /\ CountedAsFound'
    <3>1. CASE aliens # 0
      BY <2>1, <3>1 DEF LostInOrder, CountedAsFound
    <3>2. CASE aliens = 0 /\ valid
      <4>1. lost' = lost /\ frame.valid = TRUE
        BY <2>3, <3>2
      <4>2. /\ lastAck' = Front + 1
            /\ dropped' = Cardinality(DroppedNumbers')
            /\ received' = Cardinality(ReceivedNumbers')
        BY <2>1, <2>3, <3>2, <4>1, DeliverValid
      <4>3. LostInOrder'
        BY <1>0, <2>2, <2>3, <3>2, <4>1, <4>2 DEF LostInOrder, BerTypeOK
      <4>4. QED
        BY <4>2, <4>3 DEF CountedAsFound
    <3>3. CASE aliens = 0 /\ ~ valid
      <4>1. lastAck' = lastAck /\ dropped' = dropped /\ received' = received
        BY <2>1, <2>3, <3>3 DEF Ber!ReceivedPdu, Ber!IsInvalid
      <4>2. lost' = lost \cup {Front}
        BY <2>3, <3>3
      <4>3. LostInOrder'
        BY <1>0, <2>1, <2>2, <2>3, <3>3, <4>1, <4>2 DEF LostInOrder, BerTypeOK
      <4>4. DroppedNumbers' = DroppedNumbers /\ ReceivedNumbers' = ReceivedNumbers
        BY <1>0, <2>3, <3>3, <4>1, <4>2, StillCounted
      <4>5. CountedAsFound'
        BY <1>0, <3>3, <4>1, <4>4 DEF CountedAsFound
      <4>6. QED
        BY <4>3, <4>5
    <3>4. QED
      BY <3>1, <3>2, <3>3
  <2>7. QED
    BY <2>2, <2>4, <2>5, <2>6 DEF BerInv
<1>4. ASSUME NEW c \in 0 .. MaxFrames + 1, Ber!DeliverAlien(c) PROVE BerInv'
  <2> DEFINE frame == [cnt |-> c, valid |-> TRUE]
  <2>1. /\ Ber!ReceivedPdu(frame) /\ aliens' = aliens + 1
        /\ UNCHANGED <<cnt, finished, link, lost>>
    BY <1>4 DEF Ber!DeliverAlien
  <2>2. frame \in Ber!LinkFrames
    BY <1>4 DEF Ber!LinkFrames, Ber!Arguments
  <2>3. /\ Ber!NumbersBalance' /\ CountedBehindSkip'
        /\ lastAck' \in Nat /\ dropped' \in Nat /\ received' \in Nat
        /\ invalCnt' \in Nat
    BY <2>1, <2>2, ReceivedBalance
  <2>4. BerTypeOK' /\ aliens' # 0
    BY <1>0, <2>1, <2>3 DEF BerTypeOK
  <2>5. LinkConsecutive' /\ LostInOrder' /\ CountedAsFound'
    BY <1>0, <2>1, <2>4 DEF LinkConsecutive, Front, LostInOrder, CountedAsFound
  <2>6. QED
    BY <2>3, <2>4, <2>5 DEF BerInv
<1>5. QED
  BY <1>1, <1>2, <1>3, <1>4 DEF Ber!Next

\* A step of the other blocks leaves the bit error meter alone.
LEMMA BerSteps == [Next]_vars => Ber!Next \/ UNCHANGED berVars
BY DEF Next, vars, LrptStep, BerStep, RecorderStep, GolayStep, WhiteStep,
       EncoderStep

\* The bit error meter: no number up to the last one received is counted twice
\* and none but the first d_skip is left out; without frames of another run
\* those counted as received are those from d_skip on that came, and those
\* counted as dropped were lost: all from d_skip on, and those of an unbroken
\* run of losses up to it; for every d_skip, however many frames are sent.
THEOREM FramesAreAccounted == Spec => []FramesAccounted
<1>1. Init => BerInv
  BY BerInitInv DEF Init
<1>2. BerInv /\ [Next]_vars => BerInv'
  <2>1. BerInv /\ Ber!Next => BerInv'
    BY BerNextInv
  <2>2. BerInv /\ UNCHANGED berVars => BerInv'
    BY DEF BerInv, BerTypeOK, LinkConsecutive, Front, CountedBehindSkip,
           LostInOrder, Ber!NumbersBalance, CountedAsFound, DroppedNumbers,
           ReceivedNumbers, berVars
  <2>. QED
    BY <2>1, <2>2, BerSteps
<1>3. BerInv => FramesAccounted
  <2>1. \A S : Ber!Cardinality(S) = Cardinality(S)
    BY DEF Ber!Cardinality, Cardinality
  <2>. QED
    BY <2>1 DEF BerInv, FramesAccounted, Ber!FramesAccounted, CountedAsFound,
                DroppedNumbers, ReceivedNumbers, Ber!DroppedWereLost,
                Ber!ReceivedCame
<1>. QED
  BY <1>1, <1>2, <1>3, PTL DEF Spec

-----------------------------------------------------------------------------
(***************************************************************************)
(* The recorder.  Undisturbed, the second of a file never is ahead of the  *)
(* clock, and in the second of the clock all suffixes up to d_counter are  *)
(* taken and no other: the next name is a new one.                         *)
(***************************************************************************)

RecorderTypeOK ==
  /\ second \in Nat
  /\ counter \in Nat
  /\ written \in Nat
  /\ disturbed \in BOOLEAN

\* Where a name can be: not ahead of the clock, and in its second not above
\* the suffix that was given last.
NamesBehind ==
  ~ disturbed =>
    \A name \in DOMAIN files :
      /\ name[1] \in Nat /\ name[2] \in Nat
      /\ name[1] <= second
      /\ name[1] = second => filenamePrev = second /\ name[2] <= counter

\* Recorder!NoFileOverwritten, of finitely many files.
EachWritten ==
  ~ disturbed =>
    IsFiniteSet(DOMAIN files) /\ Cardinality(DOMAIN files) = written

RecorderInv == RecorderTypeOK /\ NamesBehind /\ EachWritten

\* Nothing is written at first.
LEMMA RecorderInitInv == Recorder!Init => RecorderInv
<1>. SUFFICES ASSUME Recorder!Init PROVE RecorderInv
  OBVIOUS
<1>1. RecorderTypeOK
  BY DEF Recorder!Init, RecorderTypeOK
<1>2. DOMAIN files = {}
  BY DEF Recorder!Init
<1>3. NamesBehind
  BY <1>2 DEF NamesBehind
<1>4. EachWritten
  <2>1. written = 0
    BY DEF Recorder!Init
  <2>. QED
    BY <1>2, <2>1, FS_EmptySet DEF EachWritten
<1>. QED
  BY <1>1, <1>3, <1>4 DEF RecorderInv

\* The name that msg_handler_frame makes is a new one.
LEMMA NameIsNew ==
  ASSUME RecorderInv, ~ disturbed
  PROVE  /\ Recorder!Suffix \in Nat
         /\ <<second, Recorder!Suffix>> \notin DOMAIN files
<1>1. RecorderTypeOK /\ NamesBehind
  BY DEF RecorderInv
<1>2. Recorder!Suffix \in Nat
  BY <1>1 DEF RecorderTypeOK, Recorder!Suffix
<1>3. ASSUME <<second, Recorder!Suffix>> \in DOMAIN files
      PROVE  FALSE
  <2>1. filenamePrev = second /\ Recorder!Suffix <= counter
    BY <1>1, <1>3 DEF NamesBehind
  <2>2. Recorder!Suffix = counter + 1
    BY <2>1 DEF Recorder!Suffix
  <2>. QED
    BY <1>1, <2>1, <2>2 DEF RecorderTypeOK
<1>. QED
  BY <1>2, <1>3

\* A frame is written.
LEMMA RecordKeepsInv == ASSUME RecorderInv, Recorder!Record PROVE RecorderInv'
<1>. DEFINE name == <<second, Recorder!Suffix>>
<1>1. RecorderTypeOK /\ NamesBehind /\ EachWritten
  BY DEF RecorderInv
<1>2. /\ filenamePrev' = second /\ counter' = Recorder!Suffix
      /\ written' = written + 1
      /\ second' = second /\ disturbed' = disturbed
  BY DEF Recorder!Record
<1>3. DOMAIN files' = DOMAIN files \cup {name}
  BY DEF Recorder!Record, Recorder!Put
<1>4. Recorder!Suffix \in Nat
  BY <1>1 DEF RecorderTypeOK, Recorder!Suffix
<1>5. RecorderTypeOK'
  BY <1>1, <1>2, <1>4 DEF RecorderTypeOK
<1>6. NamesBehind'
  <2>. SUFFICES ASSUME ~ disturbed,
                       NEW other \in DOMAIN files \cup {name}
                PROVE  /\ other[1] \in Nat /\ other[2] \in Nat
                       /\ other[1] <= second
                       /\ other[1] = second => other[2] <= Recorder!Suffix
    BY <1>2, <1>3 DEF NamesBehind
  <2>1. CASE other = name
    BY <1>1, <1>4, <2>1 DEF RecorderTypeOK
  <2>2. CASE other \in DOMAIN files
    <3>1. /\ other[1] \in Nat /\ other[2] \in Nat /\ other[1] <= second
          /\ other[1] = second => filenamePrev = second /\ other[2] <= counter
      BY <1>1, <2>2 DEF NamesBehind
    <3>2. filenamePrev = second => Recorder!Suffix = counter + 1
      BY DEF Recorder!Suffix
    <3>3. counter \in Nat
      BY <1>1 DEF RecorderTypeOK
    <3>. QED
      BY <3>1, <3>2, <3>3
  <2>. QED
    BY <2>1, <2>2
<1>7. EachWritten'
  <2>. SUFFICES ASSUME ~ disturbed
                PROVE  /\ IsFiniteSet(DOMAIN files \cup {name})
                       /\ Cardinality(DOMAIN files \cup {name}) = written + 1
    BY <1>2, <1>3 DEF EachWritten
  <2>1. name \notin DOMAIN files
    BY NameIsNew
  <2>2. IsFiniteSet(DOMAIN files) /\ Cardinality(DOMAIN files) = written
    BY <1>1 DEF EachWritten
  <2>. HIDE DEF name
  <2>. QED
    BY <2>1, <2>2, FS_AddElement
<1>. QED
  BY <1>5, <1>6, <1>7 DEF RecorderInv

\* Every step keeps the invariant.
LEMMA RecorderNextInv == ASSUME RecorderInv, Recorder!Next PROVE RecorderInv'
<1>1. RecorderTypeOK /\ NamesBehind /\ EachWritten
  BY DEF RecorderInv
<1>2. ASSUME UNCHANGED <<second, filenamePrev, counter, files, written,
                         disturbed>>
      PROVE  RecorderInv'
  BY <1>1, <1>2 DEF RecorderInv, RecorderTypeOK, NamesBehind, EachWritten
<1>3. ASSUME NEW payload \in Payloads, Recorder!Send(payload)
      PROVE  RecorderInv'
  BY <1>2, <1>3 DEF Recorder!Send
<1>4. ASSUME NEW datagram \in network,
             Recorder!Lose(datagram) \/ Recorder!Accept(datagram)
      PROVE  RecorderInv'
  BY <1>2, <1>4 DEF Recorder!Lose, Recorder!Accept
<1>5. CASE Recorder!Tick
  <2>1. second' = second + 1
        /\ UNCHANGED <<filenamePrev, counter, files, written, disturbed>>
    BY <1>5 DEF Recorder!Tick
  <2>2. RecorderTypeOK' /\ EachWritten'
    BY <1>1, <2>1 DEF RecorderTypeOK, EachWritten
  <2>3. NamesBehind'
    BY <1>1, <2>1 DEF RecorderTypeOK, NamesBehind
  <2>. QED
    BY <2>2, <2>3 DEF RecorderInv
<1>6. CASE Recorder!SetBack
  <2>1. second > 0 /\ second' = second - 1 /\ disturbed' = TRUE
        /\ UNCHANGED <<counter, written>>
    BY <1>6 DEF Recorder!SetBack
  <2>. QED
    BY <1>1, <2>1 DEF RecorderInv, RecorderTypeOK, NamesBehind, EachWritten
<1>7. CASE Recorder!Restart
  <2>1. /\ counter' = 0
        /\ disturbed' = (disturbed \/ filenamePrev = second)
        /\ UNCHANGED <<second, files, written>>
    BY <1>7 DEF Recorder!Restart
  <2>2. RecorderTypeOK' /\ EachWritten'
    BY <1>1, <2>1 DEF RecorderTypeOK, EachWritten
  <2>3. NamesBehind'
    BY <1>1, <2>1 DEF RecorderTypeOK, NamesBehind
  <2>. QED
    BY <2>2, <2>3 DEF RecorderInv
<1>. QED
  BY <1>3, <1>4, <1>5, <1>6, <1>7, RecordKeepsInv DEF Recorder!Next

\* A step of the other blocks leaves the recorder alone.
LEMMA RecorderSteps == [Next]_vars => Recorder!Next \/ UNCHANGED recorderVars
BY DEF Next, vars, LrptStep, BerStep, RecorderStep, GolayStep, WhiteStep,
       EncoderStep

\* frame_file_sink: as long as the clock is not set back and the flowgraph not
\* started again in the second of its last file, each frame that is recorded
\* gets a file of its own, however many come in a second, whatever the network
\* loses, repeats or reorders, and whenever the flowgraph ends.
THEOREM NoFileIsOverwritten == Spec => []NoFileOverwritten
<1>1. Init => RecorderInv
  BY RecorderInitInv DEF Init
<1>2. RecorderInv /\ [Next]_vars => RecorderInv'
  <2>1. RecorderInv /\ Recorder!Next => RecorderInv'
    BY RecorderNextInv
  <2>2. RecorderInv /\ UNCHANGED recorderVars => RecorderInv'
    BY DEF RecorderInv, RecorderTypeOK, NamesBehind, EachWritten, recorderVars
  <2>. QED
    BY <2>1, <2>2, RecorderSteps
<1>3. RecorderInv => NoFileOverwritten
  <2>1. \A S : Recorder!Cardinality(S) = Cardinality(S)
    BY DEF Recorder!Cardinality, Cardinality
  <2>. QED
    BY <2>1 DEF RecorderInv, EachWritten, NoFileOverwritten,
                Recorder!NoFileOverwritten
<1>. QED
  BY <1>1, <1>2, <1>3, PTL DEF Spec
-----------------------------------------------------------------------------
(***************************************************************************)
(* The whitening.  Without self synchronisation a register depends on the  *)
(* bits since the last reset alone: both go along one orbit.  With it, the *)
(* bits in the descrambler, under way and in the scrambler are one line,   *)
(* and each bit of it hides what it stands for by the parity of as many    *)
(* bits in front of it as there are stages.                                *)
(***************************************************************************)

Meant == {0, 1, 2}
Sent == [bit : Bit, count : 0 .. MaxCount, for : Meant]

WhiteTypeOK ==
  /\ config \in WhiteningConfigs
  /\ scrReg \in Seq(Bit) /\ Len(scrReg) = White!Stages
  /\ desReg \in Seq(Bit) /\ Len(desReg) = White!Stages
  /\ inReg \in Seq(Meant) /\ Len(inReg) = White!Stages
  /\ scrCount \in 0 .. MaxCount
  /\ desCount \in 0 .. MaxCount
  /\ underWay \in Seq(Sent)
  /\ whole \in Nat

\* What the register is after each number of bits up to n, without self
\* synchronisation.
IsOrbit(r, n) ==
  /\ r[0] = config.seed
  /\ \A k \in 0 .. n - 1 : r[k + 1] = White!Shift(r[k], White!Parity(r[k]))

Along(r) ==
  /\ scrReg = r[scrCount]
  /\ desReg = r[desCount]
  /\ \A k \in 1 .. Len(underWay) :
       /\ underWay[k].for \in Bit
       /\ underWay[k].bit =
            White!Plus(Head(r[underWay[k].count]), underWay[k].for)

AlongOrbit == ~ config.selfSync => \E r : IsOrbit(r, MaxCount) /\ Along(r)

\* The line with self synchronisation, from the oldest bit in the descrambler
\* to the newest in the scrambler, and what its bits stand for.
LineAt(p) ==
  IF p <= White!Stages THEN desReg[p]
  ELSE IF p <= White!Stages + Len(underWay) THEN underWay[p - White!Stages].bit
  ELSE scrReg[p - White!Stages - Len(underWay)]

ForAt(p) ==
  IF p <= White!Stages + Len(underWay) THEN underWay[p - White!Stages].for
  ELSE inReg[p - White!Stages - Len(underWay)]

LineEnd == 2 * White!Stages + Len(underWay)

\* As many bits in front of a place as there are stages.
Before(p) == [q \in 1 .. White!Stages |-> LineAt(p - White!Stages + q - 1)]

\* Where the bits in front came whole one after the other.
Undamaged(p) ==
  p - White!Stages > White!Stages - White!MinOf(whole, White!Stages)

OnLine ==
  config.selfSync =>
    \A p \in White!Stages + 1 .. LineEnd :
      ForAt(p) # 2 /\ Undamaged(p) =>
        LineAt(p) = White!Plus(White!Parity(Before(p)), ForAt(p))

\* Self synchronisation goes with one bit per octet: descramble() of octets is
\* no inverse of scramble() then, see DescrambleInverts.
BitPerOctet == \A c \in WhiteningConfigs : ~ (c.selfSync /\ c.octets)

WhiteInv == WhiteTypeOK /\ AlongOrbit /\ OnLine /\ White!DescramblerRecovers

\* The arguments of the constructor.
LEMMA ConfigProperties ==
  ASSUME config \in WhiteningConfigs
  PROVE  /\ White!Stages \in Nat \ {0} /\ MaxCount \in Nat
         /\ config.selfSync \in BOOLEAN /\ config.octets \in BOOLEAN
         /\ config.seed \in Seq(Bit) /\ Len(config.seed) = White!Stages
         /\ config.mask \subseteq 1 .. White!Stages
<1>1. White!Arguments
  BY ArgumentsAssumption DEF ArgumentsAssumption
<1>2. /\ config.seed \in Seq(Bit) /\ config.seed # <<>>
      /\ config.mask \subseteq 1 .. Len(config.seed) /\ MaxCount \in Nat
      /\ config.selfSync \in BOOLEAN /\ config.octets \in BOOLEAN
  BY <1>1 DEF White!Arguments, Bit
<1>3. Len(config.seed) \in Nat /\ Len(config.seed) # 0
  BY <1>2, EmptySeq, LenProperties
<1>. QED
  BY <1>2, <1>3 DEF White!Stages

\* Sums of bits are bits, and adding the same bit twice is adding none.
LEMMA PlusProperties ==
  /\ \A a, b \in Bit : White!Plus(a, b) \in Bit
  /\ \A a \in Bit : White!Plus(a, 0) = a
  /\ \A a, b \in Bit : White!Plus(a, White!Plus(a, b)) = b
BY DEF White!Plus, Bit

\* The parity of a register is a bit.
LEMMA ParityBit ==
  ASSUME config \in WhiteningConfigs, NEW reg
  PROVE  White!Parity(reg) \in Bit
<1>. DEFINE ones == {p \in config.mask : reg[p] = 1}
<1>1. White!Stages \in Nat /\ config.mask \subseteq 1 .. White!Stages
  BY ConfigProperties
<1>2. ones \in SUBSET Nat /\ \A p \in ones : p < White!Stages + 1
  BY <1>1
<1>3. IsFiniteSet(ones)
  <2>. HIDE DEF ones
  <2>1. White!Stages + 1 \in Nat
    BY <1>1
  <2>. QED
    BY <1>2, <2>1, BoundedFinite
<1>4. Cardinality(ones) \in Nat
  BY <1>3, FS_CardinalityType
<1>5. White!Cardinality(ones) = Cardinality(ones)
  BY DEF White!Cardinality, Cardinality
<1>6. \A n \in Nat : n % 2 \in Bit
  BY DEF Bit
<1>7. White!Parity(reg) = Cardinality(ones) % 2
  BY <1>5 DEF White!Parity
<1>. QED
  BY <1>4, <1>6, <1>7

\* A register with a bit shifted in.
LEMMA ShiftProperties ==
  ASSUME NEW S, NEW reg \in Seq(S), NEW bit \in S, reg # <<>>
  PROVE  /\ White!Shift(reg, bit) \in Seq(S)
         /\ Len(reg) \in Nat \ {0}
         /\ Len(White!Shift(reg, bit)) = Len(reg)
         /\ \A p \in 1 .. Len(reg) - 1 : White!Shift(reg, bit)[p] = reg[p + 1]
         /\ White!Shift(reg, bit)[Len(reg)] = bit
         /\ Head(reg) = reg[1] /\ Head(reg) \in S
<1>1. /\ Head(reg) \in S /\ Head(reg) = reg[1] /\ Tail(reg) \in Seq(S)
      /\ Len(Tail(reg)) = Len(reg) - 1
      /\ \A i \in 1 .. Len(Tail(reg)) : Tail(reg)[i] = reg[i + 1]
  BY HeadTailProperties
<1>2. Len(reg) \in Nat \ {0}
  BY EmptySeq, LenProperties
<1>3. /\ Append(Tail(reg), bit) \in Seq(S)
      /\ Len(Append(Tail(reg), bit)) = Len(Tail(reg)) + 1
      /\ \A i \in 1 .. Len(Tail(reg)) : Append(Tail(reg), bit)[i] = Tail(reg)[i]
      /\ Append(Tail(reg), bit)[Len(Tail(reg)) + 1] = bit
  BY <1>1, AppendProperties
<1>4. Len(Tail(reg)) + 1 = Len(reg)
  BY <1>1, <1>2
<1>. QED
  BY <1>1, <1>2, <1>3, <1>4 DEF White!Shift

\* The same, of a register of known length.
LEMMA ShiftPlaces ==
  ASSUME NEW S, NEW reg \in Seq(S), NEW bit \in S, reg # <<>>
  PROVE  \A n : n = Len(reg) =>
           /\ \A p \in 1 .. n - 1 : White!Shift(reg, bit)[p] = reg[p + 1]
           /\ White!Shift(reg, bit)[n] = bit
           /\ Head(reg) = reg[1]
<1>1. /\ \A p \in 1 .. Len(reg) - 1 : White!Shift(reg, bit)[p] = reg[p + 1]
      /\ White!Shift(reg, bit)[Len(reg)] = bit
      /\ Head(reg) = reg[1]
  BY ShiftProperties
<1>. QED
  BY <1>1

\* There is an orbit.
LEMMA OrbitExists == ASSUME MaxCount \in Nat PROVE \E r : IsOrbit(r, MaxCount)
<1>. DEFINE None == {n \in Nat : ~ \E r : IsOrbit(r, n)}
<1>1. SUFFICES ASSUME None # {} PROVE FALSE
  OBVIOUS
<1>2. PICK n \in None : \A m \in None : n <= m
  <2>1. None \subseteq Nat
    OBVIOUS
  <2>. HIDE DEF None
  <2>. QED
    BY <1>1, <2>1, LeastNat
<1>3. IsOrbit([k \in {0} |-> config.seed], 0)
  BY DEF IsOrbit
<1>4. n \in Nat /\ n # 0
  BY <1>3
<1>5. n - 1 \in Nat /\ n - 1 \notin None
  BY <1>2, <1>4
<1>6. PICK r : IsOrbit(r, n - 1)
  BY <1>5
<1>. DEFINE s == [k \in 0 .. n |->
                   IF k = n THEN White!Shift(r[n - 1], White!Parity(r[n - 1]))
                   ELSE r[k]]
<1>7. s[0] = config.seed
  BY <1>4, <1>6 DEF IsOrbit
<1>8. \A k \in 0 .. n - 1 : s[k + 1] = White!Shift(s[k], White!Parity(s[k]))
  <2>1. TAKE k \in 0 .. n - 1
  <2>2. k + 1 \in 0 .. n /\ k \in 0 .. n /\ s[k] = r[k]
    BY <1>4
  <2>3. CASE k = n - 1
    BY <1>4, <2>2, <2>3
  <2>4. CASE k # n - 1
    <3>1. k \in 0 .. (n - 1) - 1 /\ s[k + 1] = r[k + 1]
      BY <1>4, <2>2, <2>4
    <3>2. r[k + 1] = White!Shift(r[k], White!Parity(r[k]))
      BY <1>6, <3>1 DEF IsOrbit
    <3>. QED
      BY <2>2, <3>1, <3>2
  <2>. QED
    BY <2>3, <2>4
<1>9. IsOrbit(s, n)
  BY <1>7, <1>8 DEF IsOrbit
<1>. QED
  BY <1>2, <1>9

\* What goes through the register of either object.
LEMMA ThroughRegister ==
  ASSUME NEW reg, NEW bit
  PROVE  /\ ~ config.selfSync =>
              White!Scramble(reg, bit) =
                [out |-> White!Plus(Head(reg), bit),
                 reg |-> White!Shift(reg, White!Parity(reg))]
         /\ config.selfSync =>
              White!Scramble(reg, bit) =
                [out |-> Head(reg),
                 reg |-> White!Shift(reg, White!Plus(White!Parity(reg), bit))]
         /\ ~ config.selfSync =>
              White!Descramble(reg, bit) =
                [out |-> White!Plus(Head(reg), bit),
                 reg |-> White!Shift(reg, White!Parity(reg))]
         /\ config.selfSync /\ ~ config.octets =>
              White!Descramble(reg, bit) =
                [out |-> White!Plus(White!Parity(reg), bit),
                 reg |-> White!Shift(reg, bit)]
BY DEF White!Scramble, White!Descramble, White!Additive, White!NextBit,
       White!NextBitScramble, White!NextBitDescramble

\* At first there is nothing under way.
LEMMA WhiteInitInv == White!Init => WhiteInv
<1>. SUFFICES ASSUME White!Init PROVE WhiteInv
  OBVIOUS
<1>1. /\ config \in WhiteningConfigs
      /\ scrReg = config.seed /\ desReg = config.seed
      /\ scrCount = 0 /\ desCount = 0 /\ underWay = <<>> /\ whole = 0
      /\ inReg = [p \in 1 .. White!Stages |-> 2]
  BY DEF White!Init
<1>2. /\ White!Stages \in Nat \ {0} /\ MaxCount \in Nat
      /\ config.seed \in Seq(Bit) /\ Len(config.seed) = White!Stages
      /\ config.selfSync \in BOOLEAN
  BY <1>1, ConfigProperties
<1>3. inReg \in Seq(Meant) /\ Len(inReg) = White!Stages
  <2>1. inReg \in [1 .. White!Stages -> Meant]
    BY <1>1 DEF Meant
  <2>. QED
    BY <1>2, <2>1, FunctionSequence
<1>4. WhiteTypeOK
  BY <1>1, <1>2, <1>3 DEF WhiteTypeOK
<1>5. AlongOrbit
  <2>1. PICK r : IsOrbit(r, MaxCount)
    BY <1>2, OrbitExists
  <2>2. Along(r)
    BY <1>1, <2>1 DEF Along, IsOrbit
  <2>. QED
    BY <2>1, <2>2 DEF AlongOrbit
<1>6. OnLine
  BY <1>1, <1>2 DEF OnLine, LineEnd, ForAt
<1>7. White!DescramblerRecovers
  BY <1>1, <1>2 DEF White!DescramblerRecovers
<1>. QED
  BY <1>4, <1>5, <1>6, <1>7 DEF WhiteInv

\* What every step finds.
LEMMA WhiteFacts ==
  ASSUME WhiteTypeOK
  PROVE  /\ White!Stages \in Nat \ {0} /\ MaxCount \in Nat
         /\ config.selfSync \in BOOLEAN
         /\ config.seed \in Seq(Bit) /\ Len(config.seed) = White!Stages
         /\ scrReg # <<>> /\ desReg # <<>> /\ inReg # <<>>
         /\ Len(underWay) \in Nat
         /\ scrReg \in [1 .. White!Stages -> Bit]
         /\ desReg \in [1 .. White!Stages -> Bit]
<1>1. /\ White!Stages \in Nat \ {0} /\ MaxCount \in Nat
      /\ config.selfSync \in BOOLEAN
      /\ config.seed \in Seq(Bit) /\ Len(config.seed) = White!Stages
  BY ConfigProperties DEF WhiteTypeOK
<1>2. /\ scrReg \in Seq(Bit) /\ Len(scrReg) = White!Stages
      /\ desReg \in Seq(Bit) /\ Len(desReg) = White!Stages
      /\ inReg \in Seq(Meant) /\ Len(inReg) = White!Stages
      /\ underWay \in Seq(Sent)
  BY DEF WhiteTypeOK
<1>3. scrReg # <<>> /\ desReg # <<>> /\ inReg # <<>>
  BY <1>1, <1>2, EmptySeq
<1>4. /\ Len(underWay) \in Nat
      /\ scrReg \in [1 .. Len(scrReg) -> Bit]
      /\ desReg \in [1 .. Len(desReg) -> Bit]
  BY <1>2, LenProperties
<1>. QED
  BY <1>1, <1>2, <1>3, <1>4

\* What Send does to the scrambler and the link.
LEMMA SendResult ==
  ASSUME WhiteTypeOK, NEW bit \in Bit, White!Send(bit)
  PROVE  LET new == IF config.selfSync
                      THEN White!Plus(White!Parity(scrReg), bit)
                      ELSE White!Parity(scrReg)
             sent == [bit |-> IF config.selfSync THEN Head(scrReg)
                              ELSE White!Plus(Head(scrReg), bit),
                      count |-> scrCount,
                      for |-> IF config.selfSync THEN Head(inReg) ELSE bit]
         IN  /\ new \in Bit /\ sent \in Sent
             /\ scrReg' = White!Shift(scrReg, new)
             /\ scrCount < MaxCount /\ scrCount' = scrCount + 1
             /\ inReg' = White!Shift(inReg, bit)
             /\ underWay' = Append(underWay, sent)
             /\ UNCHANGED <<config, desReg, desCount, whole, last>>
<1>. DEFINE new == IF config.selfSync
                     THEN White!Plus(White!Parity(scrReg), bit)
                     ELSE White!Parity(scrReg)
            out == IF config.selfSync THEN Head(scrReg)
                   ELSE White!Plus(Head(scrReg), bit)
            sent == [bit |-> out, count |-> scrCount,
                     for |-> IF config.selfSync THEN Head(inReg) ELSE bit]
<1>1. /\ config \in WhiteningConfigs /\ config.selfSync \in BOOLEAN
      /\ scrReg \in Seq(Bit) /\ inReg \in Seq(Meant)
      /\ scrReg # <<>> /\ inReg # <<>> /\ scrCount \in 0 .. MaxCount
  BY WhiteFacts DEF WhiteTypeOK
<1>2. White!Scramble(scrReg, bit) =
        [out |-> out, reg |-> White!Shift(scrReg, new)]
  BY <1>1, ThroughRegister
<1>3. Head(scrReg) \in Bit /\ Head(inReg) \in Meant
  BY <1>1, ShiftProperties, HeadTailProperties
<1>4. new \in Bit
  <2>1. White!Parity(scrReg) \in Bit
    BY <1>1, ParityBit
  <2>. QED
    BY <2>1, PlusProperties
<1>5. sent \in Sent
  <2>1. out \in Bit
    BY <1>3, PlusProperties
  <2>2. (IF config.selfSync THEN Head(inReg) ELSE bit) \in Meant
    BY <1>3 DEF Bit, Meant
  <2>. HIDE DEF out
  <2>. QED
    BY <1>1, <2>1, <2>2 DEF Sent
<1>6. /\ scrReg' = White!Shift(scrReg, new)
      /\ scrCount < MaxCount /\ scrCount' = scrCount + 1
      /\ inReg' = White!Shift(inReg, bit)
      /\ underWay' = Append(underWay, sent)
      /\ UNCHANGED <<config, desReg, desCount, whole, last>>
  BY <1>2 DEF White!Send
<1>. HIDE DEF new, sent
<1>7. QED
  BY <1>4, <1>5, <1>6 DEF new, sent, out

\* A bit is sent: the types.
LEMMA SendTypes ==
  ASSUME WhiteTypeOK, NEW bit \in Bit, White!Send(bit)
  PROVE  WhiteTypeOK'
<1>1. PICK new \in Bit, sent \in Sent :
        /\ scrReg' = White!Shift(scrReg, new)
        /\ scrCount < MaxCount /\ scrCount' = scrCount + 1
        /\ inReg' = White!Shift(inReg, bit)
        /\ underWay' = Append(underWay, sent)
        /\ UNCHANGED <<config, desReg, desCount, whole, last>>
  BY SendResult
<1>2. /\ scrReg \in Seq(Bit) /\ scrReg # <<>> /\ Len(scrReg) = White!Stages
      /\ inReg \in Seq(Meant) /\ inReg # <<>>
      /\ Len(inReg) = White!Stages /\ White!Stages' = White!Stages
      /\ scrCount \in 0 .. MaxCount /\ MaxCount \in Nat
  BY <1>1, WhiteFacts DEF WhiteTypeOK, White!Stages
<1>3. scrReg' \in Seq(Bit) /\ Len(scrReg') = White!Stages
  BY <1>1, <1>2, ShiftProperties
<1>4. inReg' \in Seq(Meant) /\ Len(inReg') = White!Stages
  <2>1. bit \in Meant
    BY DEF Bit, Meant
  <2>2. inReg \in Seq(Meant) /\ inReg # <<>>
    BY <1>2
  <2>3. /\ White!Shift(inReg, bit) \in Seq(Meant)
        /\ Len(White!Shift(inReg, bit)) = Len(inReg)
    BY <2>1, <2>2, ShiftProperties
  <2>. QED
    BY <1>1, <1>2, <2>3
<1>5. underWay' \in Seq(Sent)
  BY <1>1, AppendProperties DEF WhiteTypeOK
<1>6. scrCount' \in 0 .. MaxCount
  BY <1>1, <1>2
<1>. QED
  BY <1>1, <1>2, <1>3, <1>4, <1>5, <1>6 DEF WhiteTypeOK

\* A bit is sent without self synchronisation.
LEMMA SendAlong ==
  ASSUME WhiteTypeOK, AlongOrbit, NEW bit \in Bit, White!Send(bit)
  PROVE  AlongOrbit'
<1>1. SUFFICES ASSUME ~ config.selfSync
               PROVE  AlongOrbit'
  BY SendResult DEF AlongOrbit
<1>2. PICK r : IsOrbit(r, MaxCount) /\ Along(r)
  BY <1>1 DEF AlongOrbit
<1>. DEFINE sent == [bit |-> White!Plus(Head(scrReg), bit), count |-> scrCount,
                     for |-> bit]
<1>3. /\ scrReg' = White!Shift(scrReg, White!Parity(scrReg))
      /\ scrCount < MaxCount /\ scrCount' = scrCount + 1
      /\ underWay' = Append(underWay, sent)
      /\ UNCHANGED <<config, desReg, desCount>>
  BY <1>1, SendResult
<1>4. scrCount \in 0 .. MaxCount - 1 /\ Len(underWay) \in Nat
  BY <1>3, WhiteFacts DEF WhiteTypeOK
<1>5. scrReg' = r[scrCount']
  BY <1>2, <1>3, <1>4 DEF IsOrbit, Along
<1>6. desReg' = r[desCount']
  BY <1>2, <1>3 DEF Along
<1>7. \A k \in 1 .. Len(underWay') :
        /\ underWay'[k].for \in Bit
        /\ underWay'[k].bit =
             White!Plus(Head(r[underWay'[k].count]), underWay'[k].for)
  <2>. TAKE k \in 1 .. Len(underWay')
  <2>1. IsSequence(underWay)
    BY SequenceOver DEF WhiteTypeOK
  <2>2. /\ Len(underWay') = Len(underWay) + 1
        /\ \A i \in 1 .. Len(underWay) : underWay'[i] = underWay[i]
        /\ underWay'[Len(underWay) + 1] = sent
    BY <1>3, <2>1, SequenceAppend
  <2>3. CASE k \in 1 .. Len(underWay)
    BY <1>2, <2>2, <2>3 DEF Along
  <2>4. CASE k = Len(underWay) + 1
    BY <1>2, <2>2, <2>4 DEF Along
  <2>. QED
    BY <1>4, <2>2, <2>3, <2>4
<1>8. IsOrbit(r, MaxCount)'
  BY <1>2, <1>3 DEF IsOrbit, White!Shift, White!Parity
<1>9. Along(r)'
  BY <1>5, <1>6, <1>7 DEF Along
<1>. QED
  BY <1>8, <1>9 DEF AlongOrbit

\* The parity of a register whose places do not change.
LEMMA ParityStays ==
  ASSUME config' = config, NEW p
  PROVE  /\ White!Parity(Before(p))' = White!Parity(Before(p)')
         /\ White!Stages' = White!Stages
BY DEF White!Parity, White!Stages

\* A bit is sent with self synchronisation: the line gets longer at its end.
LEMMA SendOnLine ==
  ASSUME WhiteTypeOK, OnLine, NEW bit \in Bit, White!Send(bit)
  PROVE  OnLine'
<1>. DEFINE S == White!Stages
            U == Len(underWay)
            new == White!Plus(White!Parity(scrReg), bit)
            sent == [bit |-> Head(scrReg), count |-> scrCount,
                     for |-> Head(inReg)]
<1>1. SUFFICES ASSUME config.selfSync
               PROVE  OnLine'
  BY SendResult DEF OnLine
<1>2. /\ scrReg' = White!Shift(scrReg, new)
      /\ inReg' = White!Shift(inReg, bit)
      /\ underWay' = Append(underWay, sent)
      /\ UNCHANGED <<config, desReg, whole>>
      /\ new \in Bit
  BY <1>1, SendResult
<1>. HIDE DEF new
<1>3. /\ S \in Nat \ {0} /\ U \in Nat /\ S' = S
      /\ LineEnd = 2 * S + U
  BY <1>2, WhiteFacts DEF White!Stages, LineEnd
<1>4. /\ \A q \in 1 .. S - 1 : scrReg'[q] = scrReg[q + 1]
      /\ scrReg'[S] = new
      /\ Head(scrReg) = scrReg[1]
  <2>1. scrReg \in Seq(Bit) /\ scrReg # <<>> /\ Len(scrReg) = S
    BY WhiteFacts DEF WhiteTypeOK
  <2>2. /\ \A q \in 1 .. S - 1 : White!Shift(scrReg, new)[q] = scrReg[q + 1]
        /\ White!Shift(scrReg, new)[S] = new
        /\ Head(scrReg) = scrReg[1]
    BY <1>2, <2>1, ShiftPlaces
  <2>. QED
    BY <1>2, <2>1, <2>2
<1>5. /\ \A q \in 1 .. S - 1 : inReg'[q] = inReg[q + 1]
      /\ inReg'[S] = bit
      /\ Head(inReg) = inReg[1]
  <2>1. inReg \in Seq(Meant) /\ inReg # <<>> /\ Len(inReg) = S
    BY WhiteFacts DEF WhiteTypeOK
  <2>2. bit \in Meant
    BY DEF Bit, Meant
  <2>3. /\ \A q \in 1 .. S - 1 : White!Shift(inReg, bit)[q] = inReg[q + 1]
        /\ White!Shift(inReg, bit)[S] = bit
        /\ Head(inReg) = inReg[1]
    BY <2>1, <2>2, ShiftPlaces
  <2>. QED
    BY <1>2, <2>1, <2>3
<1>6. /\ Len(underWay') = U + 1
      /\ \A k \in 1 .. U : underWay'[k] = underWay[k]
      /\ underWay'[U + 1].bit = scrReg[1]
      /\ underWay'[U + 1].for = inReg[1]
  <2>1. IsSequence(underWay)
    BY SequenceOver DEF WhiteTypeOK
  <2>. QED
    BY <1>2, <1>4, <1>5, <2>1, SequenceAppend
<1>. HIDE DEF S, U, sent
<1>7. LineEnd' = LineEnd + 1
  <2>1. LineEnd' = 2 * S' + Len(underWay')
    BY DEF LineEnd, S
  <2>. QED
    BY <1>3, <1>6, <2>1
<1>8. \A p \in 1 .. LineEnd : LineAt(p)' = LineAt(p)
  <2>. TAKE p \in 1 .. LineEnd
  <2>1. LineAt(p) = IF p <= S THEN desReg[p]
                    ELSE IF p <= S + U THEN underWay[p - S].bit
                    ELSE scrReg[p - S - U]
    BY DEF LineAt, S, U
  <2>2. LineAt(p)' = IF p <= S THEN desReg[p]
                     ELSE IF p <= S + (U + 1) THEN underWay'[p - S].bit
                     ELSE scrReg'[p - S - (U + 1)]
    BY <1>2, <1>3, <1>6 DEF LineAt, S
  <2>3. CASE p <= S
    BY <2>1, <2>2, <2>3
  <2>4. CASE S < p /\ p <= S + U
    <3>1. p - S \in 1 .. U /\ p <= S + (U + 1) /\ ~ (p <= S)
      BY <1>3, <2>4
    <3>. QED
      BY <1>6, <2>1, <2>2, <2>4, <3>1
  <2>5. CASE p = S + U + 1
    <3>1. /\ p - S = U + 1 /\ p - S - U = 1 /\ p <= S + (U + 1)
          /\ ~ (p <= S + U) /\ ~ (p <= S)
      BY <1>3, <2>5
    <3>. QED
      BY <1>6, <2>1, <2>2, <3>1
  <2>6. CASE p > S + U + 1
    <3>1. /\ p - S - (U + 1) \in 1 .. S - 1
          /\ p - S - (U + 1) + 1 = p - S - U
          /\ ~ (p <= S + (U + 1)) /\ ~ (p <= S + U) /\ ~ (p <= S)
      BY <1>3, <2>6
    <3>. QED
      BY <1>4, <2>1, <2>2, <3>1
  <2>. QED
    BY <1>3, <2>3, <2>4, <2>5, <2>6
<1>9. \A p \in S + 1 .. LineEnd : ForAt(p)' = ForAt(p)
  <2>. TAKE p \in S + 1 .. LineEnd
  <2>1. ForAt(p) = IF p <= S + U THEN underWay[p - S].for
                   ELSE inReg[p - S - U]
    BY DEF ForAt, S, U
  <2>2. ForAt(p)' = IF p <= S + (U + 1) THEN underWay'[p - S].for
                    ELSE inReg'[p - S - (U + 1)]
    BY <1>3, <1>6 DEF ForAt, S
  <2>4. CASE p <= S + U
    <3>1. p - S \in 1 .. U /\ p <= S + (U + 1)
      BY <1>3, <2>4
    <3>. QED
      BY <1>6, <2>1, <2>2, <2>4, <3>1
  <2>5. CASE p = S + U + 1
    <3>1. /\ p - S = U + 1 /\ p - S - U = 1 /\ p <= S + (U + 1)
          /\ ~ (p <= S + U)
      BY <1>3, <2>5
    <3>. QED
      BY <1>6, <2>1, <2>2, <3>1
  <2>6. CASE p > S + U + 1
    <3>1. /\ p - S - (U + 1) \in 1 .. S - 1
          /\ p - S - (U + 1) + 1 = p - S - U
          /\ ~ (p <= S + (U + 1)) /\ ~ (p <= S + U)
      BY <1>3, <2>6
    <3>. QED
      BY <1>5, <2>1, <2>2, <3>1
  <2>. QED
    BY <1>3, <2>4, <2>5, <2>6
<1>10. ASSUME NEW p, p = LineEnd + 1
       PROVE  LineAt(p)' = new /\ ForAt(p)' = bit
  <2>1. LineAt(p)' = IF p <= S THEN desReg[p]
                     ELSE IF p <= S + (U + 1) THEN underWay'[p - S].bit
                     ELSE scrReg'[p - S - (U + 1)]
    BY <1>2, <1>3, <1>6 DEF LineAt, S
  <2>2. ForAt(p)' = IF p <= S + (U + 1) THEN underWay'[p - S].for
                    ELSE inReg'[p - S - (U + 1)]
    BY <1>3, <1>6 DEF ForAt, S
  <2>3. /\ ~ (p <= S) /\ ~ (p <= S + (U + 1))
        /\ p - S - (U + 1) = S
    BY <1>3, <1>10
  <2>. QED
    BY <1>4, <1>5, <2>1, <2>2, <2>3
<1>11. \A p \in S + 1 .. LineEnd + 1 : \A q \in 1 .. S :
         p - S + q - 1 \in 1 .. LineEnd
  BY <1>3
<1>12. \A p \in S + 1 .. LineEnd + 1 :
         Before(p)' = [q \in 1 .. S |-> LineAt(p - S + q - 1)]
  <2>. TAKE p \in S + 1 .. LineEnd + 1
  <2>1. PICK s : s = S
    OBVIOUS
  <2>2. Before(p)' = [q \in 1 .. s |-> LineAt(p - s + q - 1)']
    BY <1>3, <2>1 DEF Before, S
  <2>3. \A q \in 1 .. s : LineAt(p - s + q - 1)' = LineAt(p - s + q - 1)
    <3>. TAKE q \in 1 .. s
    <3>1. p - s + q - 1 \in 1 .. LineEnd
      BY <1>11, <2>1
    <3>. QED
      BY <1>8, <3>1
  <2>. QED
    BY <2>1, <2>2, <2>3
<1>13. ASSUME NEW p, p = LineEnd + 1
       PROVE  Before(p)' = scrReg
  <2>1. \A q \in 1 .. S : LineAt(p - S + q - 1) = scrReg[q]
    <3>. TAKE q \in 1 .. S
    <3>. DEFINE v == p - S + q - 1
    <3>1. v - S - U = q /\ ~ (v <= S) /\ ~ (v <= S + U)
      BY <1>3, <1>13
    <3>. HIDE DEF v
    <3>2. LineAt(v) = scrReg[v - S - U]
      BY <3>1 DEF LineAt, S, U
    <3>. QED
      BY <3>1, <3>2 DEF v
  <2>2. p \in S + 1 .. LineEnd + 1
    BY <1>3, <1>13
  <2>3. Before(p)' = [q \in 1 .. S |-> scrReg[q]]
    BY <1>12, <2>1, <2>2
  <2>4. scrReg \in [1 .. S -> Bit]
    BY WhiteFacts DEF S
  <2>. QED
    BY <2>3, <2>4
<1>14. \A p : Undamaged(p)' = Undamaged(p)
  BY <1>2, <1>3 DEF Undamaged, S, White!MinOf
<1>15. ASSUME NEW p \in S + 1 .. LineEnd + 1,
              ForAt(p)' # 2, Undamaged(p)'
       PROVE  LineAt(p)' = White!Plus(White!Parity(Before(p)'), ForAt(p)')
  <2>1. CASE p = LineEnd + 1
    BY <1>10, <1>13, <2>1 DEF new
  <2>2. CASE p \in S + 1 .. LineEnd
    <3>1. Before(p)' = Before(p)
      BY <1>12, <2>2 DEF Before, S
    <3>2. LineAt(p) = White!Plus(White!Parity(Before(p)), ForAt(p))
      BY <1>1, <1>9, <1>14, <1>15, <2>2 DEF OnLine, S
    <3>3. p \in 1 .. LineEnd
      BY <1>3, <2>2
    <3>. QED
      BY <1>8, <1>9, <2>2, <3>1, <3>2, <3>3
  <2>. QED
    BY <1>3, <2>1, <2>2
<1>16. \A p : White!Plus(White!Parity(Before(p)), ForAt(p))'
               = White!Plus(White!Parity(Before(p)'), ForAt(p)')
  BY <1>2, ParityStays DEF White!Plus
<1>. QED
  BY <1>3, <1>7, <1>15, <1>16 DEF OnLine, S

\* Behind a step that moves the line by d places and keeps the places from f
\* to e of it, the bits still hide what they stand for.
LEMMA LineKept ==
  ASSUME NEW d \in {0, 1}, NEW f \in Nat \ {0}, NEW e \in Nat,
         WhiteTypeOK, OnLine, config' = config,
         e + d <= LineEnd,
         \A p \in f .. e : LineAt(p)' = LineAt(p + d),
         \A p \in White!Stages + 1 .. e : ForAt(p)' = ForAt(p + d),
         \A p \in Nat : p > e /\ p <= LineEnd' => ForAt(p)' = 2,
         \A p \in White!Stages + 1 .. e :
           Undamaged(p)' => f <= p - White!Stages /\ Undamaged(p + d)
  PROVE  OnLine'
<1>1. PICK s : s = White!Stages /\ White!Stages' = s
  BY DEF White!Stages
<1>2. s \in Nat \ {0} /\ Len(underWay) \in Nat /\ LineEnd \in Nat
  BY <1>1, WhiteFacts DEF LineEnd
<1>3. SUFFICES ASSUME config.selfSync,
                      NEW p \in Nat, p >= s + 1, p <= LineEnd',
                      ForAt(p)' # 2, Undamaged(p)'
               PROVE  LineAt(p)'
                        = White!Plus(White!Parity(Before(p)), ForAt(p))'
  <2>1. \A p : p \in White!Stages' + 1 .. LineEnd' =>
                 p \in Nat /\ p >= s + 1 /\ p <= LineEnd'
    BY <1>1, <1>2
  <2>. QED
    BY <2>1 DEF OnLine
<1>4. p \in s + 1 .. e /\ p + d \in s + 1 .. LineEnd
  BY <1>2, <1>3
<1>5. f <= p - s /\ Undamaged(p + d) /\ ForAt(p)' = ForAt(p + d)
  BY <1>1, <1>3, <1>4
<1>6. \A v \in Nat : p - s <= v /\ v <= p => LineAt(v)' = LineAt(v + d)
  <2>1. \A v \in Nat : p - s <= v /\ v <= p => v \in f .. e
    BY <1>2, <1>4, <1>5
  <2>. QED
    BY <2>1
<1>7. Before(p)' = Before(p + d)
  <2>1. PICK v : v = p + d
    OBVIOUS
  <2>2. Before(p)' = [q \in 1 .. s |-> LineAt(p - s + q - 1)']
    BY <1>1 DEF Before
  <2>3. Before(v) = [q \in 1 .. s |-> LineAt(v - s + q - 1)]
    BY <1>1 DEF Before
  <2>4. \A q \in 1 .. s : LineAt(p - s + q - 1)' = LineAt(v - s + q - 1)
    <3>. TAKE q \in 1 .. s
    <3>1. /\ p - s + q - 1 \in Nat /\ p - s <= p - s + q - 1
          /\ p - s + q - 1 <= p
          /\ p - s + q - 1 + d = v - s + q - 1
      BY <1>2, <1>4, <1>5, <2>1
    <3>2. LineAt(p - s + q - 1)' = LineAt(p - s + q - 1 + d)
      BY <1>6, <3>1
    <3>. QED
      BY <3>1, <3>2
  <2>. QED
    BY <2>1, <2>2, <2>3, <2>4
<1>8. LineAt(p + d) = White!Plus(White!Parity(Before(p + d)), ForAt(p + d))
  BY <1>1, <1>3, <1>4, <1>5 DEF OnLine
<1>9. LineAt(p)' = LineAt(p + d)
  BY <1>2, <1>4, <1>6
<1>10. White!Plus(White!Parity(Before(p)), ForAt(p))'
         = White!Plus(White!Parity(Before(p)'), ForAt(p)')
  BY ParityStays DEF White!Plus
<1>. QED
  BY <1>5, <1>7, <1>8, <1>9, <1>10

\* The oldest bit under way is taken from the link: the line moves by a place.
LEMMA LineTaken ==
  ASSUME WhiteTypeOK, underWay # <<>>, underWay' = Tail(underWay),
         UNCHANGED <<config, scrReg, inReg>>
  PROVE  /\ Len(underWay) \in Nat \ {0} /\ Len(underWay') = Len(underWay) - 1
         /\ Head(underWay) = underWay[1] /\ Head(underWay) \in Sent
         /\ underWay' \in Seq(Sent)
         /\ \A k \in 1 .. Len(underWay') : underWay'[k] = underWay[k + 1]
         /\ LineEnd \in Nat \ {0} /\ LineEnd' = LineEnd - 1
         /\ \A p \in White!Stages + 1 .. LineEnd - 1 :
              LineAt(p)' = LineAt(p + 1) /\ ForAt(p)' = ForAt(p + 1)
<1>. DEFINE S == White!Stages
            U == Len(underWay)
<1>1. underWay \in Seq(Sent) /\ S \in Nat \ {0} /\ S' = S
  BY WhiteFacts DEF WhiteTypeOK, White!Stages
<1>2. U \in Nat \ {0}
  BY <1>1, EmptySeq, LenProperties
<1>3. /\ Len(underWay') = U - 1
      /\ Head(underWay) = underWay[1] /\ Head(underWay) \in Sent
      /\ underWay' \in Seq(Sent)
      /\ \A k \in 1 .. Len(underWay') : underWay'[k] = underWay[k + 1]
  BY <1>1, HeadTailProperties
<1>4. LineEnd \in Nat \ {0} /\ LineEnd = 2 * S + U
  BY <1>1, <1>2 DEF LineEnd
<1>. HIDE DEF S, U
<1>5. LineEnd' = LineEnd - 1
  <2>1. LineEnd' = 2 * S' + Len(underWay')
    BY DEF LineEnd, S
  <2>. QED
    BY <1>1, <1>2, <1>3, <1>4, <2>1
<1>6. ASSUME NEW p \in S + 1 .. LineEnd - 1
      PROVE  LineAt(p)' = LineAt(p + 1) /\ ForAt(p)' = ForAt(p + 1)
  <2>. DEFINE v == p + 1
  <2>0. v = p + 1
    OBVIOUS
  <2>. HIDE DEF v
  <2>1. /\ LineAt(v) = IF v <= S THEN desReg[v]
                       ELSE IF v <= S + U THEN underWay[v - S].bit
                       ELSE scrReg[v - S - U]
        /\ ForAt(v) = IF v <= S + U THEN underWay[v - S].for
                      ELSE inReg[v - S - U]
    BY DEF LineAt, ForAt, S, U
  <2>2. /\ LineAt(p)' = IF p <= S THEN desReg'[p]
                        ELSE IF p <= S + (U - 1) THEN underWay'[p - S].bit
                        ELSE scrReg[p - S - (U - 1)]
        /\ ForAt(p)' = IF p <= S + (U - 1) THEN underWay'[p - S].for
                       ELSE inReg[p - S - (U - 1)]
    BY <1>1, <1>3 DEF LineAt, ForAt, S
  <2>3. CASE p <= S + (U - 1)
    <3>1. /\ p - S \in 1 .. U - 1 /\ p - S + 1 = v - S
          /\ v <= S + U /\ ~ (p <= S) /\ ~ (v <= S)
      BY <1>1, <1>2, <1>4, <2>0, <2>3
    <3>2. underWay'[p - S] = underWay[v - S]
      BY <1>3, <3>1
    <3>3. LineAt(p)' = LineAt(v) /\ ForAt(p)' = ForAt(v)
      BY <2>1, <2>2, <2>3, <3>1, <3>2
    <3>. QED
      BY <2>0, <3>3
  <2>4. CASE ~ (p <= S + (U - 1))
    <3>1. /\ p - S - (U - 1) = v - S - U
          /\ ~ (v <= S + U) /\ ~ (p <= S) /\ ~ (v <= S)
      BY <1>1, <1>2, <1>4, <2>0, <2>4
    <3>2. LineAt(p)' = LineAt(v) /\ ForAt(p)' = ForAt(v)
      BY <2>1, <2>2, <2>4, <3>1
    <3>. QED
      BY <2>0, <3>2
  <2>. QED
    BY <2>3, <2>4
<1>. QED
  BY <1>2, <1>3, <1>4, <1>5, <1>6 DEF S, U

\* What Receive does to the descrambler and the link.
LEMMA ReceiveResult ==
  ASSUME BitPerOctet, WhiteTypeOK, NEW flip \in Bit, White!Receive(flip)
  PROVE  LET sent == Head(underWay)
             bit == White!Plus(sent.bit, flip)
             new == IF config.selfSync THEN bit ELSE White!Parity(desReg)
         IN  /\ underWay # <<>> /\ underWay' = Tail(underWay)
             /\ sent \in Sent /\ bit \in Bit /\ new \in Bit
             /\ desReg' = White!Shift(desReg, new)
             /\ desCount < MaxCount /\ desCount' = desCount + 1
             /\ whole' = IF flip = 1 THEN 0
                         ELSE White!MinOf(whole, White!Stages) + 1
             /\ last'.for = sent.for /\ last'.sent = sent.count - desCount
             /\ last'.out = IF config.selfSync
                              THEN White!Plus(White!Parity(desReg), bit)
                              ELSE White!Plus(Head(desReg), bit)
             /\ UNCHANGED <<config, scrReg, scrCount, inReg>>
<1>. DEFINE sent == Head(underWay)
            bit == White!Plus(sent.bit, flip)
            new == IF config.selfSync THEN bit ELSE White!Parity(desReg)
            out == IF config.selfSync
                     THEN White!Plus(White!Parity(desReg), bit)
                     ELSE White!Plus(Head(desReg), bit)
<1>1. underWay # <<>> /\ underWay \in Seq(Sent) /\ config \in WhiteningConfigs
  BY DEF White!Receive, WhiteTypeOK
<1>2. sent \in Sent
  BY <1>1, HeadTailProperties
<1>3. bit \in Bit
  <2>1. sent.bit \in Bit
    BY <1>2 DEF Sent
  <2>. QED
    BY <2>1, PlusProperties
<1>4. new \in Bit
  BY <1>1, <1>3, ParityBit
<1>5. config.selfSync \in BOOLEAN /\ config.octets \in BOOLEAN
      /\ ~ (config.selfSync /\ config.octets)
  BY <1>1, ConfigProperties DEF BitPerOctet
<1>. HIDE DEF bit
<1>6. White!Descramble(desReg, bit)
        = [out |-> out, reg |-> White!Shift(desReg, new)]
  BY <1>5, ThroughRegister
<1>7. /\ underWay' = Tail(underWay)
      /\ desCount < MaxCount /\ desCount' = desCount + 1
      /\ desReg' = White!Descramble(desReg, bit).reg
      /\ whole' = IF flip = 1 THEN 0
                  ELSE White!MinOf(whole, White!Stages) + 1
      /\ last' = [out |-> White!Descramble(desReg, bit).out,
                  for |-> sent.for, sent |-> sent.count - desCount]
      /\ UNCHANGED <<config, scrReg, scrCount, inReg>>
  BY DEF White!Receive, bit
<1>8. desReg' = White!Shift(desReg, new) /\ last'.out = out
      /\ last'.for = sent.for /\ last'.sent = sent.count - desCount
  BY <1>6, <1>7
<1>. QED
  BY <1>1, <1>2, <1>3, <1>4, <1>7, <1>8 DEF bit

\* A bit is received: the types.
LEMMA ReceiveTypes ==
  ASSUME BitPerOctet, WhiteTypeOK, NEW flip \in Bit, White!Receive(flip)
  PROVE  WhiteTypeOK'
<1>1. PICK new \in Bit :
        /\ underWay # <<>> /\ underWay' = Tail(underWay)
        /\ desReg' = White!Shift(desReg, new)
        /\ desCount < MaxCount /\ desCount' = desCount + 1
        /\ whole' = IF flip = 1 THEN 0
                    ELSE White!MinOf(whole, White!Stages) + 1
        /\ UNCHANGED <<config, scrReg, scrCount, inReg>>
  BY ReceiveResult
<1>2. /\ desReg \in Seq(Bit) /\ desReg # <<>> /\ Len(desReg) = White!Stages
      /\ White!Stages' = White!Stages /\ White!Stages \in Nat
      /\ desCount \in 0 .. MaxCount /\ MaxCount \in Nat /\ whole \in Nat
  BY <1>1, WhiteFacts DEF WhiteTypeOK, White!Stages
<1>3. desReg' \in Seq(Bit) /\ Len(desReg') = White!Stages
  BY <1>1, <1>2, ShiftProperties
<1>4. underWay' \in Seq(Sent)
  BY <1>1, LineTaken
<1>5. desCount' \in 0 .. MaxCount
  BY <1>1, <1>2
<1>6. whole' \in Nat
  BY <1>1, <1>2 DEF White!MinOf
<1>. QED
  BY <1>1, <1>2, <1>3, <1>4, <1>5, <1>6 DEF WhiteTypeOK

\* A bit is received without self synchronisation.
LEMMA ReceiveAlong ==
  ASSUME BitPerOctet, WhiteTypeOK, AlongOrbit, NEW flip \in Bit,
         White!Receive(flip)
  PROVE  AlongOrbit'
<1>1. SUFFICES ASSUME ~ config.selfSync
               PROVE  AlongOrbit'
  BY ReceiveResult DEF AlongOrbit
<1>2. PICK r : IsOrbit(r, MaxCount) /\ Along(r)
  BY <1>1 DEF AlongOrbit
<1>3. /\ underWay # <<>> /\ underWay' = Tail(underWay)
      /\ desReg' = White!Shift(desReg, White!Parity(desReg))
      /\ desCount < MaxCount /\ desCount' = desCount + 1
      /\ UNCHANGED <<config, scrReg, scrCount, inReg>>
  BY <1>1, ReceiveResult
<1>4. desCount \in 0 .. MaxCount - 1
  BY <1>3, WhiteFacts DEF WhiteTypeOK
<1>5. desReg' = r[desCount'] /\ scrReg' = r[scrCount']
  BY <1>2, <1>3, <1>4 DEF IsOrbit, Along
<1>6. \A k \in 1 .. Len(underWay') :
        /\ underWay'[k].for \in Bit
        /\ underWay'[k].bit =
             White!Plus(Head(r[underWay'[k].count]), underWay'[k].for)
  <2>. TAKE k \in 1 .. Len(underWay')
  <2>1. k + 1 \in 1 .. Len(underWay) /\ underWay'[k] = underWay[k + 1]
    BY <1>3, LineTaken
  <2>. QED
    BY <1>2, <2>1 DEF Along
<1>7. IsOrbit(r, MaxCount)'
  BY <1>2, <1>3 DEF IsOrbit, White!Shift, White!Parity
<1>8. Along(r)'
  BY <1>5, <1>6 DEF Along
<1>. QED
  BY <1>7, <1>8 DEF AlongOrbit

\* A bit is received: what came whole in front of it goes on.
LEMMA ReceiveOnLine ==
  ASSUME BitPerOctet, WhiteTypeOK, OnLine, NEW flip \in Bit,
         White!Receive(flip)
  PROVE  OnLine'
<1>1. SUFFICES ASSUME config.selfSync
               PROVE  OnLine'
  BY ReceiveResult DEF OnLine
<1>. DEFINE bit == White!Plus(underWay[1].bit, flip)
<1>2. /\ underWay # <<>> /\ underWay' = Tail(underWay)
      /\ desReg' = White!Shift(desReg, bit) /\ bit \in Bit
      /\ whole' = IF flip = 1 THEN 0
                  ELSE White!MinOf(whole, White!Stages) + 1
      /\ UNCHANGED <<config, scrReg, inReg>>
  <2>1. underWay # <<>> /\ underWay \in Seq(Sent)
    BY ReceiveResult DEF WhiteTypeOK
  <2>2. Head(underWay) = underWay[1]
    BY <2>1
  <2>. QED
    BY <1>1, <2>2, ReceiveResult
<1>3. PICK s : s = White!Stages /\ White!Stages' = s
  BY <1>2 DEF White!Stages
<1>4. PICK e : e = LineEnd - 1
  OBVIOUS
<1>5. /\ s \in Nat \ {0} /\ e \in Nat /\ e + 1 <= LineEnd /\ LineEnd' = e
      /\ s < LineEnd /\ whole \in Nat
  BY <1>2, <1>3, <1>4, WhiteFacts, LineTaken DEF LineEnd, WhiteTypeOK
<1>6. \A p \in s + 1 .. e :
        LineAt(p)' = LineAt(p + 1) /\ ForAt(p)' = ForAt(p + 1)
  BY <1>2, <1>3, <1>4, LineTaken
<1>7. \A p \in Nat : p > e /\ p <= LineEnd' => ForAt(p)' = 2
  BY <1>5
<1>8. CASE flip = 1
  <2>1. \A p \in s + 1 .. e :
          Undamaged(p)' => s + 1 <= p - s /\ Undamaged(p + 1)
    BY <1>2, <1>3, <1>5, <1>8 DEF Undamaged, White!MinOf
  <2>2. s + 1 \in Nat \ {0} /\ 1 \in {0, 1}
    BY <1>5
  <2>. QED
    BY <1>2, <1>3, <1>5, <1>6, <1>7, <2>1, <2>2, LineKept
<1>9. CASE flip = 0
  <2>1. \A p \in s + 1 .. e :
          Undamaged(p)' => 1 <= p - s /\ Undamaged(p + 1)
    BY <1>2, <1>3, <1>5, <1>9 DEF Undamaged, White!MinOf
  <2>2. \A p \in 1 .. e : LineAt(p)' = LineAt(p + 1)
    <3>. TAKE p \in 1 .. e
    <3>1. CASE p > s
      BY <1>5, <1>6, <3>1
    <3>2. CASE p <= s
      <4>1. LineAt(p)' = desReg'[p]
        BY <1>3, <3>2 DEF LineAt
      <4>2. /\ \A q \in 1 .. s - 1 : desReg'[q] = desReg[q + 1]
            /\ desReg'[s] = bit
        <5>1. /\ desReg \in Seq(Bit) /\ desReg # <<>> /\ s = Len(desReg)
              /\ bit \in Bit
          BY <1>2, <1>3, WhiteFacts DEF WhiteTypeOK
        <5>. HIDE DEF bit
        <5>2. /\ \A q \in 1 .. s - 1 :
                   White!Shift(desReg, bit)[q] = desReg[q + 1]
              /\ White!Shift(desReg, bit)[s] = bit
          BY <5>1, ShiftPlaces
        <5>. QED
          BY <1>2, <5>2
      <4>3. CASE p = s
        <5>1. PICK v : v = p + 1
          OBVIOUS
        <5>2. /\ ~ (v <= s) /\ v <= s + Len(underWay) /\ v - s = 1
          BY <1>2, <1>5, <4>3, <5>1, LineTaken
        <5>3. LineAt(v) = underWay[1].bit
          BY <1>3, <5>2 DEF LineAt
        <5>4. bit = underWay[1].bit
          <6>1. underWay[1].bit \in Bit
            BY <1>2, LineTaken DEF Sent
          <6>. QED
            BY <1>9, <6>1, PlusProperties
        <5>. QED
          BY <4>1, <4>2, <4>3, <5>1, <5>3, <5>4
      <4>4. CASE p < s
        <5>1. PICK v : v = p + 1
          OBVIOUS
        <5>2. v <= s /\ p \in 1 .. s - 1
          BY <1>5, <4>4, <5>1
        <5>3. LineAt(v) = desReg[v]
          BY <1>3, <5>2 DEF LineAt
        <5>. QED
          BY <4>1, <4>2, <5>1, <5>2, <5>3
      <4>. QED
        BY <1>5, <3>2, <4>3, <4>4
    <3>. QED
      BY <1>5, <3>1, <3>2
  <2>3. 1 \in Nat \ {0} /\ 1 \in {0, 1}
    OBVIOUS
  <2>. QED
    BY <1>2, <1>3, <1>5, <1>6, <1>7, <2>1, <2>2, <2>3, LineKept
<1>. QED
  BY <1>8, <1>9 DEF Bit

\* The bit out of the descrambler is the one that was meant.
LEMMA ReceiveRight ==
  ASSUME BitPerOctet, WhiteInv, NEW flip \in Bit, White!Receive(flip)
  PROVE  White!DescramblerRecovers'
<1>. DEFINE sent == underWay[1]
<1>1. WhiteTypeOK /\ AlongOrbit /\ OnLine
  BY DEF WhiteInv
<1>2. /\ underWay # <<>> /\ underWay' = Tail(underWay)
      /\ whole' = IF flip = 1 THEN 0
                  ELSE White!MinOf(whole, White!Stages) + 1
      /\ last'.for = sent.for /\ last'.sent = sent.count - desCount
      /\ last'.out = IF config.selfSync
                       THEN White!Plus(White!Parity(desReg),
                                       White!Plus(sent.bit, flip))
                       ELSE White!Plus(Head(desReg), White!Plus(sent.bit, flip))
      /\ UNCHANGED <<config, scrReg, inReg>>
  <2>1. underWay # <<>> /\ underWay \in Seq(Sent)
    BY <1>1, ReceiveResult DEF WhiteTypeOK
  <2>2. Head(underWay) = sent
    BY <2>1
  <2>. QED
    BY <1>1, <2>2, ReceiveResult
<1>3. Len(underWay) \in Nat \ {0} /\ sent \in Sent
  BY <1>1, <1>2, LineTaken
<1>4. PICK s : s = White!Stages /\ White!Stages' = s
  BY <1>2 DEF White!Stages
<1>5. s \in Nat \ {0} /\ whole \in Nat /\ config.selfSync \in BOOLEAN
  BY <1>1, <1>4, WhiteFacts DEF WhiteTypeOK
<1>6. SUFFICES ASSUME sent.for # 2,
                      whole' > (IF config.selfSync THEN s ELSE 0),
                      config.selfSync \/ sent.count - desCount = 0
               PROVE  last'.out = sent.for
  BY <1>2, <1>4, <1>5 DEF White!DescramblerRecovers
<1>7. sent.for \in Bit /\ sent.bit \in Bit /\ sent.count \in Nat
  BY <1>3, <1>6 DEF Sent, Meant, Bit
<1>8. flip = 0 /\ White!Plus(sent.bit, flip) = sent.bit
  <2>1. flip # 1
    BY <1>2, <1>5, <1>6
  <2>. QED
    BY <1>7, <2>1, PlusProperties DEF Bit
<1>9. CASE config.selfSync
  <2>1. White!MinOf(whole, s) = s
    BY <1>2, <1>4, <1>5, <1>6, <1>8, <1>9 DEF White!MinOf
  <2>2. PICK p : p = s + 1
    OBVIOUS
  <2>3. /\ p \in s + 1 .. LineEnd /\ Undamaged(p)
        /\ ~ (p <= s) /\ p <= s + Len(underWay) /\ p - s = 1
    BY <1>3, <1>4, <1>5, <2>1, <2>2 DEF LineEnd, Undamaged
  <2>4. LineAt(p) = sent.bit /\ ForAt(p) = sent.for
    BY <1>4, <2>3 DEF LineAt, ForAt
  <2>5. Before(p) = desReg
    <3>1. Before(p) = [q \in 1 .. s |-> LineAt(p - s + q - 1)]
      BY <1>4 DEF Before
    <3>2. \A q \in 1 .. s : LineAt(p - s + q - 1) = desReg[q]
      <4>. TAKE q \in 1 .. s
      <4>1. p - s + q - 1 = q /\ q <= s
        BY <1>5, <2>2
      <4>2. LineAt(q) = desReg[q]
        BY <1>4, <4>1 DEF LineAt
      <4>. QED
        BY <4>1, <4>2
    <3>3. desReg \in [1 .. s -> Bit]
      BY <1>1, <1>4, WhiteFacts
    <3>. QED
      BY <3>1, <3>2, <3>3
  <2>6. sent.bit = White!Plus(White!Parity(desReg), sent.for)
    BY <1>1, <1>4, <1>6, <1>9, <2>3, <2>4, <2>5 DEF OnLine
  <2>7. White!Parity(desReg) \in Bit
    BY <1>1, ParityBit DEF WhiteTypeOK
  <2>8. last'.out = White!Plus(White!Parity(desReg), sent.bit)
    BY <1>2, <1>8, <1>9
  <2>9. White!Plus(White!Parity(desReg),
                    White!Plus(White!Parity(desReg), sent.for)) = sent.for
    BY <1>7, <2>7, PlusProperties
  <2>. QED
    BY <2>6, <2>8, <2>9
<1>10. CASE ~ config.selfSync
  <2>1. PICK r : Along(r)
    BY <1>1, <1>10 DEF AlongOrbit
  <2>2. desCount \in Nat
    BY <1>1 DEF WhiteTypeOK
  <2>3. sent.count = desCount
    BY <1>6, <1>7, <1>10, <2>2
  <2>4. sent.bit = White!Plus(Head(desReg), sent.for)
    <3>1. 1 \in 1 .. Len(underWay)
      BY <1>3
    <3>. QED
      BY <2>1, <2>3, <3>1 DEF Along
  <2>5. Head(desReg) \in Bit
    BY <1>1, WhiteFacts, HeadTailProperties DEF WhiteTypeOK
  <2>6. last'.out = White!Plus(Head(desReg), sent.bit)
    BY <1>2, <1>8, <1>10
  <2>7. White!Plus(Head(desReg), White!Plus(Head(desReg), sent.for)) = sent.for
    BY <1>7, <2>5, PlusProperties
  <2>. QED
    BY <2>4, <2>6, <2>7
<1>. QED
  BY <1>9, <1>10

\* A bit is lost: what comes behind it is not whole any more.
LEMMA LoseKeepsInv == ASSUME WhiteInv, White!Lose PROVE WhiteInv'
<1>1. WhiteTypeOK /\ AlongOrbit /\ OnLine /\ White!DescramblerRecovers
  BY DEF WhiteInv
<1>2. /\ underWay # <<>> /\ underWay' = Tail(underWay) /\ whole' = 0
      /\ UNCHANGED <<config, scrReg, desReg, scrCount, desCount, inReg, last>>
  BY DEF White!Lose
<1>3. PICK s : s = White!Stages /\ White!Stages' = s
  BY <1>2 DEF White!Stages
<1>4. PICK e : e = LineEnd - 1
  OBVIOUS
<1>5. /\ s \in Nat \ {0} /\ e \in Nat /\ e + 1 <= LineEnd /\ LineEnd' = e
      /\ whole \in Nat
  BY <1>1, <1>2, <1>3, <1>4, WhiteFacts, LineTaken DEF LineEnd, WhiteTypeOK
<1>6. WhiteTypeOK'
  <2>1. underWay' \in Seq(Sent)
    BY <1>1, <1>2, LineTaken
  <2>. QED
    BY <1>1, <1>2, <1>3, <2>1 DEF WhiteTypeOK
<1>7. AlongOrbit'
  <2>1. SUFFICES ASSUME ~ config.selfSync
                 PROVE  AlongOrbit'
    BY <1>2 DEF AlongOrbit
  <2>2. PICK r : IsOrbit(r, MaxCount) /\ Along(r)
    BY <1>1, <2>1 DEF AlongOrbit
  <2>3. \A k \in 1 .. Len(underWay') :
          k + 1 \in 1 .. Len(underWay) /\ underWay'[k] = underWay[k + 1]
    BY <1>1, <1>2, LineTaken
  <2>4. IsOrbit(r, MaxCount)'
    BY <1>2, <2>2 DEF IsOrbit, White!Shift, White!Parity
  <2>5. Along(r)'
    BY <1>2, <2>2, <2>3 DEF Along
  <2>. QED
    BY <2>4, <2>5 DEF AlongOrbit
<1>8. OnLine'
  <2>1. \A p \in s + 1 .. e :
          LineAt(p)' = LineAt(p + 1) /\ ForAt(p)' = ForAt(p + 1)
    BY <1>1, <1>2, <1>3, <1>4, LineTaken
  <2>2. \A p \in s + 1 .. e :
          Undamaged(p)' => s + 1 <= p - s /\ Undamaged(p + 1)
    BY <1>2, <1>3, <1>5 DEF Undamaged, White!MinOf
  <2>3. \A p \in Nat : p > e /\ p <= LineEnd' => ForAt(p)' = 2
    BY <1>5
  <2>4. s + 1 \in Nat \ {0} /\ 1 \in {0, 1}
    BY <1>5
  <2>. QED
    BY <1>1, <1>2, <1>3, <1>5, <2>1, <2>2, <2>3, <2>4, LineKept
<1>9. White!DescramblerRecovers'
  BY <1>2, <1>3, <1>5 DEF White!DescramblerRecovers
<1>. QED
  BY <1>6, <1>7, <1>8, <1>9 DEF WhiteInv

\* The descrambler is reset.
LEMMA ResetDescramblerKeepsInv ==
  ASSUME WhiteInv, White!ResetDescrambler PROVE WhiteInv'
<1>1. WhiteTypeOK /\ AlongOrbit /\ OnLine /\ White!DescramblerRecovers
  BY DEF WhiteInv
<1>2. /\ desReg' = config.seed /\ desCount' = 0 /\ whole' = 0
      /\ UNCHANGED <<config, scrReg, scrCount, inReg, underWay, last>>
  BY DEF White!ResetDescrambler
<1>3. PICK s : s = White!Stages /\ White!Stages' = s
  BY <1>2 DEF White!Stages
<1>4. PICK e : e = LineEnd
  OBVIOUS
<1>5. /\ s \in Nat \ {0} /\ e \in Nat /\ LineEnd' = e
      /\ whole \in Nat /\ MaxCount \in Nat
  BY <1>1, <1>2, <1>3, <1>4, WhiteFacts DEF LineEnd, WhiteTypeOK
<1>6. WhiteTypeOK'
  <2>1. desReg' \in Seq(Bit) /\ Len(desReg') = s
    BY <1>1, <1>2, <1>3, WhiteFacts
  <2>. QED
    BY <1>1, <1>2, <1>3, <1>5, <2>1 DEF WhiteTypeOK
<1>7. AlongOrbit'
  <2>1. SUFFICES ASSUME ~ config.selfSync
                 PROVE  AlongOrbit'
    BY <1>2 DEF AlongOrbit
  <2>2. PICK r : IsOrbit(r, MaxCount) /\ Along(r)
    BY <1>1, <2>1 DEF AlongOrbit
  <2>3. IsOrbit(r, MaxCount)'
    BY <1>2, <2>2 DEF IsOrbit, White!Shift, White!Parity
  <2>4. Along(r)'
    BY <1>2, <2>2 DEF Along, IsOrbit
  <2>. QED
    BY <2>3, <2>4 DEF AlongOrbit
<1>8. OnLine'
  <2>1. \A p \in s + 1 .. e :
          LineAt(p)' = LineAt(p + 0) /\ ForAt(p)' = ForAt(p + 0)
    <3>. TAKE p \in s + 1 .. e
    <3>1. p + 0 = p /\ ~ (p <= s)
      BY <1>5
    <3>2. LineAt(p)' = LineAt(p) /\ ForAt(p)' = ForAt(p)
      BY <1>2, <1>3, <3>1 DEF LineAt, ForAt
    <3>. QED
      BY <3>1, <3>2
  <2>2. \A p \in s + 1 .. e :
          Undamaged(p)' => s + 1 <= p - s /\ Undamaged(p + 0)
    BY <1>2, <1>3, <1>5 DEF Undamaged, White!MinOf
  <2>3. \A p \in Nat : p > e /\ p <= LineEnd' => ForAt(p)' = 2
    BY <1>5
  <2>4. s + 1 \in Nat \ {0} /\ 0 \in {0, 1} /\ e + 0 <= LineEnd
    BY <1>4, <1>5
  <2>. QED
    BY <1>1, <1>2, <1>3, <1>5, <2>1, <2>2, <2>3, <2>4, LineKept
<1>9. White!DescramblerRecovers'
  BY <1>2, <1>3, <1>5 DEF White!DescramblerRecovers
<1>. QED
  BY <1>6, <1>7, <1>8, <1>9 DEF WhiteInv

\* The scrambler is reset: what is in it then stands for nothing.
LEMMA ResetScramblerKeepsInv ==
  ASSUME WhiteInv, White!ResetScrambler PROVE WhiteInv'
<1>1. WhiteTypeOK /\ AlongOrbit /\ OnLine /\ White!DescramblerRecovers
  BY DEF WhiteInv
<1>2. /\ scrReg' = config.seed /\ scrCount' = 0
      /\ inReg' = [p \in 1 .. White!Stages |-> 2]
      /\ UNCHANGED <<config, desReg, desCount, underWay, whole, last>>
  BY DEF White!ResetScrambler
<1>3. PICK s : s = White!Stages /\ White!Stages' = s
  BY <1>2 DEF White!Stages
<1>4. PICK e : e = s + Len(underWay)
  OBVIOUS
<1>5. /\ s \in Nat \ {0} /\ e \in Nat /\ e <= LineEnd /\ LineEnd' = e + s
      /\ whole \in Nat /\ MaxCount \in Nat
  BY <1>1, <1>2, <1>3, <1>4, WhiteFacts DEF LineEnd, WhiteTypeOK
<1>6. WhiteTypeOK'
  <2>1. scrReg' \in Seq(Bit) /\ Len(scrReg') = s
    BY <1>1, <1>2, <1>3, WhiteFacts
  <2>2. inReg' \in Seq(Meant) /\ Len(inReg') = s
    <3>1. inReg' \in [1 .. s -> Meant]
      BY <1>2, <1>3 DEF Meant
    <3>. QED
      BY <1>5, <3>1, FunctionSequence
  <2>. QED
    BY <1>1, <1>2, <1>3, <1>5, <2>1, <2>2 DEF WhiteTypeOK
<1>7. AlongOrbit'
  <2>1. SUFFICES ASSUME ~ config.selfSync
                 PROVE  AlongOrbit'
    BY <1>2 DEF AlongOrbit
  <2>2. PICK r : IsOrbit(r, MaxCount) /\ Along(r)
    BY <1>1, <2>1 DEF AlongOrbit
  <2>3. IsOrbit(r, MaxCount)'
    BY <1>2, <2>2 DEF IsOrbit, White!Shift, White!Parity
  <2>4. Along(r)'
    BY <1>2, <2>2 DEF Along, IsOrbit
  <2>. QED
    BY <2>3, <2>4 DEF AlongOrbit
<1>8. OnLine'
  <2>1. \A p \in 1 .. e : LineAt(p)' = LineAt(p + 0)
    <3>. TAKE p \in 1 .. e
    <3>1. p + 0 = p /\ p <= s + Len(underWay)
      BY <1>4, <1>5
    <3>2. LineAt(p)' = LineAt(p)
      BY <1>2, <1>3, <3>1 DEF LineAt
    <3>. QED
      BY <3>1, <3>2
  <2>2. \A p \in s + 1 .. e : ForAt(p)' = ForAt(p + 0)
    <3>. TAKE p \in s + 1 .. e
    <3>1. p + 0 = p /\ p <= s + Len(underWay)
      BY <1>4, <1>5
    <3>2. ForAt(p)' = ForAt(p)
      BY <1>2, <1>3, <3>1 DEF ForAt
    <3>. QED
      BY <3>1, <3>2
  <2>3. \A p \in Nat : p > e /\ p <= LineEnd' => ForAt(p)' = 2
    <3>. SUFFICES ASSUME NEW p \in Nat, p > e, p <= LineEnd'
                  PROVE  ForAt(p)' = 2
      OBVIOUS
    <3>1. /\ ~ (p <= s + Len(underWay)) /\ p - s - Len(underWay) \in 1 .. s
      BY <1>1, <1>4, <1>5, WhiteFacts
    <3>2. ForAt(p)' = inReg'[p - s - Len(underWay)]
      BY <1>2, <1>3, <3>1 DEF ForAt
    <3>. QED
      BY <1>2, <1>3, <3>1, <3>2
  <2>4. \A p \in s + 1 .. e :
          Undamaged(p)' => 1 <= p - s /\ Undamaged(p + 0)
    BY <1>2, <1>3, <1>5 DEF Undamaged, White!MinOf
  <2>5. 1 \in Nat \ {0} /\ 0 \in {0, 1} /\ e + 0 <= LineEnd
    BY <1>5
  <2>. QED
    BY <1>1, <1>2, <1>3, <1>5, <2>1, <2>2, <2>3, <2>4, <2>5, LineKept
<1>9. White!DescramblerRecovers'
  BY <1>1, <1>2, <1>3 DEF White!DescramblerRecovers
<1>. QED
  BY <1>6, <1>7, <1>8, <1>9 DEF WhiteInv

\* Every step keeps the invariant.
LEMMA WhiteNextInv ==
  ASSUME BitPerOctet, WhiteInv, White!Next PROVE WhiteInv'
<1>1. WhiteTypeOK /\ AlongOrbit /\ OnLine /\ White!DescramblerRecovers
  BY DEF WhiteInv
<1>2. ASSUME NEW bit \in Bit, White!Send(bit) PROVE WhiteInv'
  <2>1. UNCHANGED <<config, whole, last>>
    BY <1>2 DEF White!Send
  <2>2. White!DescramblerRecovers'
    BY <1>1, <2>1 DEF White!DescramblerRecovers, White!Stages
  <2>. QED
    BY <1>1, <1>2, <2>2, SendTypes, SendAlong, SendOnLine DEF WhiteInv
<1>3. ASSUME NEW bit \in Bit, White!Receive(bit) PROVE WhiteInv'
  BY <1>1, <1>3, ReceiveTypes, ReceiveAlong, ReceiveOnLine, ReceiveRight
  DEF WhiteInv
<1>. QED
  BY <1>2, <1>3, LoseKeepsInv, ResetScramblerKeepsInv, ResetDescramblerKeepsInv
  DEF White!Next, Bit

\* The invariant says nothing but about the variables of the whitening.
LEMMA WhiteStutterInv ==
  ASSUME WhiteInv, UNCHANGED whiteningVars PROVE WhiteInv'
<1>1. WhiteTypeOK /\ AlongOrbit /\ OnLine /\ White!DescramblerRecovers
  BY DEF WhiteInv
<1>2. UNCHANGED <<config, scrReg, desReg, scrCount, desCount, inReg, underWay,
                  whole, last>>
  BY DEF whiteningVars
<1>3. PICK s : s = White!Stages /\ White!Stages' = s
  BY <1>2 DEF White!Stages
<1>4. WhiteTypeOK' /\ White!DescramblerRecovers'
  BY <1>1, <1>2, <1>3 DEF WhiteTypeOK, White!DescramblerRecovers
<1>5. AlongOrbit'
  <2>1. \A r : IsOrbit(r, MaxCount)' = IsOrbit(r, MaxCount)
    BY <1>2 DEF IsOrbit, White!Shift, White!Parity
  <2>2. \A r : Along(r)' = Along(r)
    BY <1>2 DEF Along
  <2>. QED
    BY <1>1, <1>2, <2>1, <2>2 DEF AlongOrbit
<1>6. OnLine'
  <2>1. PICK e : e = LineEnd /\ LineEnd' = e
    BY <1>2, <1>3 DEF LineEnd
  <2>2. e \in Nat /\ s \in Nat
    BY <1>1, <1>3, <2>1, WhiteFacts DEF LineEnd
  <2>3. \A p : LineAt(p)' = LineAt(p) /\ ForAt(p)' = ForAt(p)
    BY <1>2, <1>3 DEF LineAt, ForAt
  <2>4. \A p : Undamaged(p)' = Undamaged(p)
    BY <1>2, <1>3 DEF Undamaged
  <2>5. \A p \in Nat : p + 0 = p
    OBVIOUS
  <2>6. /\ \A p \in 1 .. e : LineAt(p)' = LineAt(p + 0)
        /\ \A p \in s + 1 .. e : ForAt(p)' = ForAt(p + 0)
        /\ \A p \in s + 1 .. e :
             Undamaged(p)' => 1 <= p - s /\ Undamaged(p + 0)
    BY <2>2, <2>3, <2>4, <2>5
  <2>7. \A p \in Nat : p > e /\ p <= LineEnd' => ForAt(p)' = 2
    BY <2>1, <2>2
  <2>8. 1 \in Nat \ {0} /\ 0 \in {0, 1} /\ e + 0 <= LineEnd
    BY <2>1, <2>2
  <2>. QED
    BY <1>1, <1>2, <1>3, <2>2, <2>6, <2>7, <2>8, LineKept
<1>. QED
  BY <1>4, <1>5, <1>6 DEF WhiteInv

\* A step of the other blocks leaves the whitening alone.
LEMMA WhiteSteps == [Next]_vars => White!Next \/ UNCHANGED whiteningVars
BY DEF Next, vars, LrptStep, BerStep, RecorderStep, GolayStep, WhiteStep,
       EncoderStep

\* whitening, of every register, mask and seed and every mode but octets with
\* self synchronisation, where the code is wrong: with self synchronisation the
\* descrambler is right again after as many whole bits as there are stages,
\* whatever was lost or reset at either end; without, as long as both have had
\* as many bits since they were reset.
THEOREM DescramblerIsRight ==
  ASSUME BitPerOctet
  PROVE  Spec => []DescramblerRecovers
<1>1. Init => WhiteInv
  BY WhiteInitInv DEF Init
<1>2. WhiteInv /\ [Next]_vars => WhiteInv'
  <2>1. WhiteInv /\ White!Next => WhiteInv'
    BY WhiteNextInv
  <2>2. WhiteInv /\ UNCHANGED whiteningVars => WhiteInv'
    BY WhiteStutterInv
  <2>. QED
    BY <2>1, <2>2, WhiteSteps
<1>3. WhiteInv => DescramblerRecovers
  BY DEF WhiteInv, DescramblerRecovers
<1>. QED
  BY <1>1, <1>2, <1>3, PTL DEF Spec

-----------------------------------------------------------------------------
(***************************************************************************)
(* The AX.25 encoder and the receiver behind it.  A frame is carried along: *)
(* where its bits are among those that are put together, among those that  *)
(* leave the scrambler, as levels on the line, and among those received.   *)
(***************************************************************************)

\* The framing that the encoder uses is the one the lemmas are about.
LEMMA SameFraming ==
  /\ Encoder!Bit = Bit /\ Encoder!Byte = Byte /\ Encoder!Flag = Flag
  /\ \A octets : Encoder!BitsOf(octets) = BitsOf(octets)
  /\ \A bits : Encoder!Stuff(bits) = Stuff(bits)
  /\ \A bits : Encoder!FramesIn(bits) = FramesIn(bits)
<1>1. Encoder!Bit = Bit /\ Encoder!Byte = Byte /\ Encoder!Flag = Flag
  BY DEF Encoder!Bit, Bit, Encoder!Byte, Byte, Encoder!Flag, Flag
<1>2. \A b : Encoder!ByteBits(b) = ByteBits(b)
  BY DEF Encoder!ByteBits, ByteBits, Encoder!PlaceValues, PlaceValues
<1>3. \A octets : Encoder!BitsOf(octets) = BitsOf(octets)
  BY <1>2 DEF Encoder!BitsOf, BitsOf
<1>4. \A bits : Encoder!Stuff(bits) = Stuff(bits)
  BY DEF Encoder!Stuff, Stuff, Encoder!Stuffing, Stuffing,
         Encoder!StuffStep, StuffStep
<1>5. \A bits : Encoder!Unstuff(bits) = Unstuff(bits)
  BY DEF Encoder!Unstuff, Unstuff, Encoder!Unstuffing, Unstuffing,
         Encoder!UnstuffStep, UnstuffStep
<1>6. \A bits : Encoder!BytesOf(bits) = BytesOf(bits)
  BY DEF Encoder!BytesOf, BytesOf, Encoder!ByteOf, ByteOf
<1>7. \A bits : Encoder!FlagsIn(bits) = FlagsIn(bits)
  BY <1>1 DEF Encoder!FlagsIn, FlagsIn
<1>8. \A bits : Encoder!FramesIn(bits) = FramesIn(bits)
  BY <1>4, <1>5, <1>6, <1>7 DEF Encoder!FramesIn, FramesIn
<1>. QED
  BY <1>1, <1>3, <1>4, <1>8

\* So many flags: the first and the last of them.
LEMMA FlagsProperties ==
  ASSUME NEW n \in Nat
  PROVE  /\ Encoder!Flags(n) \in Seq(Bit)
         /\ Len(Encoder!Flags(n)) = 8 * n
         /\ n >= 1 => /\ HasAt(Encoder!Flags(n), 0, Flag)
                      /\ HasAt(Encoder!Flags(n), 8 * n - 8, Flag)
<1>1. PICK flags : flags = Encoder!Flags(n)
  OBVIOUS
<1>2. flags = [k \in 1 .. 8 * n |-> Flag[((k - 1) % 8) + 1]]
  BY <1>1, SameFraming DEF Encoder!Flags
<1>3. \A k \in 1 .. 8 : Flag[k] \in Bit
  BY FlagLayout, ElementOfSeq
<1>4. ASSUME NEW k \in 1 .. 8 * n
      PROVE  ((k - 1) % 8) + 1 \in 1 .. 8
  OBVIOUS
<1>5. flags \in [1 .. 8 * n -> Bit]
  BY <1>2, <1>3, <1>4
<1>6. flags \in Seq(Bit) /\ Len(flags) = 8 * n
  <2>1. 8 * n \in Nat
    OBVIOUS
  <2>. QED
    BY <1>5, <2>1, FunctionSequence
<1>7. ASSUME NEW m \in 0 .. n - 1
      PROVE  HasAt(flags, 8 * m, Flag)
  <2>1. 8 * m \in Nat /\ 8 * m + 8 <= 8 * n
    OBVIOUS
  <2>2. ASSUME NEW k \in 1 .. 8
        PROVE  flags[8 * m + k] = Flag[k]
    <3>1. 8 * m + k \in 1 .. 8 * n
      OBVIOUS
    <3>2. ((8 * m + k - 1) % 8) + 1 = k
      OBVIOUS
    <3>. QED
      BY <1>2, <3>1, <3>2
  <2>. QED
    BY <1>6, <2>1, <2>2, FlagLayout DEF HasAt
<1>8. ASSUME n >= 1
      PROVE  HasAt(flags, 0, Flag) /\ HasAt(flags, 8 * n - 8, Flag)
  <2>1. 0 \in 0 .. n - 1 /\ n - 1 \in 0 .. n - 1 /\ 8 * 0 = 0 /\ 8 * (n - 1) = 8 * n - 8
    BY <1>8
  <2>2. HasAt(flags, 8 * 0, Flag) /\ HasAt(flags, 8 * (n - 1), Flag)
    BY <1>7, <2>1
  <2>. QED
    BY <2>1, <2>2
<1>. QED
  BY <1>1, <1>6, <1>8

LEMMA ZerosProperties ==
  ASSUME NEW n \in Nat
  PROVE  Encoder!Zeros(n) \in Seq(Bit)
<1>1. Encoder!Zeros(n) \in [1 .. n -> Bit]
  BY DEF Encoder!Zeros, Bit
<1>. QED
  BY <1>1, FunctionSequence

\* The octets that are framed.
LEMMA ContentsType ==
  ASSUME NEW pdu \in EncPdus
  PROVE  Encoder!Contents(pdu) \in Seq(Byte)
<1>1. /\ Header \in Seq(Byte) /\ pdu \in Seq(Byte)
      /\ EncCrc(Header \o pdu) \in Seq(Byte)
  BY ArgumentsAssumption, SameFraming DEF ArgumentsAssumption, Encoder!Arguments
<1>. QED
  BY <1>1, ConcatProperties DEF Encoder!Contents

\* What is put in front of the line: flags, stuffed octets, flags and zeros.
LEMMA PduLayout ==
  ASSUME encConf \in EncConfigs, NEW pdu \in EncPdus,
         encConf.preamble >= 1, encConf.postamble >= 1,
         NEW body, body = Stuff(BitsOf(Encoder!Contents(pdu))),
         NEW e, e = 8 * encConf.preamble
  PROVE  /\ Encoder!Ax25Pdu(pdu) \in Seq(Bit)
         /\ Len(Encoder!Ax25Pdu(pdu)) \in Nat
         /\ Len(Encoder!Ax25Pdu(pdu)) >= e + Len(body) + 8 * encConf.postamble
         /\ e \in Nat /\ Len(body) \in Nat
         /\ HasAt(Encoder!Ax25Pdu(pdu), e - 8, Flag)
         /\ HasAt(Encoder!Ax25Pdu(pdu), e, body)
         /\ HasAt(Encoder!Ax25Pdu(pdu), e + Len(body), Flag)
<1>1. encConf.preamble \in Nat /\ encConf.postamble \in Nat
  BY ArgumentsAssumption DEF ArgumentsAssumption, Encoder!Arguments
<1>2. body \in Seq(Bit) /\ Len(body) \in Nat
  BY ContentsType, BitsOfProperties, StuffingType, LenProperties
     DEF StuffLine, Stuff
<1>3. PICK head \in Seq(Bit), tail \in Seq(Bit) :
        /\ head = Encoder!Flags(encConf.preamble) /\ Len(head) = e
        /\ tail = Encoder!Flags(encConf.postamble)
        /\ Len(tail) = 8 * encConf.postamble
        /\ HasAt(head, e - 8, Flag)
        /\ HasAt(tail, 0, Flag)
  BY <1>1, FlagsProperties
<1>4. PICK front \in Seq(Bit) : front = head \o body
  BY <1>2, ConcatProperties
<1>5. PICK bits \in Seq(Bit) : bits = front \o tail
  BY ConcatProperties
<1>6. e \in Nat /\ Len(front) = e + Len(body) /\ Len(front) \in Nat
  BY <1>1, <1>2, <1>3, <1>4, ConcatProperties
<1>7. Len(bits) = e + Len(body) + 8 * encConf.postamble /\ Len(bits) \in Nat
  <2>1. Len(bits) = Len(front) + Len(tail)
    BY <1>5, ConcatProperties
  <2>. QED
    BY <1>3, <1>5, <1>6, <2>1, LenProperties
<1>8. PICK fill \in Seq(Bit) : Encoder!Ax25Pdu(pdu) = bits \o fill
  <2>1. Encoder!Missing(bits) \in Nat
    BY <1>7 DEF Encoder!Missing
  <2>2. Encoder!Zeros(Encoder!Missing(bits)) \in Seq(Bit)
    BY <2>1, ZerosProperties
  <2>3. Encoder!Ax25Pdu(pdu) = Encoder!Filled(bits)
    BY <1>3, <1>4, <1>5, SameFraming DEF Encoder!Ax25Pdu
  <2>. QED
    BY <2>2, <2>3 DEF Encoder!Filled
<1>9. HasAt(body, 0, body)
  BY <1>2 DEF HasAt
<1>10. HasAt(front, e - 8, Flag)
  BY <1>2, <1>3, <1>4, FlagLayout, CarriedBefore
<1>11. HasAt(front, e, body)
  <2>1. e + 0 = e
    BY <1>6
  <2>. QED
    BY <1>2, <1>3, <1>4, <1>9, <2>1, CarriedBehind
<1>12. HasAt(bits, e + Len(body), Flag)
  <2>1. Len(front) + 0 = e + Len(body)
    BY <1>6
  <2>. QED
    BY <1>3, <1>5, <2>1, FlagLayout, CarriedBehind
<1>13. /\ HasAt(bits, e - 8, Flag)
       /\ HasAt(bits, e, body)
  BY <1>2, <1>3, <1>5, <1>10, <1>11, FlagLayout, CarriedBefore
<1>14. /\ HasAt(bits \o fill, e - 8, Flag)
       /\ HasAt(bits \o fill, e, body)
       /\ HasAt(bits \o fill, e + Len(body), Flag)
  BY <1>2, <1>12, <1>13, FlagLayout, CarriedBefore
<1>15. /\ bits \o fill \in Seq(Bit)
       /\ Len(bits \o fill) = Len(bits) + Len(fill)
       /\ Len(fill) \in Nat
  BY ConcatProperties, LenProperties
<1>16. Len(bits \o fill) \in Nat
         /\ Len(bits \o fill) >= e + Len(body) + 8 * encConf.postamble
  <2>1. PICK n \in Nat, m \in Nat :
          n = Len(bits) /\ m = Len(fill) /\ Len(bits \o fill) = n + m
    BY <1>7, <1>15
  <2>2. n + m \in Nat /\ n + m >= n
    OBVIOUS
  <2>. QED
    BY <1>7, <2>1, <2>2
<1>. QED
  BY <1>2, <1>6, <1>8, <1>14, <1>15, <1>16

\* The levels of a frame: a bit is a zero where the level changes.
LEMMA NrziLevels ==
  ASSUME NEW s \in Seq(Bit)
  PROVE  /\ Encoder!Nrzi(s) \in Seq(Bit)
         /\ Len(Encoder!Nrzi(s)) = Len(s)
         /\ \A k \in 2 .. Len(s) :
              s[k] = IF Encoder!Nrzi(s)[k] = Encoder!Nrzi(s)[k - 1] THEN 1 ELSE 0
<1>1. PICK levels : levels = Encoder!Nrzi(s)
  OBVIOUS
<1>2. PICK n \in Nat : n = Len(s)
  BY LenProperties
<1>3. levels = [k \in 1 .. n |-> Cardinality(ZerosTo(s, k)) % 2]
  <2>1. Encoder!Nrzi(s) = [k \in 1 .. Len(s) |-> Cardinality(ZerosTo(s, k)) % 2]
    BY DEF Encoder!Nrzi, ZerosTo, Encoder!Cardinality, Cardinality
  <2>. QED
    BY <1>1, <1>2, <2>1
<1>4. ASSUME NEW k \in 1 .. n
      PROVE  /\ Cardinality(ZerosTo(s, k)) \in Nat
             /\ Cardinality(ZerosTo(s, k - 1)) \in Nat
             /\ Cardinality(ZerosTo(s, k)) =
                  Cardinality(ZerosTo(s, k - 1)) + 1 - s[k]
             /\ s[k] \in Bit
  BY <1>2, ZerosNext, ElementOfSeq
<1>5. levels \in [1 .. n -> Bit]
  <2>1. \A m \in Nat : m % 2 \in Bit
    BY DEF Bit
  <2>. QED
    BY <1>3, <1>4, <2>1
<1>6. levels \in Seq(Bit) /\ Len(levels) = n
  BY <1>5, FunctionSequence
<1>7. ASSUME NEW k \in 2 .. n
      PROVE  s[k] = IF levels[k] = levels[k - 1] THEN 1 ELSE 0
  <2>1. k \in 1 .. n /\ k - 1 \in 1 .. n
    BY <1>7
  <2>2. PICK c \in Nat, d \in Nat, b \in Bit :
          /\ c = Cardinality(ZerosTo(s, k - 1)) /\ d = Cardinality(ZerosTo(s, k))
          /\ d = c + 1 - b /\ b = s[k]
    BY <1>4, <2>1
  <2>3. levels[k] = d % 2 /\ levels[k - 1] = c % 2
    BY <1>3, <2>1, <2>2
  <2>4. CASE b = 1
    <3>1. d = c
      BY <2>2, <2>4
    <3>. QED
      BY <2>2, <2>3, <2>4, <3>1
  <2>5. CASE b = 0
    <3>1. d = c + 1
      BY <2>2, <2>5
    <3>2. (c + 1) % 2 # c % 2
      OBVIOUS
    <3>. QED
      BY <2>2, <2>3, <2>5, <3>1, <3>2
  <2>. QED
    BY <2>2, <2>4, <2>5 DEF Bit
<1>. QED
  BY <1>1, <1>2, <1>6, <1>7

\* What comes into the register of the scrambler with each bit, nothing before.
IsFed(in, s) ==
  /\ in \in [-16 .. Len(s) -> Bit]
  /\ \A k \in -16 .. 0 : in[k] = 0
  /\ \A k \in 1 .. Len(s) : in[k] = (s[k] + in[k - 17] + in[k - 12]) % 2

\* The equation that Scrambled solves.
Feeds(in, s) ==
  in = [k \in -16 .. Len(s) |->
          IF k <= 0 THEN 0 ELSE (s[k] + in[k - 17] + in[k - 12]) % 2]

LEMMA FeedExists ==
  ASSUME NEW s \in Seq(Bit)
  PROVE  \E in : IsFed(in, s)
<1>1. PICK n \in Nat : n = Len(s)
  BY LenProperties
<1>. DEFINE FedTo(in, m) ==
              /\ in \in [-16 .. m -> Bit]
              /\ \A k \in -16 .. 0 : in[k] = 0
              /\ \A k \in 1 .. m : in[k] = (s[k] + in[k - 17] + in[k - 12]) % 2
            T == {m \in 0 .. n : \E in : FedTo(in, m)}
<1>2. 0 \in T
  <2>1. FedTo([k \in -16 .. 0 |-> 0], 0)
    BY DEF Bit
  <2>. HIDE DEF FedTo
  <2>. QED
    BY <2>1
<1>3. ASSUME NEW m \in 0 .. n, m \in T, m < n
      PROVE  m + 1 \in T
  <2>1. PICK in : FedTo(in, m)
    BY <1>3
  <2>2. PICK new : new = (s[m + 1] + in[(m + 1) - 17] + in[(m + 1) - 12]) % 2
    OBVIOUS
  <2>3. new \in Bit
    <3>1. s[m + 1] \in Bit
      <4>1. m + 1 \in 1 .. Len(s)
        BY <1>1, <1>3
      <4>. QED
        BY <4>1, ElementOfSeq
    <3>2. in[(m + 1) - 17] \in Bit /\ in[(m + 1) - 12] \in Bit
      <4>1. (m + 1) - 17 \in -16 .. m /\ (m + 1) - 12 \in -16 .. m
        OBVIOUS
      <4>. QED
        BY <2>1, <4>1
    <3>3. \A a, b, c \in Bit : (a + b + c) % 2 \in Bit
      BY DEF Bit
    <3>. HIDE DEF FedTo
    <3>. QED
      BY <2>2, <3>1, <3>2, <3>3
  <2>4. PICK more : more = [k \in -16 .. m + 1 |-> IF k = m + 1 THEN new ELSE in[k]]
    OBVIOUS
  <2>5. more \in [-16 .. m + 1 -> Bit]
    <3>1. ASSUME NEW k \in -16 .. m + 1, k # m + 1
          PROVE  in[k] \in Bit
      <4>1. k \in -16 .. m
        BY <3>1
      <4>. QED
        BY <2>1, <4>1
    <3>. HIDE DEF FedTo
    <3>. QED
      BY <2>3, <2>4, <3>1
  <2>6. \A k \in -16 .. 0 : more[k] = 0
    <3>1. ASSUME NEW k \in -16 .. 0
          PROVE  k \in -16 .. m + 1 /\ k # m + 1
      OBVIOUS
    <3>. QED
      BY <2>1, <2>4, <3>1
  <2>7. ASSUME NEW k \in 1 .. m + 1
        PROVE  more[k] = (s[k] + more[k - 17] + more[k - 12]) % 2
    <3>1. /\ k \in -16 .. m + 1
          /\ k - 17 \in -16 .. m + 1 /\ k - 17 # m + 1
          /\ k - 12 \in -16 .. m + 1 /\ k - 12 # m + 1
      OBVIOUS
    <3>2. more[k - 17] = in[k - 17] /\ more[k - 12] = in[k - 12]
      BY <2>4, <3>1
    <3>3. CASE k = m + 1
      BY <2>2, <2>4, <3>1, <3>2, <3>3
    <3>4. CASE k # m + 1
      <4>1. k \in 1 .. m
        BY <3>4
      <4>2. in[k] = (s[k] + in[k - 17] + in[k - 12]) % 2
        BY <2>1, <4>1
      <4>3. more[k] = in[k]
        BY <2>4, <3>1, <3>4
      <4>. HIDE DEF FedTo
      <4>. QED
        BY <3>2, <4>2, <4>3
    <3>. QED
      BY <3>3, <3>4
  <2>8. FedTo(more, m + 1)
    BY <2>5, <2>6, <2>7
  <2>9. m + 1 \in 0 .. n
    BY <1>3
  <2>. HIDE DEF FedTo
  <2>. QED
    BY <2>8, <2>9
<1>4. 0 .. n \subseteq T
  <2>. HIDE DEF T
  <2>1. \A m \in 0 .. n : m \in T /\ m < n => m + 1 \in T
    BY <1>3
  <2>. QED
    BY <1>2, <2>1, UpToNat
<1>5. n \in T
  <2>. HIDE DEF T
  <2>1. n \in 0 .. n
    OBVIOUS
  <2>. QED
    BY <1>4, <2>1
<1>6. PICK in : FedTo(in, n)
  <2>. HIDE DEF FedTo
  <2>. QED
    BY <1>5
<1>. QED
  BY <1>1, <1>6 DEF IsFed

\* Scrambled solves its equation, and what leaves its register came in before.
LEMMA ScramblerFed ==
  ASSUME NEW s \in Seq(Bit)
  PROVE  \E in : /\ IsFed(in, s)
                 /\ Encoder!Scrambled(s) = [k \in 1 .. Len(s) |-> in[k - 17]]
<1>1. PICK n \in Nat : n = Len(s)
  BY LenProperties
<1>2. PICK fed : IsFed(fed, s)
  BY FeedExists
<1>3. /\ fed \in [-16 .. n -> Bit]
      /\ \A k \in -16 .. 0 : fed[k] = 0
      /\ \A k \in 1 .. n : fed[k] = (s[k] + fed[k - 17] + fed[k - 12]) % 2
  BY <1>1, <1>2 DEF IsFed
<1>4. Feeds(fed, s)
  <2>1. ASSUME NEW k \in -16 .. n
        PROVE  fed[k] = IF k <= 0 THEN 0
                                  ELSE (s[k] + fed[k - 17] + fed[k - 12]) % 2
    <3>1. k <= 0 => k \in -16 .. 0
      OBVIOUS
    <3>2. ~ k <= 0 => k \in 1 .. n
      OBVIOUS
    <3>. QED
      BY <1>3, <3>1, <3>2
  <2>2. fed = [k \in -16 .. n |->
                 IF k <= 0 THEN 0 ELSE (s[k] + fed[k - 17] + fed[k - 12]) % 2]
    BY <1>3, <2>1
  <2>. QED
    BY <1>1, <2>2 DEF Feeds
<1>5. PICK in : in = CHOOSE f : Feeds(f, s)
  OBVIOUS
<1>6. Feeds(in, s)
  BY <1>4, <1>5
<1>7. Encoder!Scrambled(s) = [k \in 1 .. Len(s) |-> in[k - 17]]
  BY <1>5 DEF Encoder!Scrambled, Feeds
<1>8. in = [k \in -16 .. n |->
              IF k <= 0 THEN 0 ELSE (s[k] + in[k - 17] + in[k - 12]) % 2]
  BY <1>1, <1>6 DEF Feeds
<1>9. \A k \in -16 .. 0 : in[k] = 0
  <2>1. \A k \in -16 .. 0 : k \in -16 .. n /\ k <= 0
    OBVIOUS
  <2>. QED
    BY <1>8, <2>1
<1>10. ASSUME NEW k \in 1 .. n
       PROVE  in[k] = (s[k] + in[k - 17] + in[k - 12]) % 2
  <2>1. k \in -16 .. n /\ ~ k <= 0
    OBVIOUS
  <2>. QED
    BY <1>8, <2>1
<1>. DEFINE Same(m) == \A k \in -16 .. m : in[k] = fed[k]
            T == {m \in 0 .. n : Same(m)}
<1>11. 0 \in T
  <2>1. Same(0)
    BY <1>3, <1>9
  <2>. HIDE DEF Same
  <2>. QED
    BY <2>1
<1>12. ASSUME NEW m \in 0 .. n, m \in T, m < n
       PROVE  m + 1 \in T
  <2>1. \A k \in -16 .. m : in[k] = fed[k]
    BY <1>12
  <2>2. PICK p : p = m + 1 /\ p \in 1 .. n
    BY <1>12
  <2>3. p - 17 \in -16 .. m /\ p - 12 \in -16 .. m
    BY <2>2
  <2>4. in[p] = fed[p]
    BY <1>3, <1>10, <2>1, <2>2, <2>3
  <2>5. ASSUME NEW k \in -16 .. p
        PROVE  in[k] = fed[k]
    <3>1. k = p \/ k \in -16 .. m
      BY <2>2
    <3>. QED
      BY <2>1, <2>4, <3>1
  <2>6. Same(p) /\ p \in 0 .. n
    BY <2>2, <2>5
  <2>. HIDE DEF Same
  <2>. QED
    BY <2>2, <2>6
<1>13. n \in T
  <2>. HIDE DEF T
  <2>1. \A m \in 0 .. n : m \in T /\ m < n => m + 1 \in T
    BY <1>12
  <2>2. 0 .. n \subseteq T /\ n \in 0 .. n
    BY <1>11, <2>1, UpToNat
  <2>. QED
    BY <2>2
<1>14. in = fed
  <2>1. \A k \in -16 .. n : in[k] = fed[k]
    BY <1>13
  <2>2. in = [k \in -16 .. n |-> in[k]]
    BY <1>8
  <2>3. fed = [k \in -16 .. n |-> fed[k]]
    BY <1>3
  <2>. QED
    BY <2>1, <2>2, <2>3
<1>. QED
  BY <1>2, <1>7, <1>14

\* A bit is the sum of three that the scrambler puts out.
LEMMA ScrambledSum ==
  ASSUME NEW s \in Seq(Bit)
  PROVE  /\ Encoder!Scrambled(s) \in Seq(Bit)
         /\ Len(Encoder!Scrambled(s)) = Len(s)
         /\ \A k \in 1 .. Len(s) - 17 :
              s[k] = (Encoder!Scrambled(s)[k + 17] + Encoder!Scrambled(s)[k + 5]
                        + Encoder!Scrambled(s)[k]) % 2
<1>1. PICK n \in Nat : n = Len(s)
  BY LenProperties
<1>2. PICK in, scrambled :
        /\ scrambled = Encoder!Scrambled(s)
        /\ IsFed(in, s)
        /\ scrambled = [k \in 1 .. n |-> in[k - 17]]
  BY <1>1, ScramblerFed
<1>3. /\ in \in [-16 .. n -> Bit]
      /\ \A k \in 1 .. n : in[k] = (s[k] + in[k - 17] + in[k - 12]) % 2
  BY <1>1, <1>2 DEF IsFed
<1>4. scrambled \in [1 .. n -> Bit]
  <2>1. ASSUME NEW k \in 1 .. n
        PROVE  in[k - 17] \in Bit
    <3>1. k - 17 \in -16 .. n
      OBVIOUS
    <3>. QED
      BY <1>3, <3>1
  <2>. QED
    BY <1>2, <2>1
<1>5. scrambled \in Seq(Bit) /\ Len(scrambled) = n
  BY <1>4, FunctionSequence
<1>6. ASSUME NEW k \in 1 .. n - 17
      PROVE  s[k] = (scrambled[k + 17] + scrambled[k + 5] + scrambled[k]) % 2
  <2>1. /\ k \in 1 .. n /\ k + 17 \in 1 .. n /\ k + 5 \in 1 .. n
        /\ (k + 17) - 17 = k /\ (k + 5) - 17 = k - 12
        /\ k - 17 \in -16 .. n /\ k - 12 \in -16 .. n /\ k \in -16 .. n
    OBVIOUS
  <2>2. /\ scrambled[k + 17] = in[k] /\ scrambled[k + 5] = in[k - 12]
        /\ scrambled[k] = in[k - 17]
    BY <1>2, <2>1
  <2>3. in[k] = (s[k] + in[k - 17] + in[k - 12]) % 2
    BY <1>3, <2>1
  <2>4. s[k] \in Bit /\ in[k - 17] \in Bit /\ in[k - 12] \in Bit
    BY <1>1, <1>3, <2>1, ElementOfSeq
  <2>5. \A a, b, c \in Bit : a = (((a + b + c) % 2) + c + b) % 2
    BY DEF Bit
  <2>. QED
    BY <2>2, <2>3, <2>4, <2>5
<1>. QED
  BY <1>1, <1>2, <1>5, <1>6

-----------------------------------------------------------------------------
(* The receiver *)

\* A level that stays is a one.
Differences(levels) ==
  [k \in 1 .. Len(levels) |->
     IF levels[k] = Encoder!At(levels, k - 1) THEN 1 ELSE 0]

\* A bit is descrambled with those 12 and 17 before it.
Descrambled(bits) ==
  [k \in 1 .. Len(bits) |->
     (bits[k] + Encoder!At(bits, k - 12) + Encoder!At(bits, k - 17)) % 2]

\* From here on the line reads like s, from its first-th bit to its last-th.
ReadsLike(bits, at, s, first, final) ==
  \A k \in first .. final : bits[at + k] = s[k]

LEMMA DifferencesRead ==
  ASSUME NEW old \in Seq(Bit), NEW s \in Seq(Bit)
  PROVE  /\ Differences(old \o Encoder!Nrzi(s)) \in Seq(Bit)
         /\ Len(Differences(old \o Encoder!Nrzi(s))) = Len(old) + Len(s)
         /\ ReadsLike(Differences(old \o Encoder!Nrzi(s)), Len(old), s, 2, Len(s))
<1>1. PICK n \in Nat, m \in Nat : n = Len(s) /\ m = Len(old)
  BY LenProperties
<1>2. PICK new \in Seq(Bit) :
        /\ new = Encoder!Nrzi(s)
        /\ Len(new) = n
        /\ \A k \in 2 .. n : s[k] = IF new[k] = new[k - 1] THEN 1 ELSE 0
  BY <1>1, NrziLevels
<1>3. PICK levels \in Seq(Bit) :
        /\ levels = old \o new
        /\ Len(levels) = m + n
        /\ \A k \in 1 .. m + n :
             levels[k] = IF k <= m THEN old[k] ELSE new[k - m]
  <2>1. /\ old \o new \in Seq(Bit)
        /\ Len(old \o new) = Len(old) + Len(new)
        /\ \A k \in 1 .. Len(old) + Len(new) :
             (old \o new)[k] = IF k <= Len(old) THEN old[k] ELSE new[k - Len(old)]
    BY ConcatProperties
  <2>. QED
    BY <1>1, <1>2, <2>1
<1>4. PICK bits : bits = Differences(levels)
  OBVIOUS
<1>5. bits = [k \in 1 .. m + n |->
                IF levels[k] = Encoder!At(levels, k - 1) THEN 1 ELSE 0]
  BY <1>3, <1>4 DEF Differences
<1>6. bits \in Seq(Bit) /\ Len(bits) = m + n
  <2>1. bits \in [1 .. m + n -> Bit]
    BY <1>5 DEF Bit
  <2>2. m + n \in Nat
    OBVIOUS
  <2>. QED
    BY <2>1, <2>2, FunctionSequence
<1>7. ASSUME NEW k \in 2 .. n
      PROVE  bits[m + k] = s[k]
  <2>1. PICK p : p = m + k /\ p \in 1 .. m + n /\ p - 1 \in 1 .. m + n
                   /\ p - 1 > 0 /\ ~ p <= m /\ ~ p - 1 <= m
                   /\ p - m = k /\ (p - 1) - m = k - 1
    OBVIOUS
  <2>2. levels[p] = new[k] /\ levels[p - 1] = new[k - 1]
    BY <1>3, <2>1
  <2>3. Encoder!At(levels, p - 1) = levels[p - 1]
    BY <2>1 DEF Encoder!At
  <2>4. bits[p] = IF levels[p] = levels[p - 1] THEN 1 ELSE 0
    BY <1>5, <2>1, <2>3
  <2>. QED
    BY <1>2, <2>1, <2>2, <2>4
<1>. QED
  BY <1>1, <1>2, <1>3, <1>4, <1>6, <1>7 DEF ReadsLike

LEMMA DescrambledRead ==
  ASSUME NEW bits \in Seq(Bit), NEW at \in Nat, NEW s \in Seq(Bit),
         Len(bits) = at + Len(s), NEW first \in Nat, first >= 1,
         ReadsLike(bits, at, Encoder!Scrambled(s), first, Len(s))
  PROVE  /\ Descrambled(bits) \in Seq(Bit)
         /\ Len(Descrambled(bits)) = Len(bits)
         /\ ReadsLike(Descrambled(bits), at + 17, s, first, Len(s) - 17)
<1>1. PICK n \in Nat : n = Len(s)
  BY LenProperties
<1>2. PICK scrambled \in Seq(Bit) :
        /\ scrambled = Encoder!Scrambled(s)
        /\ \A k \in 1 .. n - 17 :
             s[k] = (scrambled[k + 17] + scrambled[k + 5] + scrambled[k]) % 2
  BY <1>1, ScrambledSum
<1>3. \A k \in first .. n : bits[at + k] = scrambled[k]
  BY <1>1, <1>2 DEF ReadsLike
<1>4. PICK m \in Nat : m = Len(bits) /\ m = at + n
  BY <1>1
<1>5. PICK out : out = Descrambled(bits)
  OBVIOUS
<1>6. out = [k \in 1 .. m |-> (bits[k] + Encoder!At(bits, k - 12)
                                 + Encoder!At(bits, k - 17)) % 2]
  BY <1>4, <1>5 DEF Descrambled
<1>7. ASSUME NEW k \in Int, k <= m
      PROVE  Encoder!At(bits, k) \in Bit
  <2>1. CASE k > 0
    <3>1. k \in 1 .. Len(bits)
      BY <1>4, <1>7, <2>1
    <3>2. bits[k] \in Bit
      BY <3>1, ElementOfSeq
    <3>. QED
      BY <2>1, <3>2 DEF Encoder!At
  <2>2. CASE ~ k > 0
    BY <2>2 DEF Encoder!At, Bit
  <2>. QED
    BY <2>1, <2>2
<1>8. out \in Seq(Bit) /\ Len(out) = m
  <2>1. ASSUME NEW k \in 1 .. m
        PROVE  (bits[k] + Encoder!At(bits, k - 12)
                  + Encoder!At(bits, k - 17)) % 2 \in Bit
    <3>1. bits[k] \in Bit
      BY <1>4, ElementOfSeq
    <3>2. k - 12 \in Int /\ k - 12 <= m /\ k - 17 \in Int /\ k - 17 <= m
      OBVIOUS
    <3>3. \A a, b, c \in Bit : (a + b + c) % 2 \in Bit
      BY DEF Bit
    <3>. QED
      BY <1>7, <3>1, <3>2, <3>3
  <2>2. out \in [1 .. m -> Bit]
    BY <1>6, <2>1
  <2>. QED
    BY <2>2, FunctionSequence
<1>9. ASSUME NEW k \in first .. n - 17
      PROVE  out[(at + 17) + k] = s[k]
  <2>1. PICK p : p = (at + 17) + k /\ p \in 1 .. m
                   /\ p - 12 > 0 /\ p - 17 > 0
                   /\ p = at + (k + 17) /\ p - 12 = at + (k + 5) /\ p - 17 = at + k
    BY <1>4
  <2>2. /\ k \in first .. n /\ k + 5 \in first .. n /\ k + 17 \in first .. n
        /\ k \in 1 .. n - 17
    OBVIOUS
  <2>3. /\ bits[p] = scrambled[k + 17] /\ bits[p - 12] = scrambled[k + 5]
        /\ bits[p - 17] = scrambled[k]
    BY <1>3, <2>1, <2>2
  <2>4. out[p] = (bits[p] + bits[p - 12] + bits[p - 17]) % 2
    BY <1>6, <2>1 DEF Encoder!At
  <2>. QED
    BY <1>2, <2>1, <2>2, <2>3, <2>4
<1>. QED
  BY <1>1, <1>4, <1>5, <1>8, <1>9 DEF ReadsLike

\* How many bits the scrambler delays, and the first bit of a frame that is not
\* read against what was on the line before.
Delay == IF encConf.scramble THEN 17 ELSE 0
FirstRead == IF encConf.nrzi THEN 2 ELSE 1

\* The receiver reads what the encoder put together, but for the bits at both
\* ends.
LEMMA FrameReceived ==
  ASSUME line \in Seq(Bit), encConf \in EncConfigs,
         NEW pdu \in EncPdus, Encoder!Encode(pdu),
         NEW s \in Seq(Bit), s = Encoder!Ax25Pdu(pdu)
  PROVE  /\ Encoder!Received' \in Seq(Bit)
         /\ Len(Encoder!Received') = Len(line) + Len(s)
         /\ ReadsLike(Encoder!Received', Len(line) + Delay, s, FirstRead,
                      Len(s) - Delay)
<1>1. PICK n \in Nat, m \in Nat : n = Len(s) /\ m = Len(line)
  BY LenProperties
<1>2. PICK scrambled \in Seq(Bit) :
        /\ scrambled = IF encConf.scramble THEN Encoder!Scrambled(s) ELSE s
        /\ Len(scrambled) = n
  BY <1>1, ScrambledSum
<1>3. line' = IF encConf.nrzi THEN line \o Encoder!Nrzi(scrambled)
                              ELSE line \o scrambled
  BY <1>2 DEF Encoder!Encode, Encoder!Encoded
<1>4. PICK read : read = IF encConf.nrzi THEN Differences(line') ELSE line'
  OBVIOUS
<1>5. Encoder!Received' = IF encConf.scramble THEN Descrambled(read) ELSE read
  BY <1>4 DEF Encoder!Received, Encoder!Encode, Differences, Descrambled, Encoder!At
<1>6. /\ read \in Seq(Bit)
      /\ Len(read) = m + n
      /\ ReadsLike(read, m, scrambled, FirstRead, n)
  <2>1. CASE encConf.nrzi
    <3>1. read = Differences(line \o Encoder!Nrzi(scrambled))
      BY <1>3, <1>4, <2>1
    <3>2. /\ read \in Seq(Bit)
          /\ Len(read) = Len(line) + Len(scrambled)
          /\ ReadsLike(read, Len(line), scrambled, 2, Len(scrambled))
      BY <3>1, DifferencesRead
    <3>. QED
      BY <1>1, <1>2, <2>1, <3>2 DEF FirstRead
  <2>2. CASE ~ encConf.nrzi
    <3>1. read = line \o scrambled
      BY <1>3, <1>4, <2>2
    <3>2. /\ line \o scrambled \in Seq(Bit)
          /\ Len(line \o scrambled) = Len(line) + Len(scrambled)
          /\ \A k \in 1 .. Len(line) + Len(scrambled) :
               (line \o scrambled)[k] = IF k <= Len(line) THEN line[k]
                                        ELSE scrambled[k - Len(line)]
      BY ConcatProperties
    <3>3. ASSUME NEW k \in 1 .. n
          PROVE  read[m + k] = scrambled[k]
      <4>1. m + k \in 1 .. m + n /\ ~ m + k <= m /\ (m + k) - m = k
        OBVIOUS
      <4>. QED
        BY <1>1, <1>2, <3>1, <3>2, <4>1
    <3>. QED
      BY <1>1, <1>2, <2>2, <3>1, <3>2, <3>3 DEF FirstRead, ReadsLike
  <2>. QED
    BY <2>1, <2>2
<1>7. CASE encConf.scramble
  <2>1. FirstRead \in Nat /\ FirstRead >= 1
    BY DEF FirstRead
  <2>2. ReadsLike(read, m, Encoder!Scrambled(s), FirstRead, Len(s))
    BY <1>1, <1>2, <1>6, <1>7
  <2>3. Len(read) = m + Len(s)
    BY <1>1, <1>6
  <2>4. /\ Descrambled(read) \in Seq(Bit)
        /\ Len(Descrambled(read)) = Len(read)
        /\ ReadsLike(Descrambled(read), m + 17, s, FirstRead, Len(s) - 17)
    BY <1>6, <2>1, <2>2, <2>3, DescrambledRead
  <2>5. Encoder!Received' = Descrambled(read) /\ Delay = 17
    BY <1>5, <1>7 DEF Delay
  <2>. QED
    BY <1>1, <2>3, <2>4, <2>5
<1>8. CASE ~ encConf.scramble
  <2>1. Encoder!Received' = read /\ Delay = 0 /\ scrambled = s
    BY <1>2, <1>5, <1>8 DEF Delay
  <2>2. m + 0 = m /\ n - 0 = n
    OBVIOUS
  <2>. QED
    BY <1>1, <1>6, <2>1, <2>2
<1>. QED
  BY <1>7, <1>8

\* What the frame carries between the first bits and the last is received.
LEMMA CarriedIsReceived ==
  ASSUME NEW bits \in Seq(Bit), NEW s \in Seq(Bit), NEW m \in Nat,
         NEW delay \in Nat, NEW first \in Nat,
         Len(bits) = m + Len(s),
         ReadsLike(bits, m + delay, s, first, Len(s) - delay),
         NEW e, NEW x \in Seq(Bit), HasAt(s, e, x), first <= e + 1,
         e + Len(x) + delay <= Len(s)
  PROVE  HasAt(bits, m + delay + e, x)
<1>1. PICK n \in Nat, l \in Nat : n = Len(s) /\ l = Len(x)
  BY LenProperties
<1>2. /\ e \in Nat /\ e + l + delay <= n /\ Len(bits) = m + n
      /\ \A k \in 1 .. l : s[e + k] = x[k]
  BY <1>1 DEF HasAt
<1>3. \A k \in first .. n - delay : bits[(m + delay) + k] = s[k]
  BY <1>1 DEF ReadsLike
<1>4. ASSUME NEW k \in 1 .. l
      PROVE  bits[(m + delay + e) + k] = x[k]
  <2>1. PICK j : j = e + k /\ j \in first .. n - delay
    BY <1>2
  <2>2. (m + delay) + j = (m + delay + e) + k
    BY <1>2, <2>1
  <2>3. bits[(m + delay) + j] = s[j]
    BY <1>3, <2>1
  <2>. QED
    BY <1>2, <2>1, <2>2, <2>3
<1>5. m + delay + e \in Nat /\ (m + delay + e) + l <= Len(bits)
  BY <1>2
<1>. QED
  BY <1>1, <1>4, <1>5 DEF HasAt

\* So it has flags, the stuffed octets and a flag one behind the other.
LEMMA MessageReceived ==
  ASSUME line \in Seq(Bit), encConf \in EncConfigs, Encoder!IsReadable,
         NEW pdu \in EncPdus, Encoder!Encode(pdu)
  PROVE  \E f \in FramesIn(Encoder!Received') :
           f.open > Len(line) /\ f.raw = Encoder!Contents(pdu)
<1>1. PICK pre \in Nat, post \in Nat :
        /\ pre = encConf.preamble /\ post = encConf.postamble
        /\ pre >= FirstRead /\ post >= IF encConf.scramble THEN 4 ELSE 1
        /\ pre >= 1 /\ post >= 1
  <2>1. encConf.preamble \in Nat /\ encConf.postamble \in Nat
    BY ArgumentsAssumption DEF ArgumentsAssumption, Encoder!Arguments
  <2>. QED
    BY <2>1 DEF Encoder!IsReadable, FirstRead
<1>2. PICK octets \in Seq(Byte) : octets = Encoder!Contents(pdu)
  BY ContentsType
<1>3. PICK body : body = Stuff(BitsOf(octets)) /\ body \in Seq(Bit)
  BY BitsOfProperties, StuffingType DEF StuffLine, Stuff
<1>4. PICK s \in Seq(Bit), l \in Nat, n \in Nat, e \in Nat :
        /\ s = Encoder!Ax25Pdu(pdu) /\ l = Len(s) /\ n = Len(body) /\ e = 8 * pre
        /\ l >= e + n + 8 * post
        /\ HasAt(s, e - 8, Flag)
        /\ HasAt(s, e, body)
        /\ HasAt(s, e + n, Flag)
  BY <1>1, <1>2, <1>3, PduLayout
<1>5. PICK bits \in Seq(Bit), m \in Nat :
        /\ bits = Encoder!Received' /\ m = Len(line)
        /\ Len(bits) = m + Len(s)
        /\ ReadsLike(bits, m + Delay, s, FirstRead, Len(s) - Delay)
  BY <1>4, FrameReceived, LenProperties
<1>6. PICK delay \in Nat, first \in Nat :
        /\ delay = Delay /\ first = FirstRead
        /\ first <= (e - 8) + 1 /\ first <= e + 1 /\ first <= (e + n) + 1
        /\ e + n + 8 + delay <= l
  <2>1. Delay \in {0, 17} /\ FirstRead \in {1, 2}
    BY DEF Delay, FirstRead
  <2>2. 8 * post >= 8 + Delay
    BY <1>1 DEF Delay
  <2>3. FirstRead <= (e - 8) + 1
    <3>1. PICK r \in {1, 2} : r = FirstRead
      BY <2>1
    <3>2. pre \in Nat /\ pre >= r
      BY <1>1, <3>1
    <3>3. e = 8 * pre
      BY <1>4
    <3>4. r <= (8 * pre - 8) + 1
      BY <3>2
    <3>. QED
      BY <3>1, <3>3, <3>4
  <2>. QED
    BY <1>4, <2>1, <2>2, <2>3
<1>7. PICK at \in Nat : at = m + delay + e /\ at >= 8 /\ at - 8 = m + delay + (e - 8)
                          /\ at - 7 > m /\ at + n = m + delay + (e + n)
  <2>1. e >= 8
    BY <1>1, <1>4
  <2>2. m + delay + e \in Nat
    OBVIOUS
  <2>. QED
    BY <2>1, <2>2
<1>8. HasAt(bits, at - 8, Flag)
  <2>1. PICK d : d = e - 8
    OBVIOUS
  <2>2. d + Len(Flag) + delay <= Len(s) /\ first <= d + 1 /\ HasAt(s, d, Flag)
    BY <1>4, <1>6, <2>1, FlagLayout
  <2>3. HasAt(bits, m + delay + d, Flag)
    BY <1>5, <1>6, <2>2, FlagLayout, CarriedIsReceived
  <2>. QED
    BY <1>7, <2>1, <2>3
<1>9. HasAt(bits, at, body)
  <2>1. e + Len(body) + delay <= Len(s)
    BY <1>4, <1>6
  <2>. QED
    BY <1>3, <1>4, <1>5, <1>6, <1>7, <2>1, CarriedIsReceived
<1>10. HasAt(bits, at + n, Flag)
  <2>1. PICK d : d = e + n
    OBVIOUS
  <2>2. d + Len(Flag) + delay <= Len(s) /\ first <= d + 1 /\ HasAt(s, d, Flag)
    BY <1>4, <1>6, <2>1, FlagLayout
  <2>3. HasAt(bits, m + delay + d, Flag)
    BY <1>5, <1>6, <2>2, FlagLayout, CarriedIsReceived
  <2>. QED
    BY <1>7, <2>1, <2>3
<1>11. [open |-> at - 7, close |-> at + n + 1, raw |-> octets] \in FramesIn(bits)
  BY <1>3, <1>4, <1>7, <1>8, <1>9, <1>10, FrameOnLine
<1>. QED
  BY <1>2, <1>5, <1>7, <1>11

-----------------------------------------------------------------------------

EncoderInv ==
  /\ encConf \in EncConfigs
  /\ line \in Seq(Bit)
  /\ framed \in Seq(Seq(Byte))

LEMMA EncoderInitInv == Encoder!Init => EncoderInv
BY EmptySeq DEF Encoder!Init, EncoderInv

\* A frame is of bits, whatever the configuration.
LEMMA EncodedType ==
  ASSUME encConf \in EncConfigs, NEW pdu \in EncPdus
  PROVE  Encoder!Encoded(pdu) \in Seq(Bit)
<1>1. encConf.preamble \in Nat /\ encConf.postamble \in Nat
  BY ArgumentsAssumption DEF ArgumentsAssumption, Encoder!Arguments
<1>2. PICK body \in Seq(Bit) : body = Stuff(BitsOf(Encoder!Contents(pdu)))
  BY ContentsType, BitsOfProperties, StuffingType DEF StuffLine, Stuff
<1>3. PICK head \in Seq(Bit), tail \in Seq(Bit) :
        /\ head = Encoder!Flags(encConf.preamble)
        /\ tail = Encoder!Flags(encConf.postamble)
  BY <1>1, FlagsProperties
<1>4. PICK bits \in Seq(Bit) : bits = head \o body \o tail
  BY <1>2, ConcatProperties
<1>5. PICK s \in Seq(Bit) : s = Encoder!Ax25Pdu(pdu)
  <2>1. Encoder!Missing(bits) \in Nat
    BY LenProperties DEF Encoder!Missing
  <2>2. Encoder!Zeros(Encoder!Missing(bits)) \in Seq(Bit)
    BY <2>1, ZerosProperties
  <2>3. Encoder!Ax25Pdu(pdu) = bits \o Encoder!Zeros(Encoder!Missing(bits))
    BY <1>2, <1>3, <1>4, SameFraming DEF Encoder!Ax25Pdu, Encoder!Filled
  <2>. QED
    BY <2>2, <2>3, ConcatProperties
<1>6. Encoder!Scrambled(s) \in Seq(Bit)
  BY ScrambledSum
<1>7. Encoder!Nrzi(s) \in Seq(Bit) /\ Encoder!Nrzi(Encoder!Scrambled(s)) \in Seq(Bit)
  BY <1>6, NrziLevels
<1>. QED
  BY <1>5, <1>6, <1>7 DEF Encoder!Encoded

LEMMA EncoderNextInv == ASSUME EncoderInv, Encoder!Next PROVE EncoderInv'
<1>1. ASSUME NEW pdu \in EncPdus, Encoder!Encode(pdu)
      PROVE  EncoderInv'
  <2>1. Encoder!Encoded(pdu) \in Seq(Bit) /\ Encoder!Contents(pdu) \in Seq(Byte)
    BY EncodedType, ContentsType DEF EncoderInv
  <2>2. line \o Encoder!Encoded(pdu) \in Seq(Bit)
    BY <2>1, ConcatProperties DEF EncoderInv
  <2>3. Append(framed, Encoder!Contents(pdu)) \in Seq(Seq(Byte))
    BY <2>1, AppendProperties DEF EncoderInv
  <2>. QED
    BY <1>1, <2>2, <2>3 DEF Encoder!Encode, EncoderInv
<1>2. ASSUME NEW levels \in LineNoise, Encoder!Noise(levels)
      PROVE  EncoderInv'
  <2>1. levels \in Seq(Bit)
    BY ArgumentsAssumption, SameFraming DEF ArgumentsAssumption, Encoder!Arguments
  <2>2. line \o levels \in Seq(Bit)
    BY <2>1, ConcatProperties DEF EncoderInv
  <2>. QED
    BY <1>2, <2>2 DEF Encoder!Noise, EncoderInv
<1>. QED
  BY <1>1, <1>2 DEF Encoder!Next

LEMMA EncoderSteps == [Next]_vars => Encoder!Next \/ UNCHANGED encoderVars
BY DEF Next, vars, LrptStep, BerStep, RecorderStep, GolayStep, WhiteStep,
       EncoderStep

\* A step that frames a message puts it on the line for the receiver to find.
LEMMA StepArrives ==
  ASSUME EncoderInv, Encoder!Next \/ UNCHANGED encoderVars
  PROVE  Encoder!MessageArrives
<1>. SUFFICES ASSUME Encoder!IsReadable, framed' # framed
              PROVE  \E f \in Encoder!FramesIn(Encoder!Received') :
                       f.open > Len(line) /\ f.raw = framed'[Len(framed')]
  BY DEF Encoder!MessageArrives
<1>1. PICK pdu \in EncPdus : Encoder!Encode(pdu)
  BY DEF Encoder!Next, Encoder!Noise, encoderVars
<1>2. framed'[Len(framed')] = Encoder!Contents(pdu)
  <2>1. Encoder!Contents(pdu) \in Seq(Byte) /\ framed \in Seq(Seq(Byte))
    BY ContentsType DEF EncoderInv
  <2>2. framed' = Append(framed, Encoder!Contents(pdu))
    BY <1>1 DEF Encoder!Encode
  <2>. QED
    BY <2>1, <2>2, AppendProperties
<1>3. \E f \in FramesIn(Encoder!Received') :
        f.open > Len(line) /\ f.raw = Encoder!Contents(pdu)
  BY <1>1, MessageReceived DEF EncoderInv
<1>. QED
  BY <1>2, <1>3, SameFraming

\* ax25_encoder::encode() and the receiver: whatever was received before, noise
\* or frames, and whatever level and register they left behind, each message
\* makes a frame with its octets in what the encoder puts on the line for it;
\* for every message and every configuration with enough flags.
THEOREM EveryMessageArrives == Spec => EachMessageArrives
<1>1. Init => EncoderInv
  BY EncoderInitInv DEF Init
<1>2. EncoderInv /\ [Next]_vars => EncoderInv'
  <2>1. EncoderInv /\ Encoder!Next => EncoderInv'
    BY EncoderNextInv
  <2>2. EncoderInv /\ UNCHANGED encoderVars => EncoderInv'
    BY DEF EncoderInv, encoderVars
  <2>. QED
    BY <2>1, <2>2, EncoderSteps
<1>3. EncoderInv /\ [Next]_vars
        => [kind = "encoder" => Encoder!MessageArrives]_vars
  BY EncoderSteps, StepArrives
<1>. QED
  BY <1>1, <1>2, <1>3, PTL DEF Spec, EachMessageArrives
=============================================================================
