---------------------- MODULE DopplerCorrection_proofs ----------------------
(***************************************************************************)
(* Theorems about DopplerCorrection, for every degree of the fit, length   *)
(* and number of the correction steps, and set of frequencies.  What L     *)
(* computes is left open: nothing here depends on it.                      *)
(***************************************************************************)
EXTENDS DopplerCorrection, SequenceTheorems, TLAPS

\* The inductive invariant.  AppliedIsPredicted rests on the table being the
\* one of the newest point (TableCurrent) and on the index being on time
\* (IndexOnTime), which rests on the steps covering the samples.
IInv ==
  /\ TypeOK
  /\ StepsCoverSamples
  /\ TableCurrent
  /\ IndexOnTime
  /\ AppliedIsPredicted

-----------------------------------------------------------------------------
(* Helpers *)

\* The step behind the n-th begins one UpdatePeriod later.
LEMMA NextStep ==
  ASSUME DopplerAssumption, NEW n \in Int
  PROVE  /\ (n + 1) * UpdatePeriod = n * UpdatePeriod + UpdatePeriod
         /\ (n - 1) * UpdatePeriod = n * UpdatePeriod - UpdatePeriod
         /\ n * UpdatePeriod \in Int
         /\ n \in Nat => n * UpdatePeriod \in Nat
  BY DEF DopplerAssumption

\* The window of the fit after one more point: typed, no longer than Degree,
\* the new point last, in stream order if the window and the point are.
LEMMA FittedWindow ==
  ASSUME DopplerAssumption,
         NEW y \in Diffs, NEW x \in Nat,
         NEW d \in Seq([x : Nat, y : Diffs]), Len(d) <= Degree,
         \A k \in 1 .. Len(d) : d[k].x <= x,
         \A k \in 1 .. Len(d) - 1 : d[k].x <= d[k + 1].x
  PROVE  LET e == Fitted(d, x, y)
         IN  /\ e \in Seq([x : Nat, y : Diffs])
             /\ e # <<>>
             /\ Len(e) <= Degree
             /\ e[Len(e)].x = x
             /\ \A k \in 1 .. Len(e) : e[k].x <= x
             /\ \A k \in 1 .. Len(e) - 1 : e[k].x <= e[k + 1].x
  <1> DEFINE w == IF IsReady(d) THEN Tail(d) ELSE d
             pt == [x |-> x, y |-> y]
             e == Append(w, pt)
  <1>1. pt \in [x : Nat, y : Diffs] /\ pt.x = x
    OBVIOUS
  <1>2. /\ w \in Seq([x : Nat, y : Diffs])
        /\ Len(w) < Degree
        /\ \A k \in 1 .. Len(w) : w[k].x <= x
        /\ \A k \in 1 .. Len(w) - 1 : w[k].x <= w[k + 1].x
    <2>1. CASE IsReady(d)
      <3>1. d # <<>> /\ Len(d) = Degree
        BY <2>1 DEF IsReady, DopplerAssumption
      <3>2. /\ Tail(d) \in Seq([x : Nat, y : Diffs])
            /\ Len(Tail(d)) = Len(d) - 1
            /\ \A k \in 1 .. Len(d) - 1 : Tail(d)[k] = d[k + 1]
        BY <3>1
      <3>3. w = Tail(d)
        BY <2>1
      <3> QED
        BY <3>1, <3>2, <3>3 DEF DopplerAssumption
    <2>2. CASE ~ IsReady(d)
      <3>1. w = d /\ Len(d) # Degree
        BY <2>2 DEF IsReady
      <3>2. Len(d) \in Nat /\ Len(d) < Degree
        BY <3>1 DEF DopplerAssumption
      <3> HIDE DEF w
      <3> QED
        BY <3>1, <3>2
    <2> QED
      BY <2>1, <2>2
  <1> HIDE DEF w, pt
  <1>3. /\ e \in Seq([x : Nat, y : Diffs])
        /\ Len(e) = Len(w) + 1
        /\ e[Len(e)] = pt
        /\ \A k \in 1 .. Len(w) : e[k] = w[k]
    BY <1>1, <1>2
  <1>4. e # <<>> /\ Len(e) <= Degree /\ e[Len(e)].x = x
    BY <1>1, <1>2, <1>3 DEF DopplerAssumption
  <1>5. \A k \in 1 .. Len(e) : e[k].x <= x
    BY <1>1, <1>2, <1>3
  <1>6. ASSUME NEW k \in 1 .. Len(e) - 1
        PROVE  e[k].x <= e[k + 1].x
    <2>1. CASE k = Len(w)
      BY <2>1, <1>1, <1>2, <1>3
    <2>2. CASE k # Len(w)
      BY <2>2, <1>2, <1>3
    <2> QED
      BY <2>1, <2>2
  <1>7. e = Fitted(d, x, y)
    BY DEF e, w, pt, Fitted
  <1> HIDE DEF e
  <1> QED
    BY <1>3, <1>4, <1>5, <1>6, <1>7

\* The sample indices of the points are numbers.
LEMMA IndicesAreNat ==
  ASSUME TypeOK
  PROVE  \A k \in 1 .. Len(data) : data[k].x \in Nat
  <1>1. data \in Seq([x : Nat, y : Diffs])
    BY DEF TypeOK
  <1>2. ASSUME NEW k \in 1 .. Len(data) PROVE data[k] \in [x : Nat, y : Diffs]
    BY <1>1, ElementOfSeq
  <1> QED
    BY <1>2

\* The entries of a table.
LEMMA TableEntries ==
  ASSUME DopplerAssumption, NEW d
  PROVE  /\ DOMAIN Predicted(d, CorrectionsPerSec, UpdatePeriod)
              = 0 .. CorrectionsPerSec - 1
         /\ IsReady(d) =>
              \A k \in 0 .. CorrectionsPerSec - 1 :
                Predicted(d, CorrectionsPerSec, UpdatePeriod)[k]
                  = L(d, d[Degree].x + k * UpdatePeriod)
  BY DEF Predicted

\* One turn of the loop: the call goes on or returns, the step goes on or ends.
LEMMA AdvanceCovers ==
  ASSUME DopplerAssumption, TypeOK, StepsCoverSamples, noutput > 0, Advance
  PROVE  /\ corrected' \in 0 .. UpdatePeriod - 1
         /\ written' \in Nat /\ noutput' \in Nat /\ produced' \in Nat
         /\ written' >= written
         /\ noutput' > 0 => produced' < noutput'
         /\ noutput' = 0 => produced' = 0
         /\ corrected + Count \in 1 .. UpdatePeriod
         /\ Position' = Position + Count
         /\ corrected' = IF corrected + Count = UpdatePeriod
                           THEN 0 ELSE corrected + Count
  <1>1. /\ Count \in Nat \ {0}
        /\ corrected + Count <= UpdatePeriod
        /\ produced + Count <= noutput
    BY DEF Count, TypeOK, StepsCoverSamples, DopplerAssumption
  <1>2. corrected \in Nat /\ written \in Nat /\ noutput \in Nat /\ produced \in Nat
        /\ UpdatePeriod \in Nat
    BY DEF TypeOK, DopplerAssumption
  <1> HIDE DEF Count
  <1>3. CASE produced + Count < noutput
    BY <1>1, <1>2, <1>3 DEF Advance, Position
  <1>4. CASE ~ (produced + Count < noutput)
    <2>1. produced + Count = noutput
      BY <1>1, <1>2, <1>4
    <2> QED
      BY <1>1, <1>2, <1>4, <2>1 DEF Advance, Position
  <1> QED
    BY <1>3, <1>4

-----------------------------------------------------------------------------
(* The inductive invariant *)

LEMMA InitIInv == Init /\ DopplerAssumption => IInv
  <1> SUFFICES ASSUME Init, DopplerAssumption PROVE IInv
    OBVIOUS
  <1> USE DEF Init
  <1>1. TypeOK
    BY DEF TypeOK, DopplerAssumption
  <1>2. StepsCoverSamples
    BY NextStep DEF StepsCoverSamples, Position, NextStart, DopplerAssumption
  <1>3. TableCurrent
    BY DEF TableCurrent
  <1>4. IndexOnTime
    BY DEF IndexOnTime, NextStart, DopplerAssumption
  <1>5. AppliedIsPredicted
    BY DEF AppliedIsPredicted
  <1> QED
    BY <1>1, <1>2, <1>3, <1>4, <1>5 DEF IInv

\* A message or a reset sets the index to 0 in the middle of a step: it is on
\* time for the step that begins next.
LEMMA RestartOnTime ==
  ASSUME DopplerAssumption, TypeOK, StepsCoverSamples, noutput = 0,
         corrections' = 0, zero' = written, steps' = steps
  PROVE  IndexOnTime'
  <1>1. /\ steps \in Int
        /\ corrected \in 0 .. UpdatePeriod - 1
        /\ written \in Nat /\ UpdatePeriod \in Nat
    BY DEF TypeOK, DopplerAssumption
  <1>2. written = IF corrected = 0 THEN steps * UpdatePeriod
                                   ELSE (steps - 1) * UpdatePeriod + corrected
    BY <1>1 DEF StepsCoverSamples, Position, NextStart, StepStart
  <1>3. steps * UpdatePeriod - written \in 0 .. UpdatePeriod - 1
    BY <1>1, <1>2, NextStep
  <1> QED
    BY <1>1, <1>3 DEF IndexOnTime, NextStart, DopplerAssumption

LEMMA NewFreqKeepsIInv ==
  ASSUME IInv, DopplerAssumption, NEW diff \in Diffs, NewFreq(diff)
  PROVE  IInv'
  <1> USE DEF NewFreq, callVars
  <1>0. written \in Nat /\ data \in Seq([x : Nat, y : Diffs]) /\ Len(data) <= Degree
    BY DEF IInv, TypeOK
  <1>1. /\ data' \in Seq([x : Nat, y : Diffs])
        /\ data' # <<>>
        /\ Len(data') <= Degree
        /\ data'[Len(data')].x = written
        /\ \A k \in 1 .. Len(data') : data'[k].x <= written
        /\ \A k \in 1 .. Len(data') - 1 : data'[k].x <= data'[k + 1].x
    BY <1>0, FittedWindow DEF IInv, TableCurrent
  <1>2. TypeOK'
    BY <1>1, TableEntries DEF IInv, TypeOK, DopplerAssumption
  <1>3. StepsCoverSamples'
    BY DEF IInv, StepsCoverSamples, Position, StepStart, NextStart
  <1>4. TableCurrent'
    BY <1>1 DEF TableCurrent
  <1>5. IndexOnTime'
    BY RestartOnTime DEF IInv
  <1>6. AppliedIsPredicted'
    <2> SUFFICES ASSUME (corrected # 0)', IsReady(data)',
                        (StepStart >= data[Degree].x)'
                 PROVE  FALSE
      BY DEF AppliedIsPredicted
    <2>1. data'[Degree].x = written
      BY <1>1 DEF IsReady
    <2>2. /\ written = StepStart + corrected
          /\ corrected > 0
          /\ StepStart' = StepStart
          /\ StepStart \in Int
      BY NextStep
      DEF IInv, TypeOK, StepsCoverSamples, Position, StepStart, DopplerAssumption
    <2> QED
      BY <1>0, <2>1, <2>2 DEF IInv, TypeOK
  <1> QED
    BY <1>2, <1>3, <1>4, <1>5, <1>6 DEF IInv

LEMMA ResetKeepsIInv ==
  ASSUME IInv, DopplerAssumption, Reset
  PROVE  IInv'
  <1> USE DEF Reset, callVars
  <1>1. TypeOK'
    BY DEF IInv, TypeOK, DopplerAssumption
  <1>2. StepsCoverSamples'
    BY DEF IInv, StepsCoverSamples, Position, StepStart, NextStart
  <1>3. TableCurrent'
    BY DEF IInv, TableCurrent
  <1>4. IndexOnTime'
    BY RestartOnTime DEF IInv
  <1>5. AppliedIsPredicted'
    BY DEF IInv, AppliedIsPredicted, StepStart
  <1> QED
    BY <1>1, <1>2, <1>3, <1>4, <1>5 DEF IInv

LEMMA WorkKeepsIInv ==
  ASSUME IInv, DopplerAssumption, NEW n \in 1 .. MaxOutput, Work(n),
         MaxOutput \in Int
  PROVE  IInv'
  <1> USE DEF Work, objectVars, history
  <1>1. TypeOK'
    BY DEF IInv, TypeOK
  <1>2. StepsCoverSamples'
    BY DEF IInv, TypeOK, StepsCoverSamples, Position, StepStart, NextStart
  <1>3. TableCurrent'
    BY DEF IInv, TableCurrent
  <1>4. IndexOnTime'
    BY DEF IInv, IndexOnTime, NextStart
  <1>5. AppliedIsPredicted'
    BY DEF IInv, AppliedIsPredicted, StepStart
  <1> QED
    BY <1>1, <1>2, <1>3, <1>4, <1>5 DEF IInv

LEMMA BeginStepKeepsIInv ==
  ASSUME IInv, DopplerAssumption, BeginStep
  PROVE  IInv'
  <1> USE DEF BeginStep
  <1>0. /\ steps \in Nat /\ zero \in Nat /\ UpdatePeriod \in Nat \ {0}
        /\ CorrectionsPerSec \in Nat \ {0}
        /\ corrections \in 0 .. CorrectionsPerSec - 1
    BY DEF IInv, TypeOK, DopplerAssumption
  <1>1. /\ corrected' \in 0 .. UpdatePeriod - 1
        /\ written' \in Nat /\ noutput' \in Nat /\ produced' \in Nat
        /\ written' >= written
        /\ noutput' > 0 => produced' < noutput'
        /\ noutput' = 0 => produced' = 0
        /\ Count \in 1 .. UpdatePeriod
        /\ Position' = Position + Count
        /\ corrected' = IF Count = UpdatePeriod THEN 0 ELSE Count
    <2>1. corrected = 0 /\ Count \in Int
      BY DEF Count, IInv, TypeOK, DopplerAssumption
    <2> QED
      BY <2>1, AdvanceCovers DEF IInv
  <1>2. Second = CorrectionsPerSec * UpdatePeriod /\ Second \in Nat
    BY <1>0 DEF Second
  <1>3. TypeOK'
    <2>1. /\ DOMAIN predicted' = 0 .. CorrectionsPerSec - 1
          /\ corrections' \in 0 .. CorrectionsPerSec - 1
          /\ zero' \in Nat
      BY <1>0, <1>2, TableEntries DEF IInv, TypeOK
    <2> QED
      BY <1>0, <1>1, <2>1 DEF IInv, TypeOK
  <1>4. StepsCoverSamples'
    <2>1. Position = steps * UpdatePeriod
      BY DEF IInv, StepsCoverSamples, NextStart
    <2>2. /\ NextStart' = steps * UpdatePeriod + UpdatePeriod
          /\ StepStart' = steps * UpdatePeriod
          /\ steps * UpdatePeriod \in Int
      BY <1>0, NextStep DEF NextStart, StepStart
    <2>3. Position' = IF corrected' = 0 THEN NextStart' ELSE StepStart' + corrected'
      BY <1>0, <1>1, <2>1, <2>2
    <2> QED
      BY <1>1, <2>3 DEF StepsCoverSamples
  <1>5. TableCurrent'
    <2>1. \A k \in 1 .. Len(data) : data[k].x \in Nat
      BY IndicesAreNat DEF IInv
    <2>2. \A k \in 1 .. Len(data) : data[k].x <= written
      BY DEF IInv, TableCurrent
    <2>3. written \in Nat
      BY DEF IInv, TypeOK
    <2>4. ASSUME NEW k \in 1 .. Len(data) PROVE data[k].x <= written'
      <3>1. data[k].x \in Nat /\ data[k].x <= written
        BY <2>1, <2>2
      <3> QED
        BY ONLY <1>1, <2>3, <3>1
    <2> QED
      BY <2>4 DEF IInv, TableCurrent
  <1>6. IndexOnTime'
    <2>1. /\ NextStart' = steps * UpdatePeriod + UpdatePeriod
          /\ steps * UpdatePeriod \in Int
          /\ (corrections + 1) * UpdatePeriod
               = corrections * UpdatePeriod + UpdatePeriod
          /\ corrections * UpdatePeriod \in Int
      BY <1>0, NextStep DEF NextStart
    <2>2. steps * UpdatePeriod - (zero + corrections * UpdatePeriod)
            \in 0 .. UpdatePeriod - 1
      BY DEF IInv, IndexOnTime, NextStart
    <2>3. zero' + corrections' * UpdatePeriod
            = zero + corrections * UpdatePeriod + UpdatePeriod
      <3>1. CASE corrections + 1 = CorrectionsPerSec
        <4>1. zero' = zero + CorrectionsPerSec * UpdatePeriod /\ corrections' = 0
          BY <3>1 DEF Second
        <4>2. CorrectionsPerSec * UpdatePeriod
                = corrections * UpdatePeriod + UpdatePeriod
          BY <3>1, <2>1
        <4>3. 0 * UpdatePeriod = 0
          BY <1>0
        <4> QED
          BY <1>0, <2>1, <4>1, <4>2, <4>3
      <3>2. CASE corrections + 1 # CorrectionsPerSec
        <4>1. zero' = zero /\ corrections' = corrections + 1
          BY <3>2
        <4> QED
          BY <1>0, <2>1, <4>1
      <3> QED
        BY <3>1, <3>2
    <2> QED
      BY <1>0, <2>1, <2>2, <2>3 DEF IndexOnTime
  <1>7. AppliedIsPredicted'
    <2> SUFFICES ASSUME IsReady(data), StepStart' >= data[Degree].x
                 PROVE  \E k \in 0 .. CorrectionsPerSec - 1 :
                          /\ nco' = L(data, data[Degree].x + k * UpdatePeriod)
                          /\ StepStart' - (stepZero' + k * UpdatePeriod)
                               \in 0 .. UpdatePeriod - 1
      BY DEF AppliedIsPredicted
    <2>1. data # <<>>
      BY DEF IsReady, DopplerAssumption
    <2>2. nco' = L(data, data[Degree].x + corrections * UpdatePeriod)
      BY <1>0, <2>1, TableEntries DEF IInv, TableCurrent
    <2>3. StepStart' = NextStart /\ stepZero' = zero
      BY <1>0 DEF StepStart, NextStart
    <2>4. StepStart' - (stepZero' + corrections * UpdatePeriod)
            \in 0 .. UpdatePeriod - 1
      BY <2>3 DEF IInv, IndexOnTime
    <2> QED
      BY <1>0, <2>2, <2>4
  <1> QED
    BY <1>3, <1>4, <1>5, <1>6, <1>7 DEF IInv

LEMMA ContinueStepKeepsIInv ==
  ASSUME IInv, DopplerAssumption, ContinueStep
  PROVE  IInv'
  <1> USE DEF ContinueStep, history
  <1>0. /\ steps \in Nat /\ UpdatePeriod \in Nat \ {0}
        /\ corrected \in 1 .. UpdatePeriod - 1
    BY DEF IInv, TypeOK, DopplerAssumption
  <1>1. /\ corrected' \in 0 .. UpdatePeriod - 1
        /\ written' \in Nat /\ noutput' \in Nat /\ produced' \in Nat
        /\ written' >= written
        /\ noutput' > 0 => produced' < noutput'
        /\ noutput' = 0 => produced' = 0
        /\ corrected + Count \in 1 .. UpdatePeriod
        /\ Position' = Position + Count
        /\ corrected' = IF corrected + Count = UpdatePeriod
                          THEN 0 ELSE corrected + Count
    BY AdvanceCovers DEF IInv
  <1>2. TypeOK'
    BY <1>1 DEF IInv, TypeOK
  <1>3. StepsCoverSamples'
    <2>1. Position = StepStart + corrected
      BY <1>0 DEF IInv, StepsCoverSamples
    <2>2. /\ NextStart = StepStart + UpdatePeriod
          /\ StepStart \in Int
          /\ NextStart' = NextStart /\ StepStart' = StepStart
      BY <1>0, NextStep DEF NextStart, StepStart
    <2>3. Count \in Int
      BY DEF Count, IInv, TypeOK, DopplerAssumption
    <2>4. Position' = IF corrected' = 0 THEN NextStart' ELSE StepStart' + corrected'
      BY <1>0, <1>1, <2>1, <2>2, <2>3
    <2> QED
      BY <1>1, <2>4 DEF StepsCoverSamples
  <1>4. TableCurrent'
    <2>1. \A k \in 1 .. Len(data) : data[k].x \in Nat
      BY IndicesAreNat DEF IInv
    <2>2. \A k \in 1 .. Len(data) : data[k].x <= written
      BY DEF IInv, TableCurrent
    <2>3. written \in Nat
      BY DEF IInv, TypeOK
    <2>4. ASSUME NEW k \in 1 .. Len(data) PROVE data[k].x <= written'
      <3>1. data[k].x \in Nat /\ data[k].x <= written
        BY <2>1, <2>2
      <3> QED
        BY ONLY <1>1, <2>3, <3>1
    <2> QED
      BY <2>4 DEF IInv, TableCurrent
  <1>5. IndexOnTime'
    BY DEF IInv, IndexOnTime, NextStart
  <1>6. AppliedIsPredicted'
    BY <1>0 DEF IInv, AppliedIsPredicted, StepStart
  <1> QED
    BY <1>2, <1>3, <1>4, <1>5, <1>6 DEF IInv

LEMMA NextIInv ==
  ASSUME DopplerAssumption, IInv, [Next]_vars
  PROVE  IInv'
  <1>1. ASSUME NEW diff \in Diffs, NewFreq(diff) PROVE IInv'
    BY <1>1, NewFreqKeepsIInv
  <1>2. CASE Reset
    BY <1>2, ResetKeepsIInv
  <1>3. ASSUME NEW n \in 1 .. MaxOutput, Work(n) PROVE IInv'
    <2>1. MaxOutput \in Int
      BY DEF MaxOutput, Second, DopplerAssumption
    <2> QED
      BY <1>3, <2>1, WorkKeepsIInv
  <1>4. CASE BeginStep
    BY <1>4, BeginStepKeepsIInv
  <1>5. CASE ContinueStep
    BY <1>5, ContinueStepKeepsIInv
  <1>6. CASE UNCHANGED vars
    BY <1>6
    DEF vars, objectVars, callVars, history, IInv, TypeOK, StepsCoverSamples,
        TableCurrent, IndexOnTime, AppliedIsPredicted, Position, StepStart,
        NextStart
  <1> QED
    BY <1>1, <1>2, <1>3, <1>4, <1>5, <1>6 DEF Next, Turn

\* In every behaviour of the block all of the invariants hold, whatever calls
\* and messages it gets.
THEOREM Invariance == Spec => []IInv
  <1>1. Init => IInv
    BY InitIInv, DopplerAssumption
  <1>2. IInv /\ [Next]_vars => IInv'
    BY NextIInv, DopplerAssumption
  <1> QED
    BY <1>1, <1>2, PTL DEF Spec

\* Every field keeps its type, and d_corrections never leaves the table.
THEOREM TypeCorrect == Spec => []TypeOK
  <1>1. IInv => TypeOK
    BY DEF IInv
  <1> QED
    BY <1>1, Invariance, PTL

\* work() never skips or repeats a part of a correction step.
THEOREM StepsCover == Spec => []StepsCoverSamples
  <1>1. IInv => StepsCoverSamples
    BY DEF IInv
  <1> QED
    BY <1>1, Invariance, PTL

\* The table is the one that doppler_fit makes of the points it has, whatever
\* messages, resets and calls come between; the points are in stream order and
\* none is ahead of the stream, so that L subtracts no larger index.
THEOREM TableIsCurrent == Spec => []TableCurrent
  <1>1. IInv => TableCurrent
    BY DEF IInv
  <1> QED
    BY <1>1, Invariance, PTL

\* The frequency of a step is the one predicted for it from the newest point.
THEOREM PredictionApplied == Spec => []AppliedIsPredicted
  <1>1. IInv => AppliedIsPredicted
    BY DEF IInv
  <1> QED
    BY <1>1, Invariance, PTL
=============================================================================
