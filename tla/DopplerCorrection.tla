------------------------- MODULE DopplerCorrection --------------------------
(***************************************************************************)
(* doppler_correction_cc (lib/doppler_correction_cc_impl.cc): samples are  *)
(* multiplied with an oscillator, one frequency for each correction step   *)
(* of UpdatePeriod samples.  The frequencies come from a table, a second   *)
(* long, which doppler_fit fills when a frequency message arrives.         *)
(*                                                                         *)
(* work() and the message handlers run in one thread: messages fall        *)
(* between two calls of work(), anywhere in a correction step.  A call is  *)
(* Work and then one action for each turn of its loop.                     *)
(***************************************************************************)
EXTENDS DopplerFit

CONSTANTS
  CorrectionsPerSec,   \* d_corrections_per_sec
  UpdatePeriod,        \* d_update_period, in samples
  Offset,              \* d_offset
  Diffs,               \* what d_freq_diff may be for a message
  Garbage,             \* what new double[] may hold
  MaxItems,            \* bound: samples in a behaviour
  MaxMessages,         \* bound: frequency messages in a behaviour
  MaxResets            \* bound: reset messages in a behaviour

ASSUME DopplerAssumption ==
  /\ Degree \in Nat \ {0}
  /\ CorrectionsPerSec \in Nat \ {0}
  /\ UpdatePeriod \in Nat \ {0}
  /\ MaxItems \in Nat
  /\ MaxMessages \in Nat
  /\ MaxResets \in Nat

VARIABLES
  \* the block
  data,          \* d_doppler_fit_engine: d_data
  predicted,     \* d_predicted_freqs
  corrections,   \* d_corrections
  corrected,     \* d_corrected_samples
  nco,           \* the frequency in d_nco_buff
  \* the call in progress
  written,       \* nitems_written(0), as the scheduler counts it
  noutput,       \* noutput_items, 0 between two calls
  produced,      \* produced
  \* history
  steps,         \* correction steps begun
  messages,      \* frequency messages so far
  resets,        \* reset messages so far
  zero,          \* the sample predicted[0] is for: that of the last message,
                 \* one second later each time the table starts again
  stepZero       \* zero, when the last correction step began

objectVars == <<data, predicted, corrections, corrected, nco>>
callVars == <<written, noutput, produced>>
history == <<steps, messages, resets, zero, stepZero>>
vars == <<objectVars, callVars, history>>

Second == CorrectionsPerSec * UpdatePeriod

\* set_max_noutput_items(d_samp_rate / 2.0)
MaxOutput == Second \div 2

\* The next sample to correct.
Position == written + produced

-----------------------------------------------------------------------------
(* The block *)

Init ==
  /\ data = <<>>
  /\ predicted \in [0 .. CorrectionsPerSec - 1 -> Garbage]
  /\ corrections = 0
  /\ corrected = 0
  /\ nco = Offset
  /\ written = 0
  /\ noutput = 0
  /\ produced = 0
  /\ steps = 0
  /\ messages = 0
  /\ resets = 0
  /\ zero = 0
  /\ stepZero = 0

\* Faulty variant: the correction step in progress is cut short.
NewFreqCutsStep(diff) ==
  /\ noutput = 0
  /\ messages < MaxMessages
  /\ messages' = messages + 1
  /\ data' = Fitted(data, written, diff)
  /\ predicted' = Predicted(data', CorrectionsPerSec, UpdatePeriod)
  /\ corrections' = 0
  /\ corrected' = 0
  /\ zero' = written
  /\ UNCHANGED <<nco, callVars, steps, resets, stepZero>>

\* Faulty variant: the table is filled before the new point is known.
NewFreqTableFirst(diff) ==
  /\ noutput = 0
  /\ messages < MaxMessages
  /\ messages' = messages + 1
  /\ data' = Fitted(data, written, diff)
  /\ predicted' = Predicted(data, CorrectionsPerSec, UpdatePeriod)
  /\ corrections' = 0
  /\ zero' = written
  /\ UNCHANGED <<corrected, nco, callVars, steps, resets, stepZero>>

\* new_freq
NewFreq(diff) ==
  /\ noutput = 0
  /\ messages < MaxMessages
  /\ messages' = messages + 1
  /\ data' = Fitted(data, written, diff)
  /\ predicted' = Predicted(data', CorrectionsPerSec, UpdatePeriod)
  /\ corrections' = 0
  /\ zero' = written
  /\ UNCHANGED <<corrected, nco, callVars, steps, resets, stepZero>>

\* reset: the table is read from its start again.
Reset ==
  /\ noutput = 0
  /\ resets < MaxResets
  /\ resets' = resets + 1
  /\ corrections' = 0
  /\ zero' = written
  /\ UNCHANGED <<data, predicted, corrected, nco, callVars, steps, messages,
                 stepZero>>

\* The scheduler calls work().
Work(n) ==
  /\ noutput = 0
  /\ written + n <= MaxItems
  /\ noutput' = n
  /\ produced' = 0
  /\ UNCHANGED <<objectVars, written, history>>

-----------------------------------------------------------------------------
(* One turn of the loop of work() *)

\* The samples this turn corrects: the rest of the step or of the call.
Count == IF UpdatePeriod - corrected < noutput - produced
           THEN UpdatePeriod - corrected
           ELSE noutput - produced

\* The samples are corrected; behind the last one the call returns.
Advance ==
  /\ corrected' = IF corrected + Count = UpdatePeriod
                    THEN 0 ELSE corrected + Count
  /\ IF produced + Count < noutput
       THEN /\ produced' = produced + Count
            /\ UNCHANGED <<written, noutput>>
       ELSE /\ written' = written + noutput
            /\ noutput' = 0
            /\ produced' = 0

\* Faulty variant: the index is advanced before it is used.
BeginStepNextIndex ==
  /\ noutput > 0
  /\ corrected = 0
  /\ nco' = predicted[(corrections + 1) % CorrectionsPerSec]
  /\ IF corrections + 1 = CorrectionsPerSec
       THEN /\ corrections' = 0
            /\ predicted' = Predicted(data, CorrectionsPerSec, UpdatePeriod)
            /\ zero' = zero + Second
       ELSE /\ corrections' = corrections + 1
            /\ UNCHANGED <<predicted, zero>>
  /\ Advance
  /\ steps' = steps + 1
  /\ stepZero' = zero
  /\ UNCHANGED <<data, messages, resets>>

\* Faulty variant: the end of the table is tested one entry late.
BeginStepLateWrap ==
  /\ noutput > 0
  /\ corrected = 0
  /\ nco' = predicted[corrections % CorrectionsPerSec]
  /\ IF corrections = CorrectionsPerSec
       THEN /\ corrections' = 0
            /\ predicted' = Predicted(data, CorrectionsPerSec, UpdatePeriod)
            /\ zero' = zero + Second
       ELSE /\ corrections' = corrections + 1
            /\ UNCHANGED <<predicted, zero>>
  /\ Advance
  /\ steps' = steps + 1
  /\ stepZero' = zero
  /\ UNCHANGED <<data, messages, resets>>

\* A new correction step.  Behind the last entry the table is filled again,
\* from the same points.
BeginStep ==
  /\ noutput > 0
  /\ corrected = 0
  /\ nco' = predicted[corrections]
  /\ IF corrections + 1 = CorrectionsPerSec
       THEN /\ corrections' = 0
            /\ predicted' = Predicted(data, CorrectionsPerSec, UpdatePeriod)
            /\ zero' = zero + Second
       ELSE /\ corrections' = corrections + 1
            /\ UNCHANGED <<predicted, zero>>
  /\ Advance
  /\ steps' = steps + 1
  /\ stepZero' = zero
  /\ UNCHANGED <<data, messages, resets>>

\* The rest of a step that a call or a message came between.
ContinueStep ==
  /\ noutput > 0
  /\ corrected # 0
  /\ Advance
  /\ UNCHANGED <<data, predicted, corrections, nco, history>>

-----------------------------------------------------------------------------
(* Specification *)

Turn == BeginStep \/ ContinueStep

Next ==
  \/ \E diff \in Diffs : NewFreq(diff)
  \/ Reset
  \/ \E n \in 1 .. MaxOutput : Work(n)
  \/ Turn

Spec == Init /\ [][Next]_vars

-----------------------------------------------------------------------------
(* Properties *)

\* Every variable has its type; no entry past the table is ever read.
TypeOK ==
  /\ data \in Seq([x : Nat, y : Diffs]) /\ Len(data) <= Degree
  /\ DOMAIN predicted = 0 .. CorrectionsPerSec - 1
  /\ corrections \in 0 .. CorrectionsPerSec - 1
  /\ corrected \in 0 .. UpdatePeriod - 1
  /\ written \in Nat
  /\ noutput \in Nat
  /\ produced \in Nat
  /\ steps \in Nat
  /\ messages \in Nat
  /\ resets \in Nat
  /\ zero \in Nat
  /\ stepZero \in Nat

\* First sample of the correction step in progress, and of the next one.
StepStart == (steps - 1) * UpdatePeriod
NextStart == steps * UpdatePeriod

\* Correction steps follow each other without gap or overlap, UpdatePeriod
\* samples each, however work() and messages cut them: as many steps have
\* begun as the samples corrected need.
StepsCoverSamples ==
  /\ noutput > 0 => produced < noutput
  /\ noutput = 0 => produced = 0
  /\ Position = IF corrected = 0 THEN NextStart ELSE StepStart + corrected

\* The table belongs to the points of the last message.  The points are in
\* stream order, none is ahead of the stream: the differences that L takes
\* from a predicted sample do not wrap.
TableCurrent ==
  /\ \A k \in 1 .. Len(data) : data[k].x <= written
  /\ \A k \in 1 .. Len(data) - 1 : data[k].x <= data[k + 1].x
  /\ data # <<>> =>
       predicted = Predicted(data, CorrectionsPerSec, UpdatePeriod)

\* Entry k of the table is used for a correction step that begins less than
\* one step behind the sample it was predicted for, wherever in a step the
\* message or the reset came.
IndexOnTime ==
  NextStart - (zero + corrections * UpdatePeriod) \in 0 .. UpdatePeriod - 1

\* A correction step that began behind the last message uses the frequency
\* that is predicted from this message, for a sample less than one step before
\* its first one; this is from UpdatePeriod samples after the message on.  When
\* no message comes for a second the table starts again (comment at line 158).
AppliedIsPredicted ==
  (/\ corrected # 0
   /\ IsReady(data)
   /\ StepStart >= data[Degree].x) =>
     \E k \in 0 .. CorrectionsPerSec - 1 :
       /\ nco = L(data, data[Degree].x + k * UpdatePeriod)
       /\ StepStart - (stepZero + k * UpdatePeriod) \in 0 .. UpdatePeriod - 1

\* include/satnogs/doppler_fit.h: "Doppler frequency fitting using Lagrange
\* extrapolation", and behind the last message work() "should continue using
\* the predicted frequencies": when the frequency has been the same for all
\* points it is the one that is used.
SteadyFrequency ==
  (/\ corrected # 0
   /\ IsReady(data)
   /\ StepStart >= data[Degree].x
   /\ \A j, k \in 1 .. Degree : data[j].y = data[k].y
   /\ \A k \in 1 .. Degree - 1 : data[k].x < data[k + 1].x) =>
     nco = data[Degree].y
=============================================================================
