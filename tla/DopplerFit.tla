----------------------------- MODULE DopplerFit -----------------------------
(***************************************************************************)
(* doppler_fit (lib/doppler_fit.cc): the last `Degree` frequencies with    *)
(* the sample index of each, and what is predicted from them.  d_data is a *)
(* sequence of points; d_ready is IsReady.  Sample indices are uint64_t:   *)
(* differences wrap and quotients are integers.  Frequencies are integers  *)
(* here, for which the code's doubles are exact.                           *)
(***************************************************************************)
EXTENDS Integers, Sequences

LOCAL INSTANCE FiniteSetsExt

CONSTANTS
  Degree,   \* d_degree
  Modulus   \* 2^64: sample indices are counted modulo this

IsReady(data) == Len(data) = Degree

\* fit: the window is filled, then moved.
Fitted(data, x, y) ==
  Append(IF IsReady(data) THEN Tail(data) ELSE data, [x |-> x, y |-> y])

Minus(a, b) == (a - b) % Modulus

\* The factor for the points i and j, for sample x.
Factor(data, x, i, j) ==
  Minus(x, data[j].x) \div Minus(data[i].x, data[j].x)

Term(data, x, i) ==
  FoldSet(LAMBDA j, m : m * Factor(data, x, i, j),
          data[i].y,
          {j \in 1 .. Degree : j # i /\ data[j].x # data[i].x})

\* L
L(data, x) == FoldSet(LAMBDA i, sum : sum + Term(data, x, i), 0, 1 .. Degree)

\* predict_freqs
Predicted(data, n, period) ==
  [k \in 0 .. n - 1 |->
     IF IsReady(data) THEN L(data, data[Degree].x + k * period) ELSE 0]
=============================================================================
