--------------------------- MODULE DecoderLemmas ---------------------------
(***************************************************************************)
(* Facts about numbers, sequences, bits, octets, registers and frames that *)
(* the proofs of several components use: above all that destuffing undoes  *)
(* stuffing, that stuffed bits never look like a flag, and so that octets  *)
(* stuffed between two flags are a frame.                                  *)
(***************************************************************************)
EXTENDS HDLC, SequenceTheorems, FiniteSetTheorems,
        WellFoundedInduction, TLAPS

\* What is left of a sequence behind its first n elements.
Rest(s, n) == SubSeq(s, n + 1, Len(s))

\* A sequence, whatever its elements.
IsSequence(s) == s \in Seq({s[k] : k \in 1 .. Len(s)})

\* A set of natural numbers that is not empty has a least element.
LEMMA LeastNat ==
  ASSUME NEW T, T \subseteq Nat, T # {}
  PROVE  \E least \in T : \A n \in T : least <= n
<1>. DEFINE less == {pair \in Nat \X Nat : pair[1] < pair[2]}
<1>1. \A m, n \in Nat : <<m, n>> \in less <=> m < n
  OBVIOUS
<1>2. IsWellFoundedOn(less, Nat)
  BY NatLessThanWellFounded DEF OpToRel
<1>. HIDE DEF less
<1>3. PICK least \in T : \A n \in T : ~ (<<n, least>> \in less)
  BY <1>2, WFMin
<1>4. ASSUME NEW n \in T
      PROVE  least <= n
  <2>1. n \in Nat /\ least \in Nat
    OBVIOUS
  <2>2. ~ (n < least)
    BY <1>1, <1>3, <2>1
  <2>. QED
    BY <2>1, <2>2
<1>. QED
  BY <1>4

\* A set that holds 0 and with each number the next one holds all up to n.
LEMMA UpToNat ==
  ASSUME NEW n \in Nat, NEW T, 0 \in T,
         \A k \in 0 .. n : k \in T /\ k < n => k + 1 \in T
  PROVE  0 .. n \subseteq T
<1>. DEFINE missing == {k \in 0 .. n : k \notin T}
<1>1. ASSUME missing # {}
      PROVE  FALSE
  <2>1. PICK least \in missing : \A k \in missing : least <= k
    <3>1. missing \subseteq Nat
      OBVIOUS
    <3>. HIDE DEF missing
    <3>. QED
      BY <1>1, <3>1, LeastNat
  <2>2. least \in 0 .. n /\ least # 0
    OBVIOUS
  <2>3. least - 1 \in 0 .. n /\ least - 1 < n /\ (least - 1) + 1 = least
        /\ ~ (least <= least - 1)
    BY <2>2
  <2>4. least - 1 \notin missing
    <3>. HIDE DEF missing
    <3>. QED
      BY <2>1, <2>3
  <2>5. least - 1 \in T
    BY <2>3, <2>4
  <2>6. least \in T
    BY <2>3, <2>5
  <2>. QED
    BY <2>6
<1>. QED
  BY <1>1

-----------------------------------------------------------------------------
(* Recursion over a sequence: a state after each of its prefixes *)

IsStep(step, S, B) == \A x \in S, b \in B : step[x][b] \in S

\* The states after the first 0 .. n elements of s.
Runs(step, s, g, n) == \A k \in 1 .. n : g[k] = step[g[k - 1]][s[k]]

\* There is such a function for every sequence.
LEMMA PrefixRecursion ==
  ASSUME NEW S, NEW B, NEW step, IsStep(step, S, B), NEW first \in S,
         NEW s \in Seq(B)
  PROVE  \E g \in [0 .. Len(s) -> S] : g[0] = first /\ Runs(step, s, g, Len(s))
<1>. DEFINE good == {m \in 0 .. Len(s) :
                       \E g \in [0 .. m -> S] : g[0] = first /\ Runs(step, s, g, m)}
<1>1. Len(s) \in Nat
  BY LenProperties
<1>2. 0 \in good
  <2>. DEFINE h == [k \in 0 .. 0 |-> first]
  <2>1. h \in [0 .. 0 -> S] /\ h[0] = first /\ Runs(step, s, h, 0)
    BY DEF Runs
  <2>. HIDE DEF h
  <2>. QED
    BY <1>1, <2>1
<1>3. ASSUME NEW m \in 0 .. Len(s), m \in good, m < Len(s)
      PROVE  m + 1 \in good
  <2>1. PICK g \in [0 .. m -> S] : g[0] = first /\ Runs(step, s, g, m)
    BY <1>3
  <2>2. m \in Nat /\ m + 1 \in 1 .. Len(s)
    BY <1>1, <1>3
  <2>. DEFINE next == step[g[m]][s[m + 1]]
              h == [k \in 0 .. m + 1 |-> IF k <= m THEN g[k] ELSE next]
  <2>3. next \in S
    <3>1. g[m] \in S /\ s[m + 1] \in B
      BY <2>2, ElementOfSeq
    <3>. QED
      BY <3>1 DEF IsStep
  <2>4. h \in [0 .. m + 1 -> S]
    <3>1. \A k \in 0 .. m + 1 : k <= m => k \in 0 .. m
      BY <2>2
    <3>. HIDE DEF next
    <3>. QED
      BY <2>3, <3>1
  <2>5. h[0] = first
    BY <2>1, <2>2
  <2>6. ASSUME NEW k \in 1 .. m + 1
        PROVE  h[k] = step[h[k - 1]][s[k]]
    <3>1. CASE k <= m
      <4>1. k \in 1 .. m /\ k - 1 \in 0 .. m + 1 /\ k - 1 <= m /\ k \in 0 .. m + 1
        BY <2>2, <3>1
      <4>2. g[k] = step[g[k - 1]][s[k]]
        BY <2>1, <4>1 DEF Runs
      <4>3. h[k] = g[k] /\ h[k - 1] = g[k - 1]
        BY <3>1, <4>1
      <4>. HIDE DEF h
      <4>. QED
        BY <4>2, <4>3
    <3>2. CASE ~ (k <= m)
      <4>1. k = m + 1 /\ k - 1 = m
        BY <2>2, <3>2
      <4>2. h[m + 1] = next /\ h[m] = g[m]
        BY <2>2
      <4>. HIDE DEF h
      <4>. QED
        BY <4>1, <4>2
    <3>. QED
      BY <3>1, <3>2
  <2>. HIDE DEF h
  <2>7. Runs(step, s, h, m + 1)
    BY <2>6 DEF Runs
  <2>. QED
    BY <2>2, <2>4, <2>5, <2>7
<1>. HIDE DEF good
<1>4. 0 .. Len(s) \subseteq good
  <2>1. \A m \in 0 .. Len(s) : m \in good /\ m < Len(s) => m + 1 \in good
    BY <1>3
  <2>. QED
    BY <1>1, <1>2, <2>1, UpToNat
<1>5. Len(s) \in good
  BY <1>1, <1>4
<1>. QED
  BY <1>5 DEF good

\* Two sequences with the same first n elements.
Agree(s, t, n) == \A k \in 1 .. n : s[k] = t[k]

\* Two of them agree on the prefixes their sequences share.
LEMMA PrefixesAgree ==
  ASSUME NEW step, NEW n \in Nat, NEW s, NEW t, NEW g, NEW h,
         Runs(step, s, g, n), Runs(step, t, h, n), g[0] = h[0], Agree(s, t, n)
  PROVE  \A k \in 0 .. n : g[k] = h[k]
<1>. DEFINE same == {k \in 0 .. n : g[k] = h[k]}
<1>1. 0 \in same
  OBVIOUS
<1>2. ASSUME NEW k \in 0 .. n, k \in same, k < n
      PROVE  k + 1 \in same
  <2>1. k + 1 \in 1 .. n /\ (k + 1) - 1 = k /\ k + 1 \in 0 .. n
    BY <1>2
  <2>2. g[k + 1] = step[g[k]][s[k + 1]] /\ h[k + 1] = step[h[k]][t[k + 1]]
    BY <2>1 DEF Runs
  <2>3. s[k + 1] = t[k + 1] /\ g[k] = h[k]
    BY <1>2, <2>1 DEF Agree
  <2>. QED
    BY <2>1, <2>2, <2>3
<1>3. 0 .. n \subseteq same
  <2>. HIDE DEF same
  <2>1. \A k \in 0 .. n : k \in same /\ k < n => k + 1 \in same
    BY <1>2
  <2>. QED
    BY <1>1, <2>1, UpToNat
<1>. QED
  BY <1>3

\* What is left after the first n are taken.
LEMMA RestProperties ==
  ASSUME NEW S, NEW s \in Seq(S), NEW n \in 0 .. Len(s)
  PROVE  /\ Rest(s, n) \in Seq(S)
         /\ Len(Rest(s, n)) = Len(s) - n
         /\ \A k \in 1 .. Len(s) - n : Rest(s, n)[k] = s[k + n]
<1>1. /\ Len(s) \in Nat
      /\ n + 1 \in Int
      /\ \A k \in n + 1 .. Len(s) : s[k] \in S
  BY LenProperties, ElementOfSeq
<1>2. /\ SubSeq(s, n + 1, Len(s)) \in Seq(S)
      /\ Len(SubSeq(s, n + 1, Len(s))) =
           IF n + 1 <= Len(s) THEN Len(s) - (n + 1) + 1 ELSE 0
      /\ \A k \in 1 .. Len(s) - (n + 1) + 1 :
           SubSeq(s, n + 1, Len(s))[k] = s[(n + 1) + k - 1]
  BY <1>1, SubSeqProperties
<1>. QED
  BY <1>1, <1>2 DEF Rest

\* Taking m and then n is taking m + n.
LEMMA RestRest ==
  ASSUME NEW S, NEW s \in Seq(S), NEW m \in 0 .. Len(s),
         NEW n \in 0 .. Len(s) - m
  PROVE  Rest(Rest(s, m), n) = Rest(s, m + n)
<1>. DEFINE d == Rest(s, m)
            e == Rest(d, n)
            f == Rest(s, m + n)
<1>1. Len(s) \in Nat
  BY LenProperties
<1>2. /\ d \in Seq(S)
      /\ Len(d) = Len(s) - m
      /\ \A k \in 1 .. Len(s) - m : d[k] = s[k + m]
  BY RestProperties
<1>3. n \in 0 .. Len(d)
  BY <1>2
<1>4. m + n \in 0 .. Len(s)
  BY <1>1
<1>. HIDE DEF d
<1>5. /\ e \in Seq(S)
      /\ Len(e) = Len(d) - n
      /\ \A k \in 1 .. Len(d) - n : e[k] = d[k + n]
  BY <1>2, <1>3, RestProperties
<1>6. /\ f \in Seq(S)
      /\ Len(f) = Len(s) - (m + n)
      /\ \A k \in 1 .. Len(s) - (m + n) : f[k] = s[k + (m + n)]
  BY <1>4, RestProperties
<1>. HIDE DEF e, f
<1>7. Len(e) = Len(f)
  BY <1>1, <1>2, <1>5, <1>6
<1>8. ASSUME NEW k \in 1 .. Len(e)
      PROVE  e[k] = f[k]
  <2>1. e[k] = d[k + n] /\ f[k] = s[k + (m + n)]
    BY <1>1, <1>2, <1>5, <1>6, <1>7
  <2>2. k + n \in 1 .. Len(s) - m /\ (k + n) + m = k + (m + n)
    BY <1>1, <1>2, <1>5
  <2>. QED
    BY <2>1, <2>2, <1>2
<1>9. e = f
  BY <1>5, <1>6, <1>7, <1>8, SeqEqual
<1>. QED
  BY <1>9 DEF d, e, f

\* What is appended stays behind the rest.
LEMMA RestConcat ==
  ASSUME NEW S, NEW s \in Seq(S), NEW t \in Seq(S), NEW n \in 0 .. Len(s)
  PROVE  Rest(s \o t, n) = Rest(s, n) \o t
<1>. DEFINE c == s \o t
            d == Rest(s, n)
            e == Rest(c, n)
            f == d \o t
<1>1. Len(s) \in Nat /\ Len(t) \in Nat
  BY LenProperties
<1>2. /\ c \in Seq(S)
      /\ Len(c) = Len(s) + Len(t)
      /\ \A k \in 1 .. Len(s) + Len(t) :
           c[k] = IF k <= Len(s) THEN s[k] ELSE t[k - Len(s)]
  BY ConcatProperties
<1>3. /\ d \in Seq(S)
      /\ Len(d) = Len(s) - n
      /\ \A k \in 1 .. Len(s) - n : d[k] = s[k + n]
  BY RestProperties
<1>. HIDE DEF c, d
<1>4. /\ e \in Seq(S)
      /\ Len(e) = Len(c) - n
      /\ \A k \in 1 .. Len(c) - n : e[k] = c[k + n]
  <2>1. n \in 0 .. Len(c)
    BY <1>1, <1>2
  <2>. QED
    BY <1>2, <2>1, RestProperties
<1>5. /\ f \in Seq(S)
      /\ Len(f) = Len(d) + Len(t)
      /\ \A k \in 1 .. Len(d) + Len(t) :
           f[k] = IF k <= Len(d) THEN d[k] ELSE t[k - Len(d)]
  BY <1>3, ConcatProperties
<1>. HIDE DEF e, f
<1>6. Len(e) = Len(f)
  BY <1>1, <1>2, <1>3, <1>4, <1>5
<1>7. ASSUME NEW k \in 1 .. Len(e)
      PROVE  e[k] = f[k]
  <2>1. k \in 1 .. Len(c) - n /\ k \in 1 .. Len(d) + Len(t)
        /\ k + n \in 1 .. Len(s) + Len(t)
    BY <1>1, <1>2, <1>3, <1>4
  <2>2. e[k] = IF k + n <= Len(s) THEN s[k + n] ELSE t[k + n - Len(s)]
    BY <2>1, <1>2, <1>4
  <2>3. f[k] = IF k <= Len(d) THEN d[k] ELSE t[k - Len(d)]
    BY <2>1, <1>5
  <2>4. CASE k <= Len(d)
    BY <2>1, <2>2, <2>3, <2>4, <1>1, <1>3
  <2>5. CASE ~ (k <= Len(d))
    <3>1. k + n - Len(s) = k - Len(d) /\ ~ (k + n <= Len(s))
      BY <2>5, <1>1, <1>3
    <3>. QED
      BY <3>1, <2>2, <2>3, <2>5
  <2>. QED
    BY <2>4, <2>5
<1>8. e = f
  BY <1>4, <1>5, <1>6, <1>7, SeqEqual
<1>. QED
  BY <1>8 DEF c, d, e, f

\* Taking nothing.
LEMMA RestNone ==
  ASSUME NEW S, NEW s \in Seq(S)
  PROVE  Rest(s, 0) = s
BY SubSeqFull, LenProperties DEF Rest

\* A piece of a sequence.
LEMMA PieceProperties ==
  ASSUME NEW S, NEW s \in Seq(S), NEW from \in Nat, NEW to \in Nat,
         from >= 1, from <= to + 1, to <= Len(s)
  PROVE  /\ SubSeq(s, from, to) \in Seq(S)
         /\ Len(SubSeq(s, from, to)) = to - from + 1
         /\ \A k \in 1 .. to - from + 1 : SubSeq(s, from, to)[k] = s[from + k - 1]
<1>1. Len(s) \in Nat /\ \A k \in from .. to : s[k] \in S
  BY LenProperties, ElementOfSeq
<1>2. /\ SubSeq(s, from, to) \in Seq(S)
      /\ Len(SubSeq(s, from, to)) = IF from <= to THEN to - from + 1 ELSE 0
      /\ \A k \in 1 .. to - from + 1 : SubSeq(s, from, to)[k] = s[from + k - 1]
  BY <1>1, SubSeqProperties
<1>. QED
  BY <1>2

\* A sequence over any set is a sequence.
LEMMA SequenceOver ==
  ASSUME NEW S, NEW s \in Seq(S)
  PROVE  IsSequence(s)
<1>1. Len(s) \in Nat /\ s \in [1 .. Len(s) -> S]
  BY LenProperties
<1>2. s \in [1 .. Len(s) -> {s[k] : k \in 1 .. Len(s)}]
  BY <1>1
<1>. QED
  BY <1>1, <1>2, SeqDef DEF IsSequence

\* Appending to a sequence, whatever its elements.
LEMMA SequenceAppend ==
  ASSUME NEW s, IsSequence(s), NEW e
  PROVE  /\ IsSequence(Append(s, e))
         /\ Len(s) \in Nat
         /\ Len(Append(s, e)) = Len(s) + 1
         /\ \A k \in 1 .. Len(s) : Append(s, e)[k] = s[k]
         /\ Append(s, e)[Len(s) + 1] = e
<1>. DEFINE S == {s[k] : k \in 1 .. Len(s)}
            T == S \cup {e}
<1>1. s \in Seq(S)
  BY DEF IsSequence
<1>. HIDE DEF S
<1>2. s \in Seq(T) /\ e \in T /\ Len(s) \in Nat
  BY <1>1, SeqMonotonic, LenProperties
<1>. HIDE DEF T
<1>3. /\ Append(s, e) \in Seq(T)
      /\ Len(Append(s, e)) = Len(s) + 1
      /\ \A k \in 1 .. Len(s) : Append(s, e)[k] = s[k]
      /\ Append(s, e)[Len(s) + 1] = e
  BY <1>2, AppendProperties
<1>. QED
  BY <1>2, <1>3, SequenceOver

\* Appending is concatenating with a sequence of one element.
LEMMA ConcatOne ==
  ASSUME NEW s, IsSequence(s), NEW e
  PROVE  s \o <<e>> = Append(s, e)
<1>. DEFINE S == {s[k] : k \in 1 .. Len(s)}
            T == S \cup {e}
<1>1. s \in Seq(S)
  BY DEF IsSequence
<1>. HIDE DEF S
<1>2. s \in Seq(T) /\ e \in T
  BY <1>1, SeqMonotonic
<1>. HIDE DEF T
<1>. QED
  BY <1>2, AppendIsConcat

\* Concatenating sequences, whatever their elements.
LEMMA SequenceConcat ==
  ASSUME NEW s, NEW t, IsSequence(s), IsSequence(t)
  PROVE  /\ IsSequence(s \o t)
         /\ Len(s) \in Nat /\ Len(t) \in Nat
         /\ Len(s \o t) = Len(s) + Len(t)
         /\ \A k \in 1 .. Len(s) + Len(t) :
              (s \o t)[k] = IF k <= Len(s) THEN s[k] ELSE t[k - Len(s)]
<1>. DEFINE S == {s[k] : k \in 1 .. Len(s)}
            T == {t[k] : k \in 1 .. Len(t)}
            U == S \cup T
<1>1. s \in Seq(S) /\ t \in Seq(T)
  BY DEF IsSequence
<1>. HIDE DEF S, T
<1>2. s \in Seq(U) /\ t \in Seq(U) /\ Len(s) \in Nat /\ Len(t) \in Nat
  BY <1>1, SeqMonotonic, LenProperties
<1>. HIDE DEF U
<1>3. /\ s \o t \in Seq(U)
      /\ Len(s \o t) = Len(s) + Len(t)
      /\ \A k \in 1 .. Len(s) + Len(t) :
           (s \o t)[k] = IF k <= Len(s) THEN s[k] ELSE t[k - Len(s)]
  BY <1>2, ConcatProperties
<1>. QED
  BY <1>2, <1>3, SequenceOver

\* A function on 1 .. n is a sequence of its values.
LEMMA FunctionSequence ==
  ASSUME NEW n \in Nat, NEW S, NEW f \in [1 .. n -> S]
  PROVE  f \in Seq(S) /\ Len(f) = n
<1>1. f \in Seq(S)
  BY SeqDef
<1>2. DOMAIN f = 1 .. n /\ DOMAIN f = 1 .. Len(f) /\ Len(f) \in Nat
  BY <1>1, LenProperties
<1>. QED
  BY <1>1, <1>2

-----------------------------------------------------------------------------
(* The sample ranges of published frames *)

RangeOf(f) == [start |-> f.start, cnt |-> f.cnt]

RangesOf(frames) == [j \in 1 .. Len(frames) |-> RangeOf(frames[j])]

\* The ranges are those of the frames, one by one.
LEMMA RangesProperties ==
  ASSUME NEW frames, IsSequence(frames)
  PROVE  /\ IsSequence(RangesOf(frames))
         /\ Len(frames) \in Nat
         /\ Len(RangesOf(frames)) = Len(frames)
         /\ \A j \in 1 .. Len(frames) : RangesOf(frames)[j] = RangeOf(frames[j])
<1>1. Len(frames) \in Nat
  BY LenProperties DEF IsSequence
<1>. DEFINE S == {RangeOf(frames[j]) : j \in 1 .. Len(frames)}
            g == RangesOf(frames)
<1>2. g \in [1 .. Len(frames) -> S] /\ \A j \in 1 .. Len(frames) : g[j] = RangeOf(frames[j])
  BY DEF RangesOf
<1>. HIDE DEF S, g
<1>3. g \in Seq(S) /\ Len(g) = Len(frames)
  BY <1>1, <1>2, FunctionSequence
<1>4. IsSequence(g)
  BY <1>3, SequenceOver
<1>. QED
  BY <1>1, <1>2, <1>3, <1>4 DEF g

\* One more frame, one more range.
LEMMA RangesAppend ==
  ASSUME NEW frames, IsSequence(frames), NEW f
  PROVE  RangesOf(Append(frames, f)) = Append(RangesOf(frames), RangeOf(f))
<1>. DEFINE more == Append(frames, f)
            g == RangesOf(more)
            h == Append(RangesOf(frames), RangeOf(f))
<1>1. /\ IsSequence(more) /\ Len(frames) \in Nat
      /\ Len(more) = Len(frames) + 1
      /\ \A j \in 1 .. Len(frames) : more[j] = frames[j]
      /\ more[Len(frames) + 1] = f
  BY SequenceAppend
<1>2. /\ IsSequence(RangesOf(frames))
      /\ Len(RangesOf(frames)) = Len(frames)
      /\ \A j \in 1 .. Len(frames) : RangesOf(frames)[j] = RangeOf(frames[j])
  BY RangesProperties
<1>. HIDE DEF more
<1>3. /\ IsSequence(g)
      /\ Len(g) = Len(more)
      /\ \A j \in 1 .. Len(more) : g[j] = RangeOf(more[j])
  BY <1>1, RangesProperties
<1>4. /\ IsSequence(h)
      /\ Len(h) = Len(RangesOf(frames)) + 1
      /\ \A j \in 1 .. Len(RangesOf(frames)) : h[j] = RangesOf(frames)[j]
      /\ h[Len(RangesOf(frames)) + 1] = RangeOf(f)
  BY <1>2, SequenceAppend
<1>. HIDE DEF g, h
<1>5. Len(g) = Len(h)
  BY <1>1, <1>2, <1>3, <1>4
<1>6. ASSUME NEW j \in 1 .. Len(g)
      PROVE  g[j] = h[j]
  <2>1. CASE j \in 1 .. Len(frames)
    BY <1>1, <1>2, <1>3, <1>4, <2>1
  <2>2. CASE j = Len(frames) + 1
    BY <1>1, <1>2, <1>3, <1>4, <2>2
  <2>. QED
    BY <1>1, <1>3, <2>1, <2>2
<1>7. g = h
  BY <1>3, <1>4, <1>5, <1>6, SeqEqual DEF IsSequence
<1>. QED
  BY <1>7 DEF g, h, more

-----------------------------------------------------------------------------
(* Octets and registers as functions of the stream *)

Reg == INSTANCE ShiftReg

\* What is there and what comes in a call.
Joined(v, w) == v \o w

\* The k-th octet behind this many bits of a stream, and the first n of them.
OctetFrom(s, at, k) == Reg!OctetOf(SubSeq(s, at + 8 * k - 7, at + 8 * k))
OctetsIn(s, at, n) == Reg!Octets(SubSeq(s, at + 1, at + 8 * n))

\* Eight bits make an octet.
LEMMA RegOctetType ==
  ASSUME NEW bits, \A k \in 1 .. 8 : bits[k] \in {0, 1}
  PROVE  Reg!OctetOf(bits) \in 0 .. 255
<1>1. /\ bits[1] \in {0, 1} /\ bits[2] \in {0, 1} /\ bits[3] \in {0, 1}
      /\ bits[4] \in {0, 1} /\ bits[5] \in {0, 1} /\ bits[6] \in {0, 1}
      /\ bits[7] \in {0, 1} /\ bits[8] \in {0, 1}
  OBVIOUS
<1>2. \A b1, b2, b3, b4, b5, b6, b7, b8 \in 0 .. 1 :
        128 * b1 + 64 * b2 + 32 * b3 + 16 * b4 + 8 * b5 + 4 * b6 + 2 * b7 + b8
          \in 0 .. 255
  OBVIOUS
<1>3. {0, 1} = 0 .. 1
  OBVIOUS
<1>. QED
  BY <1>1, <1>2, <1>3 DEF Reg!OctetOf

\* The whole octets of a piece of the stream are those at its place.
LEMMA RegOctets ==
  ASSUME NEW stream \in Seq({0, 1}), NEW at \in Nat, NEW bits \in Seq({0, 1}),
         at + Len(bits) <= Len(stream),
         \A k \in 1 .. Len(bits) : bits[k] = stream[at + k]
  PROVE  /\ Reg!Octets(bits) \in Seq(0 .. 255)
         /\ Len(Reg!Octets(bits)) = Len(bits) \div 8
         /\ \A k \in 1 .. Len(bits) \div 8 :
              Reg!Octets(bits)[k] = OctetFrom(stream, at, k)
<1>1. Len(bits) \in Nat /\ Len(stream) \in Nat
  BY LenProperties
<1>. DEFINE n == Len(bits) \div 8
<1>2. n \in Nat /\ 8 * n <= Len(bits)
  BY <1>1
<1>. HIDE DEF n
<1>3. ASSUME NEW k \in 1 .. n
      PROVE  /\ Reg!OctetOf(SubSeq(bits, 8 * k - 7, 8 * k)) \in 0 .. 255
             /\ Reg!OctetOf(SubSeq(bits, 8 * k - 7, 8 * k))
                  = OctetFrom(stream, at, k)
  <2>1. 8 * k - 7 \in Nat /\ 8 * k \in Nat /\ 8 * k - 7 >= 1
        /\ 8 * k <= Len(bits) /\ 8 * k - (8 * k - 7) + 1 = 8
        /\ at + 8 * k <= Len(stream)
    BY <1>1, <1>2
  <2>. DEFINE p == SubSeq(bits, 8 * k - 7, 8 * k)
              lo == at + 8 * k - 7
              hi == at + 8 * k
              q == SubSeq(stream, lo, hi)
  <2>2. /\ lo \in Nat /\ hi \in Nat /\ lo >= 1 /\ hi <= Len(stream)
        /\ hi - lo + 1 = 8 /\ lo = at + (8 * k - 7)
    BY <1>1, <2>1
  <2>3. \A j \in 1 .. 8 : p[j] = bits[8 * k - 7 + j - 1]
    <3>1. 8 * k - 7 <= 8 * k + 1
      BY <2>1
    <3>. QED
      BY <2>1, <3>1, PieceProperties
  <2>. HIDE DEF lo, hi
  <2>4. \A j \in 1 .. 8 : q[j] = stream[lo + j - 1]
    <3>1. lo <= hi + 1
      BY <2>2
    <3>. QED
      BY <2>2, <3>1, PieceProperties
  <2>. HIDE DEF p, q
  <2>5. ASSUME NEW j \in 1 .. 8
        PROVE  p[j] = q[j] /\ p[j] \in {0, 1}
    <3>1. 8 * k - 7 + j - 1 \in 1 .. Len(bits)
          /\ at + (8 * k - 7 + j - 1) = lo + j - 1
      <4>1. k \in Nat
        BY <1>2
      <4>. QED
        BY <1>1, <2>1, <2>2, <4>1
    <3>2. bits[8 * k - 7 + j - 1] = stream[lo + j - 1]
      BY <3>1
    <3>3. bits[8 * k - 7 + j - 1] \in {0, 1}
      BY <3>1, ElementOfSeq
    <3>. QED
      BY <2>3, <2>4, <3>2, <3>3
  <2>6. Reg!OctetOf(p) \in 0 .. 255
    BY <2>5, RegOctetType
  <2>7. Reg!OctetOf(p) = Reg!OctetOf(q)
    <3>1. /\ p[1] = q[1] /\ p[2] = q[2] /\ p[3] = q[3] /\ p[4] = q[4]
          /\ p[5] = q[5] /\ p[6] = q[6] /\ p[7] = q[7] /\ p[8] = q[8]
      BY <2>5
    <3>. QED
      BY <3>1, Zenon DEF Reg!OctetOf
  <2>. QED
    BY <2>6, <2>7 DEF p, q, lo, hi, OctetFrom
<1>. DEFINE f == [k \in 1 .. n |-> Reg!OctetOf(SubSeq(bits, 8 * k - 7, 8 * k))]
<1>4. f \in [1 .. n -> 0 .. 255]
  BY <1>3
<1>5. f \in Seq(0 .. 255) /\ Len(f) = n
  BY <1>2, <1>4, FunctionSequence
<1>6. Reg!Octets(bits) = f
  BY DEF Reg!Octets, n
<1>. QED
  BY <1>3, <1>5, <1>6 DEF n

\* Octets of a stream, one by one.
LEMMA OctetsInProperties ==
  ASSUME NEW s \in Seq({0, 1}), NEW at \in Nat, NEW n \in Nat,
         at + 8 * n <= Len(s)
  PROVE  /\ OctetsIn(s, at, n) \in Seq(0 .. 255)
         /\ Len(OctetsIn(s, at, n)) = n
         /\ \A k \in 1 .. n : OctetsIn(s, at, n)[k] = OctetFrom(s, at, k)
<1>. DEFINE first == at + 1
            last == at + 8 * n
            bits == SubSeq(s, first, last)
<1>1. /\ first \in Nat /\ last \in Nat /\ first >= 1 /\ first <= last + 1
      /\ last <= Len(s) /\ last - first + 1 = 8 * n
      /\ \A k \in 1 .. 8 * n : first + k - 1 = at + k
      /\ (8 * n) \div 8 = n
  OBVIOUS
<1>. HIDE DEF first, last
<1>2. /\ bits \in Seq({0, 1}) /\ Len(bits) = 8 * n
      /\ \A k \in 1 .. 8 * n : bits[k] = s[at + k]
  <2>1. /\ bits \in Seq({0, 1}) /\ Len(bits) = last - first + 1
        /\ \A k \in 1 .. last - first + 1 : bits[k] = s[first + k - 1]
    BY <1>1, PieceProperties
  <2>. QED
    BY <1>1, <2>1
<1>. HIDE DEF bits
<1>3. /\ Reg!Octets(bits) \in Seq(0 .. 255)
      /\ Len(Reg!Octets(bits)) = Len(bits) \div 8
      /\ \A k \in 1 .. Len(bits) \div 8 : Reg!Octets(bits)[k] = OctetFrom(s, at, k)
  BY <1>2, RegOctets
<1>. QED
  BY <1>1, <1>2, <1>3 DEF OctetsIn, bits, first, last

\* What arrives behind them does not change them.
LEMMA OctetsInStay ==
  ASSUME NEW s \in Seq({0, 1}), NEW t \in Seq({0, 1}), NEW at \in Nat,
         NEW n \in Nat, at + 8 * n <= Len(s)
  PROVE  OctetsIn(s \o t, at, n) = OctetsIn(s, at, n)
<1>. DEFINE more == s \o t
<1>1. /\ more \in Seq({0, 1}) /\ Len(more) = Len(s) + Len(t)
      /\ Len(s) \in Nat /\ Len(t) \in Nat
      /\ \A k \in 1 .. Len(s) + Len(t) :
           more[k] = IF k <= Len(s) THEN s[k] ELSE t[k - Len(s)]
  BY ConcatProperties, LenProperties
<1>. HIDE DEF more
<1>. DEFINE first == at + 1
            last == at + 8 * n
<1>2. /\ first \in Nat /\ last \in Nat /\ first >= 1 /\ first <= last + 1
      /\ last <= Len(s) /\ last <= Len(more)
  BY <1>1
<1>3. \A k \in 1 .. last - first + 1 : first + k - 1 \in 1 .. Len(s) + Len(t)
                                     /\ first + k - 1 <= Len(s)
  BY <1>1, <1>2
<1>. HIDE DEF first, last
<1>4. SubSeq(more, first, last) = SubSeq(s, first, last)
  <2>1. /\ SubSeq(more, first, last) \in Seq({0, 1})
        /\ Len(SubSeq(more, first, last)) = last - first + 1
        /\ \A k \in 1 .. last - first + 1 :
             SubSeq(more, first, last)[k] = more[first + k - 1]
    BY <1>1, <1>2, PieceProperties
  <2>2. /\ SubSeq(s, first, last) \in Seq({0, 1})
        /\ Len(SubSeq(s, first, last)) = last - first + 1
        /\ \A k \in 1 .. last - first + 1 :
             SubSeq(s, first, last)[k] = s[first + k - 1]
    BY <1>2, PieceProperties
  <2>3. \A k \in 1 .. last - first + 1 : more[first + k - 1] = s[first + k - 1]
    BY <1>1, <1>3
  <2>. QED
    BY <2>1, <2>2, <2>3, SeqEqual
<1>. QED
  BY <1>4 DEF OctetsIn, more, first, last

\* The next whole octets are joined to those that are there.
LEMMA OctetsInGrow ==
  ASSUME NEW s \in Seq({0, 1}), NEW at \in Nat, NEW n \in Nat,
         NEW bits \in Seq({0, 1}), at + 8 * n + Len(bits) <= Len(s),
         \A k \in 1 .. Len(bits) : bits[k] = s[at + 8 * n + k]
  PROVE  /\ Joined(OctetsIn(s, at, n), Reg!Octets(bits))
              = OctetsIn(s, at, n + Len(bits) \div 8)
         /\ Len(Reg!Octets(bits)) = Len(bits) \div 8
<1>1. Len(s) \in Nat /\ Len(bits) \in Nat
  BY LenProperties
<1>. DEFINE m == Len(bits) \div 8
            mid == at + 8 * n
            old == OctetsIn(s, at, n)
            new == Reg!Octets(bits)
            all == old \o new
            goal == OctetsIn(s, at, n + m)
<1>2. /\ m \in Nat /\ 8 * m <= Len(bits) /\ mid \in Nat /\ n + m \in Nat
      /\ mid + Len(bits) <= Len(s) /\ mid <= Len(s)
      /\ at + 8 * (n + m) <= Len(s)
  <2>1. m \in Nat /\ 8 * m <= Len(bits)
    BY <1>1
  <2>. HIDE DEF m
  <2>. QED
    BY <1>1, <2>1
<1>3. /\ old \in Seq(0 .. 255) /\ Len(old) = n
      /\ \A k \in 1 .. n : old[k] = OctetFrom(s, at, k)
  BY <1>2, OctetsInProperties
<1>. HIDE DEF mid
<1>4. /\ new \in Seq(0 .. 255) /\ Len(new) = m
      /\ \A k \in 1 .. m : new[k] = OctetFrom(s, mid, k)
  <2>1. \A k \in 1 .. Len(bits) : bits[k] = s[mid + k]
    BY DEF mid
  <2>. QED
    BY <1>2, <2>1, RegOctets
<1>. HIDE DEF m
<1>5. /\ goal \in Seq(0 .. 255) /\ Len(goal) = n + m
      /\ \A k \in 1 .. n + m : goal[k] = OctetFrom(s, at, k)
  BY <1>2, OctetsInProperties
<1>. HIDE DEF old, new, goal
<1>6. /\ all \in Seq(0 .. 255) /\ Len(all) = n + m
      /\ \A k \in 1 .. n + m : all[k] = IF k <= n THEN old[k] ELSE new[k - n]
  <2>. DEFINE octet == 0 .. 255
  <2>1. old \in Seq(octet) /\ new \in Seq(octet)
    BY <1>3, <1>4
  <2>. HIDE DEF octet
  <2>2. /\ all \in Seq(octet) /\ Len(all) = Len(old) + Len(new)
        /\ \A k \in 1 .. Len(old) + Len(new) :
             all[k] = IF k <= Len(old) THEN old[k] ELSE new[k - Len(old)]
    BY <2>1, ConcatProperties
  <2>. HIDE DEF all
  <2>3. /\ all \in Seq(0 .. 255) /\ Len(all) = Len(old) + Len(new)
        /\ \A k \in 1 .. Len(old) + Len(new) :
             all[k] = IF k <= Len(old) THEN old[k] ELSE new[k - Len(old)]
    BY <2>2 DEF octet
  <2>. QED
    BY <1>3, <1>4, <2>3
<1>. HIDE DEF all
<1>7. ASSUME NEW k \in 1 .. n + m
      PROVE  all[k] = goal[k]
  <2>1. CASE k <= n
    BY <1>3, <1>5, <1>6, <2>1
  <2>2. CASE ~ (k <= n)
    <3>1. k - n \in 1 .. m
      BY <1>2, <2>2
    <3>2. /\ mid + 8 * (k - n) - 7 = at + 8 * k - 7
          /\ mid + 8 * (k - n) = at + 8 * k
      BY <1>2, <3>1 DEF mid
    <3>3. OctetFrom(s, mid, k - n) = OctetFrom(s, at, k)
      BY <3>2 DEF OctetFrom
    <3>. QED
      BY <1>4, <1>5, <1>6, <2>2, <3>1, <3>3
  <2>. QED
    BY <2>1, <2>2
<1>8. all = goal
  BY <1>5, <1>6, <1>7, SeqEqual
<1>. QED
  BY <1>4, <1>8 DEF all, old, new, goal, m, Joined

\* The register just cleared.
LEMMA RegEnteredNone ==
  ASSUME NEW stream, NEW to \in Nat, NEW n \in Nat
  PROVE  Reg!Entered(stream, to, to, n) = Reg!Zeros(n)
BY DEF Reg!Entered, Reg!Zeros

\* What arrives later is not in the register yet.
LEMMA RegEnteredStays ==
  ASSUME NEW stream \in Seq({0, 1}), NEW chunk \in Seq({0, 1}),
         NEW from \in Nat, NEW to \in Nat, to <= Len(stream), NEW n \in Nat
  PROVE  Reg!Entered(stream \o chunk, from, to, n) = Reg!Entered(stream, from, to, n)
<1>1. /\ Len(stream) \in Nat /\ Len(chunk) \in Nat
      /\ \A k \in 1 .. Len(stream) + Len(chunk) :
           (stream \o chunk)[k] = IF k <= Len(stream) THEN stream[k]
                                  ELSE chunk[k - Len(stream)]
  BY ConcatProperties, LenProperties
<1>2. ASSUME NEW k \in 1 .. n, to - n + k > from
      PROVE  (stream \o chunk)[to - n + k] = stream[to - n + k]
  <2>1. to - n + k \in 1 .. Len(stream) + Len(chunk)
        /\ to - n + k <= Len(stream)
    BY <1>1, <1>2
  <2>. QED
    BY <1>1, <2>1
<1>. QED
  BY <1>2 DEF Reg!Entered

\* The next k bits of the stream enter.
LEMMA RegShifts ==
  ASSUME NEW stream \in Seq({0, 1}), NEW from \in Nat, NEW to \in Nat,
         NEW in \in Seq({0, 1}), NEW n \in Nat, NEW k \in 0 .. Len(in),
         from <= to, to + Len(in) <= Len(stream),
         \A j \in 1 .. Len(in) : in[j] = stream[to + j]
  PROVE  Reg!Shifted(Reg!Entered(stream, from, to, n), in, k)
           = Reg!Entered(stream, from, to + k, n)
<1>. DEFINE reg == Reg!Entered(stream, from, to, n)
            all == reg \o in
            new == SubSeq(all, k + 1, k + n)
            goal == Reg!Entered(stream, from, to + k, n)
<1>1. Len(stream) \in Nat /\ Len(in) \in Nat
  BY LenProperties
<1>2. ASSUME NEW t \in Nat, t <= Len(stream)
      PROVE  /\ Reg!Entered(stream, from, t, n) \in Seq({0, 1})
             /\ Len(Reg!Entered(stream, from, t, n)) = n
  <2>1. ASSUME NEW j \in 1 .. n
        PROVE  (IF t - n + j > from THEN stream[t - n + j] ELSE 0) \in {0, 1}
    <3>1. CASE t - n + j > from
      <4>1. t - n + j \in 1 .. Len(stream)
        BY <1>1, <1>2, <3>1
      <4>. QED
        BY <3>1, <4>1, ElementOfSeq
    <3>2. CASE ~ (t - n + j > from)
      BY <3>2
    <3>. QED
      BY <3>1, <3>2
  <2>2. Reg!Entered(stream, from, t, n) \in [1 .. n -> {0, 1}]
    BY <2>1 DEF Reg!Entered
  <2>. QED
    BY <2>2, FunctionSequence
<1>3. reg \in Seq({0, 1}) /\ Len(reg) = n
  BY <1>1, <1>2
<1>4. goal \in Seq({0, 1}) /\ Len(goal) = n
  <2>1. to + k \in Nat /\ to + k <= Len(stream)
    BY <1>1
  <2>. QED
    BY <1>2, <2>1
<1>5. \A j \in 1 .. n :
        reg[j] = IF to - n + j > from THEN stream[to - n + j] ELSE 0
  BY DEF Reg!Entered
<1>6. \A j \in 1 .. n :
        goal[j] = IF to + k - n + j > from THEN stream[to + k - n + j] ELSE 0
  BY DEF Reg!Entered
<1>. HIDE DEF reg, goal
<1>7. /\ all \in Seq({0, 1})
      /\ Len(all) = n + Len(in)
      /\ \A j \in 1 .. n + Len(in) :
           all[j] = IF j <= n THEN reg[j] ELSE in[j - n]
  <2>1. /\ all \in Seq({0, 1})
        /\ Len(all) = Len(reg) + Len(in)
        /\ \A j \in 1 .. Len(reg) + Len(in) :
             all[j] = IF j <= Len(reg) THEN reg[j] ELSE in[j - Len(reg)]
    BY <1>3, ConcatProperties
  <2>. HIDE DEF all
  <2>. QED
    BY <1>3, <2>1
<1>. HIDE DEF all
<1>8. new \in Seq({0, 1}) /\ Len(new) = n
      /\ \A j \in 1 .. n : new[j] = all[k + j]
  <2>1. k + 1 \in Int /\ k + n \in Int /\ k + n - (k + 1) + 1 = n
    BY <1>1
  <2>2. \A j \in k + 1 .. k + n : all[j] \in {0, 1}
    <3>1. \A j \in k + 1 .. k + n : j \in 1 .. Len(all)
      BY <1>1, <1>7
    <3>. QED
      BY <1>7, <3>1, ElementOfSeq
  <2>3. /\ new \in Seq({0, 1})
        /\ Len(new) = IF k + 1 <= k + n THEN n ELSE 0
        /\ \A j \in 1 .. n : new[j] = all[(k + 1) + j - 1]
    BY <2>1, <2>2, SubSeqProperties
  <2>4. Len(new) = n
    BY <1>1, <2>3
  <2>5. \A j \in 1 .. n : (k + 1) + j - 1 = k + j
    BY <1>1
  <2>. QED
    BY <2>3, <2>4, <2>5
<1>. HIDE DEF new
<1>9. ASSUME NEW j \in 1 .. n
      PROVE  new[j] = goal[j]
  <2>1. new[j] = all[k + j] /\ k + j \in 1 .. n + Len(in)
    BY <1>1, <1>8
  <2>2. to + k - n + j = to - n + (k + j)
    BY <1>1
  <2>3. CASE k + j <= n
    <3>1. all[k + j] = reg[k + j] /\ k + j \in 1 .. n
      BY <1>1, <1>7, <2>1, <2>3
    <3>2. reg[k + j] = IF to - n + (k + j) > from
                         THEN stream[to - n + (k + j)] ELSE 0
      BY <1>5, <3>1
    <3>. QED
      BY <1>6, <2>1, <2>2, <3>1, <3>2
  <2>4. CASE ~ (k + j <= n)
    <3>1. all[k + j] = in[k + j - n] /\ k + j - n \in 1 .. Len(in)
      BY <1>1, <1>7, <2>1, <2>4
    <3>2. in[k + j - n] = stream[to + (k + j - n)]
      BY <3>1
    <3>3. to + (k + j - n) = to + k - n + j /\ to + k - n + j > from
      BY <1>1, <2>4
    <3>. QED
      BY <1>6, <2>1, <3>1, <3>2, <3>3
  <2>. QED
    BY <2>3, <2>4
<1>10. new = goal
  BY <1>4, <1>8, <1>9, SeqEqual
<1>. QED
  BY <1>3, <1>10 DEF Reg!Shifted, new, goal, all, reg

-----------------------------------------------------------------------------
(* Pieces of a sequence of bits *)

\* The first n data bits, and the line bits behind the from-th up to the to-th.
Prefix(d, n) == SubSeq(d, 1, n)
Piece(line, from, to) == SubSeq(line, from + 1, to)

\* A piece grows bit by bit.
LEMMA PieceGrows ==
  ASSUME NEW line \in Seq(Bit), NEW from \in Nat, NEW to \in Nat,
         from <= to, to + 1 <= Len(line)
  PROVE  /\ Piece(line, from, to) \in Seq(Bit)
         /\ Piece(line, from, to + 1) = Append(Piece(line, from, to), line[to + 1])
         /\ line[to + 1] \in Bit
<1>1. Len(line) \in Nat /\ from + 1 \in Nat /\ to + 1 \in Nat
      /\ to + 1 \in 1 .. Len(line)
  BY LenProperties
<1>2. line[to + 1] \in Bit
  BY <1>1, ElementOfSeq
<1>3. PICK old : old = Piece(line, from, to)
  OBVIOUS
<1>4. PICK new : new = Piece(line, from, to + 1)
  OBVIOUS
<1>5. /\ old \in Seq(Bit) /\ Len(old) = to - (from + 1) + 1
      /\ \A k \in 1 .. to - (from + 1) + 1 : old[k] = line[(from + 1) + k - 1]
  <2>1. from + 1 <= to + 1 /\ to <= Len(line) /\ from + 1 >= 1
    BY <1>1
  <2>. QED
    BY <1>1, <1>3, <2>1, PieceProperties DEF Piece
<1>6. /\ new \in Seq(Bit) /\ Len(new) = (to + 1) - (from + 1) + 1
      /\ \A k \in 1 .. (to + 1) - (from + 1) + 1 : new[k] = line[(from + 1) + k - 1]
  <2>1. from + 1 <= (to + 1) + 1 /\ to + 1 <= Len(line) /\ from + 1 >= 1
    BY <1>1
  <2>. QED
    BY <1>1, <1>4, <2>1, PieceProperties DEF Piece
<1>7. PICK more : more = Append(old, line[to + 1])
  OBVIOUS
<1>8. /\ more \in Seq(Bit) /\ Len(more) = Len(old) + 1
      /\ \A k \in 1 .. Len(old) : more[k] = old[k]
      /\ more[Len(old) + 1] = line[to + 1]
  <2>1. PICK b \in Bit : b = line[to + 1]
    BY <1>2
  <2>2. old \in Seq(Bit) /\ more = Append(old, b)
    BY <1>5, <1>7, <2>1
  <2>. HIDE <1>2, <1>5, <1>7
  <2>3. /\ more \in Seq(Bit) /\ Len(more) = Len(old) + 1
        /\ \A k \in 1 .. Len(old) : more[k] = old[k]
        /\ more[Len(old) + 1] = b
    BY <2>2, AppendProperties
  <2>. QED
    BY <2>1, <2>3
<1>9. Len(new) = Len(more)
  BY <1>5, <1>6, <1>8
<1>10. ASSUME NEW k \in 1 .. Len(new)
       PROVE  new[k] = more[k]
  <2>1. CASE k \in 1 .. Len(old)
    BY <1>5, <1>6, <1>8, <2>1
  <2>2. CASE k = Len(old) + 1
    <3>1. (from + 1) + k - 1 = to + 1
      BY <1>5, <2>2
    <3>. QED
      BY <1>6, <1>8, <2>2, <3>1
  <2>. QED
    BY <1>5, <1>6, <2>1, <2>2
<1>11. new = more
  BY <1>6, <1>8, <1>9, <1>10, SeqEqual
<1>. QED
  BY <1>2, <1>3, <1>4, <1>5, <1>7, <1>11

\* The bits of a piece.
LEMMA PieceBits ==
  ASSUME NEW line \in Seq(Bit), NEW from \in Nat, NEW n \in Nat,
         from + n <= Len(line)
  PROVE  /\ Piece(line, from, from + n) \in Seq(Bit)
         /\ Len(Piece(line, from, from + n)) = n
         /\ \A k \in 1 .. n : Piece(line, from, from + n)[k] = line[from + k]
<1>1. PICK piece : piece = Piece(line, from, from + n)
  OBVIOUS
<1>2. PICK len \in Nat : len = (from + n) - (from + 1) + 1
  OBVIOUS
<1>3. /\ piece \in Seq(Bit) /\ Len(piece) = len
      /\ \A k \in 1 .. len : piece[k] = line[(from + 1) + k - 1]
  <2>1. /\ from + 1 \in Nat /\ from + n \in Nat /\ from + 1 >= 1
        /\ from + 1 <= (from + n) + 1
    OBVIOUS
  <2>2. /\ SubSeq(line, from + 1, from + n) \in Seq(Bit)
        /\ Len(SubSeq(line, from + 1, from + n)) = (from + n) - (from + 1) + 1
        /\ \A k \in 1 .. (from + n) - (from + 1) + 1 :
             SubSeq(line, from + 1, from + n)[k] = line[(from + 1) + k - 1]
    BY <2>1, PieceProperties
  <2>. QED
    BY <1>1, <1>2, <2>2 DEF Piece
<1>4. len = n /\ \A k \in 1 .. n : (from + 1) + k - 1 = from + k
  BY <1>2
<1>. QED
  BY <1>1, <1>3, <1>4

\* A prefix is the piece from the beginning.
LEMMA PrefixIsPiece ==
  ASSUME NEW d, NEW n
  PROVE  Prefix(d, n) = Piece(d, 0, n)
BY DEF Prefix, Piece

\* A piece, bit by bit.
LEMMA PieceBit ==
  ASSUME NEW line \in Seq(Bit), NEW from \in Nat, NEW to \in Nat,
         from <= to, to <= Len(line)
  PROVE  /\ Piece(line, from, to) \in Seq(Bit)
         /\ Len(Piece(line, from, to)) = to - from
         /\ \A k \in 1 .. to - from : Piece(line, from, to)[k] = line[from + k]
<1>1. PICK n \in Nat : n = to - from
  <2>1. to - from \in Nat
    OBVIOUS
  <2>. QED
    BY <2>1
<1>2. from + n = to /\ from + n <= Len(line)
  BY <1>1
<1>3. /\ Piece(line, from, from + n) \in Seq(Bit)
      /\ Len(Piece(line, from, from + n)) = n
      /\ \A k \in 1 .. n : Piece(line, from, from + n)[k] = line[from + k]
  BY <1>2, PieceBits
<1>. QED
  BY <1>1, <1>2, <1>3

\* A prefix has the bits of the whole.
LEMMA PrefixBits ==
  ASSUME NEW d \in Seq(Bit), NEW n \in Nat, n <= Len(d)
  PROVE  /\ Prefix(d, n) \in Seq(Bit) /\ Len(Prefix(d, n)) = n
         /\ \A k \in 1 .. n : Prefix(d, n)[k] = d[k]
<1>1. 0 \in Nat /\ 0 <= n /\ n - 0 = n /\ \A k \in 1 .. n : 0 + k = k
  OBVIOUS
<1>2. /\ Piece(d, 0, n) \in Seq(Bit) /\ Len(Piece(d, 0, n)) = n - 0
      /\ \A k \in 1 .. n - 0 : Piece(d, 0, n)[k] = d[0 + k]
  BY <1>1, PieceBit
<1>. QED
  BY <1>1, <1>2, PrefixIsPiece

LEMMA PrefixGrows ==
  ASSUME NEW d \in Seq(Bit), NEW n \in Nat, n + 1 <= Len(d)
  PROVE  /\ Prefix(d, n) \in Seq(Bit)
         /\ Prefix(d, n + 1) = Append(Prefix(d, n), d[n + 1])
         /\ d[n + 1] \in Bit
<1>1. 0 \in Nat /\ 0 <= n
  OBVIOUS
<1>2. /\ Piece(d, 0, n) \in Seq(Bit)
      /\ Piece(d, 0, n + 1) = Append(Piece(d, 0, n), d[n + 1])
      /\ d[n + 1] \in Bit
  BY <1>1, PieceGrows
<1>. QED
  BY <1>2, PrefixIsPiece

LEMMA PrefixFull ==
  ASSUME NEW d \in Seq(Bit)
  PROVE  Prefix(d, Len(d)) = d
BY SubSeqFull, LenProperties DEF Prefix

\* What is appended does not change the prefixes.
LEMMA PrefixAppend ==
  ASSUME NEW d \in Seq(Bit), NEW b \in Bit, NEW n \in 0 .. Len(d)
  PROVE  Prefix(Append(d, b), n) = Prefix(d, n)
<1>1. PICK e : e = Append(d, b)
  OBVIOUS
<1>2. /\ e \in Seq(Bit) /\ Len(e) = Len(d) + 1 /\ Len(d) \in Nat
      /\ \A k \in 1 .. Len(d) : e[k] = d[k]
  BY <1>1, AppendProperties, LenProperties
<1>3. /\ Prefix(e, n) \in Seq(Bit) /\ Len(Prefix(e, n)) = n - 1 + 1
      /\ \A k \in 1 .. n - 1 + 1 : Prefix(e, n)[k] = e[1 + k - 1]
  <2>1. 1 \in Nat /\ n \in Nat /\ 1 <= n + 1 /\ n <= Len(e)
    BY <1>2
  <2>. QED
    BY <1>2, <2>1, PieceProperties DEF Prefix
<1>4. /\ Prefix(d, n) \in Seq(Bit) /\ Len(Prefix(d, n)) = n - 1 + 1
      /\ \A k \in 1 .. n - 1 + 1 : Prefix(d, n)[k] = d[1 + k - 1]
  <2>1. 1 \in Nat /\ n \in Nat /\ 1 <= n + 1 /\ n <= Len(d)
    BY <1>2
  <2>. QED
    BY <2>1, PieceProperties DEF Prefix
<1>5. \A k \in 1 .. n : Prefix(e, n)[k] = Prefix(d, n)[k]
  <2>1. ASSUME NEW k \in 1 .. n
        PROVE  k \in 1 .. n - 1 + 1 /\ 1 + k - 1 = k /\ k \in 1 .. Len(d)
    BY <1>2
  <2>. QED
    BY <1>2, <1>3, <1>4, <2>1
<1>6. Len(Prefix(e, n)) = n /\ Len(Prefix(d, n)) = n
  BY <1>2, <1>3, <1>4
<1>. QED
  BY <1>1, <1>3, <1>4, <1>5, <1>6, SeqEqual

-----------------------------------------------------------------------------
(* Octets and their bits *)

\* The bits of an octet, one by one.
LEMMA OctetBits ==
  ASSUME NEW v \in Int
  PROVE  /\ ByteBits(v)[1] = v % 2          /\ ByteBits(v)[2] = (v \div 2) % 2
         /\ ByteBits(v)[3] = (v \div 4) % 2  /\ ByteBits(v)[4] = (v \div 8) % 2
         /\ ByteBits(v)[5] = (v \div 16) % 2 /\ ByteBits(v)[6] = (v \div 32) % 2
         /\ ByteBits(v)[7] = (v \div 64) % 2 /\ ByteBits(v)[8] = (v \div 128) % 2
<1>1. ASSUME NEW k \in 1 .. 8
      PROVE  ByteBits(v)[k] = (v \div PlaceValues[k]) % 2
  BY DEF ByteBits
<1>2. /\ PlaceValues[1] = 1 /\ PlaceValues[2] = 2 /\ PlaceValues[3] = 4
      /\ PlaceValues[4] = 8 /\ PlaceValues[5] = 16 /\ PlaceValues[6] = 32
      /\ PlaceValues[7] = 64 /\ PlaceValues[8] = 128
  BY DEF PlaceValues
<1>. QED
  BY <1>1, <1>2

\* An octet is the sum of its bits at their places.
LEMMA OctetSum ==
  \A v \in 0 .. 255 :
    \E b1, b2, b3, b4, b5, b6, b7, b8 \in 0 .. 1 :
      /\ v = b1 + 2 * b2 + 4 * b3 + 8 * b4 + 16 * b5 + 32 * b6 + 64 * b7 + 128 * b8
<1>. TAKE v \in 0 .. 255
<1>. QED
  OBVIOUS

LEMMA SumBits ==
  \A b1, b2, b3, b4, b5, b6, b7, b8 \in 0 .. 1 :
    LET v == b1 + 2 * b2 + 4 * b3 + 8 * b4 + 16 * b5 + 32 * b6 + 64 * b7 + 128 * b8
    IN  /\ v \in 0 .. 255
        /\ v % 2 = b1 /\ (v \div 2) % 2 = b2 /\ (v \div 4) % 2 = b3
        /\ (v \div 8) % 2 = b4 /\ (v \div 16) % 2 = b5 /\ (v \div 32) % 2 = b6
        /\ (v \div 64) % 2 = b7 /\ (v \div 128) % 2 = b8
OBVIOUS

\* The bits of octets, one by one.
LEMMA BitsOfProperties ==
  ASSUME NEW octets \in Seq(Byte)
  PROVE  /\ BitsOf(octets) \in Seq(Bit)
         /\ Len(BitsOf(octets)) = 8 * Len(octets)
         /\ \A m \in 1 .. Len(octets), j \in 1 .. 8 :
              BitsOf(octets)[8 * (m - 1) + j] = ByteBits(octets[m])[j]
<1>1. Len(octets) \in Nat
  BY LenProperties
<1>2. \A v \in Byte : \A j \in 1 .. 8 : ByteBits(v)[j] \in Bit
  <2>1. ASSUME NEW v \in Byte
        PROVE  \A j \in 1 .. 8 : ByteBits(v)[j] \in Bit
    <3>1. v \in Int
      BY DEF Byte
    <3>2. \A u \in Int : u % 2 \in Bit
      BY DEF Bit
    <3>3. v \div 2 \in Int /\ v \div 4 \in Int /\ v \div 8 \in Int /\ v \div 16 \in Int
          /\ v \div 32 \in Int /\ v \div 64 \in Int /\ v \div 128 \in Int
      BY <3>1
    <3>4. ASSUME NEW j \in 1 .. 8
          PROVE  ByteBits(v)[j] \in Bit
      <4>1. j \in {1, 2, 3, 4, 5, 6, 7, 8}
        OBVIOUS
      <4>2. ByteBits(v)[j] = (v \div PlaceValues[j]) % 2
        BY DEF ByteBits
      <4>3. v \div PlaceValues[j] \in Int
        BY <3>1, <3>3, <4>1 DEF PlaceValues
      <4>. QED
        BY <3>2, <4>2, <4>3
    <3>. QED
      BY <3>4
  <2>. QED
    BY <2>1
<1>3. PICK n \in Nat : n = 8 * Len(octets)
  BY <1>1
<1>4. ASSUME NEW k \in 1 .. n
      PROVE  /\ ((k - 1) \div 8) + 1 \in 1 .. Len(octets)
             /\ ((k - 1) % 8) + 1 \in 1 .. 8
  BY <1>1, <1>3
<1>5. PICK f : f = BitsOf(octets)
  OBVIOUS
<1>6. f = [k \in 1 .. n |-> ByteBits(octets[((k - 1) \div 8) + 1])[((k - 1) % 8) + 1]]
  BY <1>3, <1>5 DEF BitsOf
<1>7. f \in [1 .. n -> Bit]
  <2>1. ASSUME NEW k \in 1 .. n
        PROVE  ByteBits(octets[((k - 1) \div 8) + 1])[((k - 1) % 8) + 1] \in Bit
    <3>1. octets[((k - 1) \div 8) + 1] \in Byte
      BY <1>4, ElementOfSeq
    <3>. QED
      BY <1>2, <1>4, <3>1
  <2>. QED
    BY <1>6, <2>1
<1>8. f \in Seq(Bit) /\ Len(f) = n
  BY <1>7, FunctionSequence
<1>9. ASSUME NEW m \in 1 .. Len(octets), NEW j \in 1 .. 8
      PROVE  f[8 * (m - 1) + j] = ByteBits(octets[m])[j]
  <2>1. PICK k \in 1 .. n : k = 8 * (m - 1) + j
    BY <1>1, <1>3
  <2>2. (k - 1) \div 8 = m - 1 /\ (k - 1) % 8 = j - 1
    <3>1. m \in Nat /\ k - 1 = 8 * (m - 1) + (j - 1) /\ j - 1 \in 0 .. 7
          /\ m - 1 \in Nat
      BY <1>1, <2>1
    <3>2. \A a \in Nat, c \in 0 .. 7 : (8 * a + c) \div 8 = a /\ (8 * a + c) % 8 = c
      OBVIOUS
    <3>. QED
      BY <3>1, <3>2
  <2>3. ((k - 1) \div 8) + 1 = m /\ ((k - 1) % 8) + 1 = j
    BY <1>1, <2>2
  <2>. QED
    BY <1>6, <2>1, <2>3
<1>. QED
  BY <1>3, <1>5, <1>8, <1>9

\* One more octet, eight more bits.
LEMMA BitsOfAppend ==
  ASSUME NEW octets \in Seq(Byte), NEW v \in Byte
  PROVE  /\ \A k \in 1 .. 8 * Len(octets) :
              BitsOf(Append(octets, v))[k] = BitsOf(octets)[k]
         /\ \A j \in 1 .. 8 :
              BitsOf(Append(octets, v))[8 * Len(octets) + j] = ByteBits(v)[j]
<1>1. PICK more : more = Append(octets, v)
  OBVIOUS
<1>2. /\ more \in Seq(Byte) /\ Len(more) = Len(octets) + 1 /\ Len(octets) \in Nat
      /\ \A k \in 1 .. Len(octets) : more[k] = octets[k]
      /\ more[Len(octets) + 1] = v
  BY <1>1, AppendProperties, LenProperties
<1>3. /\ \A m \in 1 .. Len(octets), j \in 1 .. 8 :
           BitsOf(octets)[8 * (m - 1) + j] = ByteBits(octets[m])[j]
      /\ \A m \in 1 .. Len(more), j \in 1 .. 8 :
           BitsOf(more)[8 * (m - 1) + j] = ByteBits(more[m])[j]
  BY <1>2, BitsOfProperties
<1>4. ASSUME NEW k \in 1 .. 8 * Len(octets)
      PROVE  BitsOf(more)[k] = BitsOf(octets)[k]
  <2>1. PICK m \in 1 .. Len(octets), j \in 1 .. 8 : k = 8 * (m - 1) + j
    <3>1. /\ ((k - 1) \div 8) + 1 \in 1 .. Len(octets)
          /\ ((k - 1) % 8) + 1 \in 1 .. 8
          /\ k = 8 * ((((k - 1) \div 8) + 1) - 1) + (((k - 1) % 8) + 1)
      BY <1>2
    <3>. QED
      BY <3>1
  <2>2. m \in 1 .. Len(more) /\ more[m] = octets[m]
    BY <1>2
  <2>. QED
    BY <1>3, <2>1, <2>2
<1>5. ASSUME NEW j \in 1 .. 8
      PROVE  BitsOf(more)[8 * Len(octets) + j] = ByteBits(v)[j]
  <2>1. PICK m \in 1 .. Len(more) : m = Len(octets) + 1
    BY <1>2
  <2>2. 8 * (m - 1) + j = 8 * Len(octets) + j
    BY <1>2, <2>1
  <2>. QED
    BY <1>2, <1>3, <2>1, <2>2
<1>. QED
  BY <1>1, <1>4, <1>5

\* An octet is put together again from its bits.
LEMMA ByteOfBits ==
  ASSUME NEW v \in Byte, NEW s, \A j \in 1 .. 8 : s[j] = ByteBits(v)[j]
  PROVE  ByteOf(s) = v
<1>1. PICK b1, b2, b3, b4, b5, b6, b7, b8 \in 0 .. 1 :
        v = b1 + 2 * b2 + 4 * b3 + 8 * b4 + 16 * b5 + 32 * b6 + 64 * b7 + 128 * b8
  BY OctetSum DEF Byte
<1>2. v % 2 = b1 /\ (v \div 2) % 2 = b2 /\ (v \div 4) % 2 = b3
      /\ (v \div 8) % 2 = b4 /\ (v \div 16) % 2 = b5 /\ (v \div 32) % 2 = b6
      /\ (v \div 64) % 2 = b7 /\ (v \div 128) % 2 = b8
  BY <1>1, SumBits
<1>3. v \in Int
  BY DEF Byte
<1>4. /\ ByteBits(v)[1] = b1 /\ ByteBits(v)[2] = b2 /\ ByteBits(v)[3] = b3
      /\ ByteBits(v)[4] = b4 /\ ByteBits(v)[5] = b5 /\ ByteBits(v)[6] = b6
      /\ ByteBits(v)[7] = b7 /\ ByteBits(v)[8] = b8
  BY <1>2, <1>3, OctetBits
<1>5. /\ s[1] = b1 /\ s[2] = b2 /\ s[3] = b3 /\ s[4] = b4
      /\ s[5] = b5 /\ s[6] = b6 /\ s[7] = b7 /\ s[8] = b8
  BY <1>4
<1>. QED
  BY <1>1, <1>5 DEF ByteOf

\* Octets are put together again from their bits.
LEMMA OctetsOfBits ==
  ASSUME NEW octets \in Seq(Byte)
  PROVE  BytesOf(BitsOf(octets)) = octets
<1>1. PICK x : x = BitsOf(octets)
  OBVIOUS
<1>2. PICK len \in Nat : len = Len(octets)
  BY LenProperties
<1>3. x \in Seq(Bit) /\ Len(x) = 8 * len /\ \A k \in 1 .. 8 * len : x[k] = BitsOf(octets)[k]
  BY <1>1, <1>2, BitsOfProperties
<1>4. Len(x) \div 8 = len
  BY <1>3
<1>5. ASSUME NEW m \in 1 .. len
      PROVE  ByteOf(SubSeq(x, 8 * m - 7, 8 * m)) = octets[m]
  <2>1. PICK v \in Byte : v = octets[m]
    BY <1>2, ElementOfSeq
  <2>2. PICK a \in Nat : a = 8 * (m - 1)
    OBVIOUS
  <2>3. a + 1 = 8 * m - 7 /\ a + 8 = 8 * m /\ a <= a + 8 /\ a + 8 <= 8 * len /\ a + 8 \in Nat
    BY <2>2
  <2>4. PICK s : s = Piece(x, a, a + 8)
    OBVIOUS
  <2>5. \A j \in 1 .. 8 : s[j] = x[a + j]
    <3>1. \A j \in 1 .. (a + 8) - a : Piece(x, a, a + 8)[j] = x[a + j]
      BY <1>3, <2>3, PieceBit
    <3>. QED
      BY <2>4, <3>1
  <2>6. ASSUME NEW j \in 1 .. 8
        PROVE  s[j] = ByteBits(v)[j]
    <3>1. a + j \in 1 .. 8 * len
      BY <2>3
    <3>2. m \in 1 .. Len(octets)
      BY <1>2
    <3>3. BitsOf(octets)[8 * (m - 1) + j] = ByteBits(octets[m])[j]
      BY <3>2, BitsOfProperties
    <3>. QED
      BY <1>3, <2>1, <2>2, <2>5, <3>1, <3>3
  <2>7. ByteOf(s) = v
    BY <2>6, ByteOfBits
  <2>. QED
    BY <2>1, <2>3, <2>4, <2>7 DEF Piece
<1>6. PICK bytes : bytes = BytesOf(x)
  OBVIOUS
<1>7. bytes = [k \in 1 .. len |-> ByteOf(SubSeq(x, 8 * k - 7, 8 * k))]
  BY <1>4, <1>6 DEF BytesOf
<1>8. bytes = [k \in 1 .. len |-> octets[k]]
  BY <1>5, <1>7
<1>9. octets = [k \in 1 .. len |-> octets[k]]
  BY <1>2, LenProperties
<1>. QED
  BY <1>1, <1>6, <1>8, <1>9

-----------------------------------------------------------------------------
(* Bit stuffing *)

\* A line under construction: its bits and the ones at its end.
StuffLine == [out : Seq(Bit), ones : 0 .. 4]

NoLine == [out |-> <<>>, ones |-> 0]

LEMMA StuffStepType ==
  ASSUME NEW line \in StuffLine, NEW b \in Bit
  PROVE  StuffStep(line, b) \in StuffLine
<1>1. line.out \in Seq(Bit) /\ line.ones \in 0 .. 4
  BY DEF StuffLine
<1>2. line.out \o <<1, 0>> \in Seq(Bit)
  <2>1. <<1, 0>> \in Seq(Bit)
    BY DEF Bit
  <2>. QED
    BY <1>1, <2>1, ConcatProperties
<1>3. Append(line.out, b) \in Seq(Bit)
  BY <1>1, AppendProperties
<1>. DEFINE ones == IF b = 1 THEN line.ones + 1 ELSE 0
<1>4. ones \in 0 .. 5
  BY <1>1
<1>5. CASE ones = 5
  BY <1>2, <1>5 DEF StuffStep, StuffLine
<1>6. CASE ones # 5
  BY <1>3, <1>4, <1>6 DEF StuffStep, StuffLine
<1>. QED
  BY <1>5, <1>6

\* The step as a function.
LEMMA StuffStepFunction ==
  \E step : /\ IsStep(step, StuffLine, Bit)
            /\ \A line \in StuffLine, b \in Bit : step[line][b] = StuffStep(line, b)
<1>. DEFINE step == [line \in StuffLine |-> [b \in Bit |-> StuffStep(line, b)]]
<1>1. IsStep(step, StuffLine, Bit)
  BY StuffStepType DEF IsStep
<1>. QED
  BY <1>1

\* A function that runs with this step solves the equation in Stuffing.
LEMMA RunsStuffing ==
  ASSUME NEW step, \A line \in StuffLine, b \in Bit : step[line][b] = StuffStep(line, b),
         NEW s \in Seq(Bit), NEW g \in [0 .. Len(s) -> StuffLine],
         g[0] = NoLine, Runs(step, s, g, Len(s))
  PROVE  Stuffing(s) = g[Len(s)]
<1>1. Len(s) \in Nat
  BY LenProperties
<1>2. ASSUME NEW k \in 0 .. Len(s), k # 0
      PROVE  g[k] = StuffStep(g[k - 1], s[k])
  <2>1. k \in 1 .. Len(s) /\ k - 1 \in 0 .. Len(s)
    BY <1>1, <1>2
  <2>2. g[k - 1] \in StuffLine /\ s[k] \in Bit
    BY <2>1, ElementOfSeq
  <2>. QED
    BY <2>1, <2>2 DEF Runs
<1>. DEFINE Solves(f) ==
              f = [k \in 0 .. Len(s) |->
                     IF k = 0 THEN NoLine ELSE StuffStep(f[k - 1], s[k])]
            line == CHOOSE f : Solves(f)
<1>3. Solves(g)
  BY <1>2
<1>4. Solves(line)
  <2>. HIDE DEF Solves
  <2>. QED
    BY <1>3
<1>5. Stuffing(s) = line[Len(s)]
  BY DEF Stuffing, NoLine
<1>. HIDE DEF line
<1>6. \A k \in 0 .. Len(s) :
        line[k] = IF k = 0 THEN NoLine ELSE StuffStep(line[k - 1], s[k])
  BY <1>4
<1>. HIDE DEF Solves
<1>. DEFINE same == {k \in 0 .. Len(s) : line[k] = g[k]}
<1>7. 0 \in same
  BY <1>1, <1>6
<1>8. ASSUME NEW k \in 0 .. Len(s), k \in same, k < Len(s)
      PROVE  k + 1 \in same
  <2>1. k + 1 \in 0 .. Len(s) /\ k + 1 # 0 /\ (k + 1) - 1 = k
    BY <1>1, <1>8
  <2>2. line[k + 1] = StuffStep(line[k], s[k + 1])
    BY <1>6, <2>1
  <2>3. g[k + 1] = StuffStep(g[k], s[k + 1])
    BY <1>2, <2>1
  <2>. QED
    BY <1>8, <2>1, <2>2, <2>3
<1>9. 0 .. Len(s) \subseteq same
  <2>. HIDE DEF same
  <2>1. \A k \in 0 .. Len(s) : k \in same /\ k < Len(s) => k + 1 \in same
    BY <1>8
  <2>. QED
    BY <1>1, <1>7, <2>1, UpToNat
<1>. QED
  BY <1>1, <1>5, <1>9

LEMMA NoLineType == NoLine \in StuffLine
BY EmptySeq DEF NoLine, StuffLine

\* What is stuffed is a line.
LEMMA StuffingType ==
  ASSUME NEW s \in Seq(Bit)
  PROVE  Stuffing(s) \in StuffLine
<1>1. PICK step :
        /\ IsStep(step, StuffLine, Bit)
        /\ \A line \in StuffLine, b \in Bit : step[line][b] = StuffStep(line, b)
  BY StuffStepFunction
<1>2. PICK g \in [0 .. Len(s) -> StuffLine] :
        g[0] = NoLine /\ Runs(step, s, g, Len(s))
  BY <1>1, NoLineType, PrefixRecursion
<1>3. Stuffing(s) = g[Len(s)]
  BY <1>1, <1>2, RunsStuffing
<1>4. Len(s) \in Nat
  BY LenProperties
<1>. QED
  BY <1>3, <1>4

LEMMA StuffingEmpty == Stuffing(<<>>) = NoLine
<1>1. PICK none \in Seq(Bit) : none = <<>>
  BY EmptySeq
<1>2. Len(none) = 0
  BY <1>1, EmptySeq
<1>3. PICK step :
        /\ IsStep(step, StuffLine, Bit)
        /\ \A line \in StuffLine, b \in Bit : step[line][b] = StuffStep(line, b)
  BY StuffStepFunction
<1>4. PICK g \in [0 .. Len(none) -> StuffLine] :
        g[0] = NoLine /\ Runs(step, none, g, Len(none))
  BY <1>3, NoLineType, PrefixRecursion
<1>5. Stuffing(none) = g[Len(none)]
  BY <1>3, <1>4, RunsStuffing
<1>. QED
  BY <1>1, <1>2, <1>4, <1>5

\* One more bit, one more step.
LEMMA StuffingAppend ==
  ASSUME NEW s \in Seq(Bit), NEW b \in Bit
  PROVE  Stuffing(Append(s, b)) = StuffStep(Stuffing(s), b)
<1>1. PICK t : t = Append(s, b)
  OBVIOUS
<1>2. /\ t \in Seq(Bit) /\ Len(t) = Len(s) + 1 /\ Len(s) \in Nat
      /\ \A k \in 1 .. Len(s) : t[k] = s[k]
      /\ t[Len(s) + 1] = b
  BY <1>1, AppendProperties, LenProperties
<1>3. PICK step :
        /\ IsStep(step, StuffLine, Bit)
        /\ \A line \in StuffLine, c \in Bit : step[line][c] = StuffStep(line, c)
  BY StuffStepFunction
<1>4. PICK g \in [0 .. Len(s) -> StuffLine] :
        g[0] = NoLine /\ Runs(step, s, g, Len(s))
  BY <1>3, NoLineType, PrefixRecursion
<1>5. PICK h \in [0 .. Len(t) -> StuffLine] :
        h[0] = NoLine /\ Runs(step, t, h, Len(t))
  BY <1>2, <1>3, NoLineType, PrefixRecursion
<1>6. Stuffing(s) = g[Len(s)] /\ Stuffing(t) = h[Len(t)]
  BY <1>2, <1>3, <1>4, <1>5, RunsStuffing
<1>7. g[Len(s)] = h[Len(s)]
  <2>1. Runs(step, t, h, Len(s))
    <3>1. \A k \in 1 .. Len(s) : k \in 1 .. Len(t)
      BY <1>2
    <3>. QED
      BY <1>5, <3>1 DEF Runs
  <2>2. \A k \in 1 .. Len(s) : s[k] = t[k]
    BY <1>2
  <2>3. g[0] = h[0] /\ Runs(step, s, g, Len(s))
    BY <1>4, <1>5
  <2>4. Agree(s, t, Len(s))
    BY <2>2 DEF Agree
  <2>5. \A k \in 0 .. Len(s) : g[k] = h[k]
    BY <1>2, <2>1, <2>3, <2>4, PrefixesAgree
  <2>. QED
    BY <1>2, <2>5
<1>8. h[Len(t)] = step[h[Len(s)]][t[Len(t)]]
  <2>1. Len(t) \in 1 .. Len(t) /\ Len(t) - 1 = Len(s)
    BY <1>2
  <2>. QED
    BY <1>5, <2>1 DEF Runs
<1>9. step[h[Len(s)]][b] = StuffStep(h[Len(s)], b)
  <2>1. h[Len(s)] \in StuffLine
    <3>1. Len(s) \in 0 .. Len(t)
      BY <1>2
    <3>. QED
      BY <3>1
  <2>. QED
    BY <1>3, <2>1
<1>10. t[Len(t)] = b
  BY <1>2
<1>. QED
  BY <1>1, <1>6, <1>7, <1>8, <1>9, <1>10

-----------------------------------------------------------------------------
(* Stuffing is undone by destuffing *)

\* Data bits, and the ones of the line at their end.
UnstuffData == [out : Seq(Bit), ones : Nat]

LEMMA UnstuffStepType ==
  ASSUME NEW line \in UnstuffData, NEW b \in Bit
  PROVE  UnstuffStep(line, b) \in UnstuffData
<1>1. line.out \in Seq(Bit) /\ line.ones \in Nat
  BY DEF UnstuffData
<1>2. Append(line.out, b) \in Seq(Bit)
  BY <1>1, AppendProperties
<1>3. line.ones + 1 \in Nat
  BY <1>1
<1>. QED
  BY <1>1, <1>2, <1>3 DEF UnstuffStep, UnstuffData

\* The step as a function.
LEMMA UnstuffStepFunction ==
  \E step : /\ IsStep(step, UnstuffData, Bit)
            /\ \A line \in UnstuffData, b \in Bit : step[line][b] = UnstuffStep(line, b)
<1>. DEFINE step == [line \in UnstuffData |-> [b \in Bit |-> UnstuffStep(line, b)]]
<1>1. IsStep(step, UnstuffData, Bit)
  BY UnstuffStepType DEF IsStep
<1>. QED
  BY <1>1

LEMMA NoDataType == NoLine \in UnstuffData
BY EmptySeq DEF NoLine, UnstuffData

\* A function that runs with this step solves the equation in Unstuffing.
LEMMA RunsUnstuffing ==
  ASSUME NEW step, \A line \in UnstuffData, b \in Bit : step[line][b] = UnstuffStep(line, b),
         NEW s \in Seq(Bit), NEW g \in [0 .. Len(s) -> UnstuffData],
         g[0] = NoLine, Runs(step, s, g, Len(s))
  PROVE  Unstuffing(s) = g[Len(s)]
<1>1. Len(s) \in Nat
  BY LenProperties
<1>2. ASSUME NEW k \in 0 .. Len(s), k # 0
      PROVE  g[k] = UnstuffStep(g[k - 1], s[k])
  <2>1. k \in 1 .. Len(s) /\ k - 1 \in 0 .. Len(s)
    BY <1>1, <1>2
  <2>2. g[k - 1] \in UnstuffData /\ s[k] \in Bit
    BY <2>1, ElementOfSeq
  <2>. QED
    BY <2>1, <2>2 DEF Runs
<1>. DEFINE Solves(f) ==
              f = [k \in 0 .. Len(s) |->
                     IF k = 0 THEN NoLine ELSE UnstuffStep(f[k - 1], s[k])]
            line == CHOOSE f : Solves(f)
<1>3. Solves(g)
  BY <1>2
<1>4. Solves(line)
  <2>. HIDE DEF Solves
  <2>. QED
    BY <1>3
<1>5. Unstuffing(s) = line[Len(s)]
  BY DEF Unstuffing, NoLine
<1>. HIDE DEF line
<1>6. \A k \in 0 .. Len(s) :
        line[k] = IF k = 0 THEN NoLine ELSE UnstuffStep(line[k - 1], s[k])
  BY <1>4
<1>. HIDE DEF Solves
<1>. DEFINE same == {k \in 0 .. Len(s) : line[k] = g[k]}
<1>7. 0 \in same
  BY <1>1, <1>6
<1>8. ASSUME NEW k \in 0 .. Len(s), k \in same, k < Len(s)
      PROVE  k + 1 \in same
  <2>1. k + 1 \in 0 .. Len(s) /\ k + 1 # 0 /\ (k + 1) - 1 = k
    BY <1>1, <1>8
  <2>2. line[k + 1] = UnstuffStep(line[k], s[k + 1])
    BY <1>6, <2>1
  <2>3. g[k + 1] = UnstuffStep(g[k], s[k + 1])
    BY <1>2, <2>1
  <2>. QED
    BY <1>8, <2>1, <2>2, <2>3
<1>9. 0 .. Len(s) \subseteq same
  <2>. HIDE DEF same
  <2>1. \A k \in 0 .. Len(s) : k \in same /\ k < Len(s) => k + 1 \in same
    BY <1>8
  <2>. QED
    BY <1>1, <1>7, <2>1, UpToNat
<1>. QED
  BY <1>1, <1>5, <1>9

\* What is destuffed are data bits.
LEMMA UnstuffingType ==
  ASSUME NEW s \in Seq(Bit)
  PROVE  Unstuffing(s) \in UnstuffData
<1>1. PICK step :
        /\ IsStep(step, UnstuffData, Bit)
        /\ \A line \in UnstuffData, b \in Bit : step[line][b] = UnstuffStep(line, b)
  BY UnstuffStepFunction
<1>2. PICK g \in [0 .. Len(s) -> UnstuffData] :
        g[0] = NoLine /\ Runs(step, s, g, Len(s))
  BY <1>1, NoDataType, PrefixRecursion
<1>3. Unstuffing(s) = g[Len(s)]
  BY <1>1, <1>2, RunsUnstuffing
<1>4. Len(s) \in Nat
  BY LenProperties
<1>. QED
  BY <1>3, <1>4

LEMMA UnstuffType ==
  ASSUME NEW s \in Seq(Bit)
  PROVE  Unstuff(s) \in Seq(Bit)
BY UnstuffingType DEF Unstuff, UnstuffData

LEMMA UnstuffingEmpty == Unstuffing(<<>>) = NoLine
<1>1. PICK none \in Seq(Bit) : none = <<>>
  BY EmptySeq
<1>2. Len(none) = 0
  BY <1>1, EmptySeq
<1>3. PICK step :
        /\ IsStep(step, UnstuffData, Bit)
        /\ \A line \in UnstuffData, b \in Bit : step[line][b] = UnstuffStep(line, b)
  BY UnstuffStepFunction
<1>4. PICK g \in [0 .. Len(none) -> UnstuffData] :
        g[0] = NoLine /\ Runs(step, none, g, Len(none))
  BY <1>3, NoDataType, PrefixRecursion
<1>5. Unstuffing(none) = g[Len(none)]
  BY <1>3, <1>4, RunsUnstuffing
<1>. QED
  BY <1>1, <1>2, <1>4, <1>5

\* One more bit, one more step.
LEMMA UnstuffingAppend ==
  ASSUME NEW s \in Seq(Bit), NEW b \in Bit
  PROVE  Unstuffing(Append(s, b)) = UnstuffStep(Unstuffing(s), b)
<1>1. PICK t : t = Append(s, b)
  OBVIOUS
<1>2. /\ t \in Seq(Bit) /\ Len(t) = Len(s) + 1 /\ Len(s) \in Nat
      /\ \A k \in 1 .. Len(s) : t[k] = s[k]
      /\ t[Len(s) + 1] = b
  BY <1>1, AppendProperties, LenProperties
<1>3. PICK step :
        /\ IsStep(step, UnstuffData, Bit)
        /\ \A line \in UnstuffData, c \in Bit : step[line][c] = UnstuffStep(line, c)
  BY UnstuffStepFunction
<1>4. PICK g \in [0 .. Len(s) -> UnstuffData] :
        g[0] = NoLine /\ Runs(step, s, g, Len(s))
  BY <1>3, NoDataType, PrefixRecursion
<1>5. PICK h \in [0 .. Len(t) -> UnstuffData] :
        h[0] = NoLine /\ Runs(step, t, h, Len(t))
  BY <1>2, <1>3, NoDataType, PrefixRecursion
<1>6. Unstuffing(s) = g[Len(s)] /\ Unstuffing(t) = h[Len(t)]
  BY <1>2, <1>3, <1>4, <1>5, RunsUnstuffing
<1>7. g[Len(s)] = h[Len(s)]
  <2>1. Runs(step, t, h, Len(s))
    <3>1. \A k \in 1 .. Len(s) : k \in 1 .. Len(t)
      BY <1>2
    <3>. QED
      BY <1>5, <3>1 DEF Runs
  <2>2. \A k \in 1 .. Len(s) : s[k] = t[k]
    BY <1>2
  <2>3. g[0] = h[0] /\ Runs(step, s, g, Len(s))
    BY <1>4, <1>5
  <2>4. Agree(s, t, Len(s))
    BY <2>2 DEF Agree
  <2>5. \A k \in 0 .. Len(s) : g[k] = h[k]
    BY <1>2, <2>1, <2>3, <2>4, PrefixesAgree
  <2>. QED
    BY <1>2, <2>5
<1>8. h[Len(t)] = step[h[Len(s)]][t[Len(t)]]
  <2>1. Len(t) \in 1 .. Len(t) /\ Len(t) - 1 = Len(s)
    BY <1>2
  <2>. QED
    BY <1>5, <2>1 DEF Runs
<1>9. step[h[Len(s)]][b] = UnstuffStep(h[Len(s)], b)
  <2>1. h[Len(s)] \in UnstuffData
    <3>1. Len(s) \in 0 .. Len(t)
      BY <1>2
    <3>. QED
      BY <3>1
  <2>. QED
    BY <1>3, <2>1
<1>10. t[Len(t)] = b
  BY <1>2
<1>. QED
  BY <1>1, <1>6, <1>7, <1>8, <1>9, <1>10

\* What destuffing makes of the bits that the k-th step of stuffing adds.
LEMMA StepIsUndone ==
  ASSUME NEW line \in StuffLine, NEW b \in Bit, NEW d \in Seq(Bit),
         Unstuffing(line.out) = [out |-> d, ones |-> line.ones]
  PROVE  Unstuffing(StuffStep(line, b).out)
           = [out |-> Append(d, b), ones |-> StuffStep(line, b).ones]
<1>1. line.out \in Seq(Bit) /\ line.ones \in 0 .. 4
  BY DEF StuffLine
<1>2. Unstuffing(Append(line.out, b)) = UnstuffStep([out |-> d, ones |-> line.ones], b)
  BY <1>1, UnstuffingAppend
<1>3. UnstuffStep([out |-> d, ones |-> line.ones], b)
        = [out |-> Append(d, b), ones |-> IF b = 1 THEN line.ones + 1 ELSE 0]
  <2>1. line.ones # 5
    BY <1>1
  <2>. QED
    BY <2>1 DEF UnstuffStep
<1>4. CASE b = 1 /\ line.ones = 4
  <2>1. PICK more \in Seq(Bit) : more = Append(line.out, 1)
    <3>1. 1 \in Bit
      BY DEF Bit
    <3>. QED
      BY <1>1, <3>1, AppendProperties
  <2>2. line.out \o <<1, 0>> = Append(more, 0)
    BY <1>1, <2>1
  <2>3. StuffStep(line, b) = [out |-> Append(more, 0), ones |-> 0]
    <3>1. (IF b = 1 THEN line.ones + 1 ELSE 0) = 5
      BY <1>4
    <3>. QED
      BY <2>2, <3>1 DEF StuffStep
  <2>4. Unstuffing(more) = [out |-> Append(d, b), ones |-> 5]
    BY <1>2, <1>3, <1>4, <2>1
  <2>5. Unstuffing(Append(more, 0)) = UnstuffStep([out |-> Append(d, b), ones |-> 5], 0)
    <3>1. 0 \in Bit
      BY DEF Bit
    <3>. QED
      BY <2>4, <3>1, UnstuffingAppend
  <2>6. UnstuffStep([out |-> Append(d, b), ones |-> 5], 0) = [out |-> Append(d, b), ones |-> 0]
    BY DEF UnstuffStep
  <2>. QED
    BY <2>3, <2>5, <2>6
<1>5. CASE ~ (b = 1 /\ line.ones = 4)
  <2>1. StuffStep(line, b) = [out |-> Append(line.out, b),
                              ones |-> IF b = 1 THEN line.ones + 1 ELSE 0]
    BY <1>1, <1>5 DEF StuffStep
  <2>. QED
    BY <1>2, <1>3, <2>1
<1>. QED
  BY <1>4, <1>5

\* Whatever the data, destuffing the stuffed bits returns them.
THEOREM StuffingIsUndone == \A bits \in Seq(Bit) : Unstuff(Stuff(bits)) = bits
<1>. SUFFICES ASSUME NEW bits \in Seq(Bit)
              PROVE  Unstuff(Stuff(bits)) = bits
  OBVIOUS
<1>1. Len(bits) \in Nat
  BY LenProperties
<1>. DEFINE Undone(k) == Unstuffing(Stuffing(Prefix(bits, k)).out)
                           = [out |-> Prefix(bits, k),
                              ones |-> Stuffing(Prefix(bits, k)).ones]
            good == {k \in 0 .. Len(bits) : Undone(k)}
<1>2. 0 \in good
  <2>1. Prefix(bits, 0) = <<>>
    BY DEF Prefix
  <2>2. Stuffing(<<>>).out = <<>> /\ Stuffing(<<>>).ones = 0
    BY StuffingEmpty DEF NoLine
  <2>3. Unstuffing(<<>>) = [out |-> <<>>, ones |-> 0]
    BY UnstuffingEmpty DEF NoLine
  <2>. QED
    BY <1>1, <2>1, <2>2, <2>3
<1>3. ASSUME NEW k \in 0 .. Len(bits), k \in good, k < Len(bits)
      PROVE  k + 1 \in good
  <2>1. k \in Nat /\ k + 1 \in 0 .. Len(bits) /\ k + 1 <= Len(bits)
    BY <1>1, <1>3
  <2>2. PICK d \in Seq(Bit), b \in Bit :
          d = Prefix(bits, k) /\ Prefix(bits, k + 1) = Append(d, b)
    BY <2>1, PrefixGrows
  <2>3. PICK line \in StuffLine : line = Stuffing(d)
    BY StuffingType
  <2>4. Stuffing(Append(d, b)) = StuffStep(line, b)
    BY <2>3, StuffingAppend
  <2>5. Unstuffing(line.out) = [out |-> d, ones |-> line.ones]
    BY <1>3, <2>2, <2>3
  <2>6. Unstuffing(StuffStep(line, b).out)
          = [out |-> Append(d, b), ones |-> StuffStep(line, b).ones]
    BY <2>5, StepIsUndone
  <2>. QED
    BY <2>1, <2>2, <2>4, <2>6
<1>4. Len(bits) \in good
  <2>. HIDE DEF good
  <2>1. \A k \in 0 .. Len(bits) : k \in good /\ k < Len(bits) => k + 1 \in good
    BY <1>3
  <2>2. 0 .. Len(bits) \subseteq good
    BY <1>1, <1>2, <2>1, UpToNat
  <2>. QED
    BY <1>1, <2>2
<1>5. Prefix(bits, Len(bits)) = bits
  BY PrefixFull
<1>. QED
  BY <1>4, <1>5 DEF Stuff, Unstuff

\* There are six ones nowhere in a row, and so many at the end.
Calm(line) ==
  /\ line.ones <= Len(line.out)
  /\ line.ones < Len(line.out) => line.out[Len(line.out) - line.ones] = 0
  /\ \A p \in Nat : p + 6 <= Len(line.out) => \E k \in 1 .. 6 : line.out[p + k] = 0

LEMMA CalmAppend ==
  ASSUME NEW out \in Seq(Bit), NEW ones \in 0 .. 4, NEW b \in Bit,
         Calm([out |-> out, ones |-> ones])
  PROVE  Calm([out |-> Append(out, b), ones |-> IF b = 1 THEN ones + 1 ELSE 0])
<1>1. PICK more : more = Append(out, b)
  OBVIOUS
<1>2. PICK n \in Nat : n = Len(out)
  BY LenProperties
<1>3. /\ more \in Seq(Bit) /\ Len(more) = n + 1 /\ more[n + 1] = b
      /\ \A k \in 1 .. n : more[k] = out[k]
  BY <1>1, <1>2, AppendProperties
<1>4. /\ ones <= n /\ ones < n => out[n - ones] = 0
      /\ \A p \in Nat : p + 6 <= n => \E k \in 1 .. 6 : out[p + k] = 0
  BY <1>2 DEF Calm
<1>5. PICK some \in Nat : some = IF b = 1 THEN ones + 1 ELSE 0
  OBVIOUS
<1>6. some <= n + 1
  <2>1. ones <= n
    BY <1>2 DEF Calm
  <2>2. \A m \in Nat : m <= n => m + 1 <= n + 1 /\ 0 <= n + 1
    OBVIOUS
  <2>3. ones \in Nat
    OBVIOUS
  <2>4. ones + 1 <= n + 1 /\ 0 <= n + 1
    BY <2>1, <2>2, <2>3
  <2>. QED
    BY <1>5, <2>4
<1>7. ASSUME some < n + 1
      PROVE  more[(n + 1) - some] = 0
  <2>1. CASE b = 1
    <3>1. (n + 1) - some = n - ones /\ n - ones \in 1 .. n /\ ones < n
      BY <1>5, <1>7, <2>1
    <3>. QED
      BY <1>3, <1>4, <3>1
  <2>2. CASE b # 1
    <3>1. b = 0 /\ (n + 1) - some = n + 1
      BY <1>5, <2>2 DEF Bit
    <3>. QED
      BY <1>3, <3>1
  <2>. QED
    BY <2>1, <2>2
<1>8. ASSUME NEW p \in Nat, p + 6 <= n + 1
      PROVE  \E k \in 1 .. 6 : more[p + k] = 0
  <2>1. CASE p + 6 <= n
    <3>1. PICK k \in 1 .. 6 : out[p + k] = 0
      BY <1>4, <2>1
    <3>2. p + k \in 1 .. n
      BY <2>1
    <3>. QED
      BY <1>3, <3>1, <3>2
  <2>2. CASE ~ (p + 6 <= n)
    <3>1. some <= 5 /\ some < n + 1 /\ (n + 1) - some \in p + 1 .. p + 6
      BY <1>5, <1>8, <2>2
    <3>2. PICK k \in 1 .. 6 : (n + 1) - some = p + k
      <4>1. (n + 1) - some - p \in 1 .. 6 /\ (n + 1) - some = p + ((n + 1) - some - p)
        BY <3>1
      <4>. QED
        BY <4>1
    <3>. QED
      BY <1>7, <3>1, <3>2
  <2>. QED
    BY <2>1, <2>2
<1>9. PICK line : line = [out |-> more, ones |-> some]
  OBVIOUS
<1>10. Calm(line)
  <2>1. line.out = more /\ line.ones = some
    BY <1>9
  <2>. QED
    BY <1>3, <1>6, <1>7, <1>8, <2>1 DEF Calm
<1>. QED
  BY <1>1, <1>5, <1>9, <1>10

LEMMA CalmStep ==
  ASSUME NEW line \in StuffLine, NEW b \in Bit, Calm(line)
  PROVE  Calm(StuffStep(line, b))
<1>1. line.out \in Seq(Bit) /\ line.ones \in 0 .. 4
      /\ line = [out |-> line.out, ones |-> line.ones]
  BY DEF StuffLine
<1>2. PICK next : next = [out |-> Append(line.out, b),
                          ones |-> IF b = 1 THEN line.ones + 1 ELSE 0]
  OBVIOUS
<1>3. Calm(next)
  BY <1>1, <1>2, CalmAppend
<1>4. CASE b = 1 /\ line.ones = 4
  <2>1. PICK more \in Seq(Bit) : more = Append(line.out, 1)
    <3>1. 1 \in Bit
      BY DEF Bit
    <3>. QED
      BY <1>1, <3>1, AppendProperties
  <2>2. line.out \o <<1, 0>> = Append(more, 0)
    BY <1>1, <2>1
  <2>3. StuffStep(line, b) = [out |-> Append(more, 0), ones |-> 0]
    <3>1. (IF b = 1 THEN line.ones + 1 ELSE 0) = 5
      BY <1>4
    <3>. QED
      BY <2>2, <3>1 DEF StuffStep
  <2>4. next.out = more
    BY <1>2, <1>4, <2>1
  <2>5. PICK n \in Nat : n = Len(more)
    BY LenProperties
  <2>6. \A p \in Nat : p + 6 <= n => \E k \in 1 .. 6 : more[p + k] = 0
    BY <1>3, <2>4, <2>5 DEF Calm
  <2>7. PICK last : last = Append(more, 0)
    OBVIOUS
  <2>8. last \in Seq(Bit) /\ Len(last) = n + 1 /\ last[n + 1] = 0
        /\ \A k \in 1 .. n : last[k] = more[k]
    <3>1. 0 \in Bit
      BY DEF Bit
    <3>. QED
      BY <2>5, <2>7, <3>1, AppendProperties
  <2>9. ASSUME NEW p \in Nat, p + 6 <= n + 1
        PROVE  \E k \in 1 .. 6 : last[p + k] = 0
    <3>1. CASE p + 6 <= n
      <4>1. PICK k \in 1 .. 6 : more[p + k] = 0
        BY <2>6, <3>1
      <4>2. p + k \in 1 .. n
        BY <3>1
      <4>. QED
        BY <2>8, <4>1, <4>2
    <3>2. CASE ~ (p + 6 <= n)
      <4>1. 6 \in 1 .. 6 /\ p + 6 = n + 1
        BY <2>9, <3>2
      <4>. QED
        BY <2>8, <4>1
    <3>. QED
      BY <3>1, <3>2
  <2>10. PICK full : full = [out |-> last, ones |-> 0]
    OBVIOUS
  <2>11. full.out = last /\ full.ones = 0
    BY <2>10
  <2>12. Calm(full)
    <3>1. Len(last) - 0 = n + 1 /\ 0 <= Len(last)
      BY <2>8
    <3>. QED
      BY <2>8, <2>9, <2>11, <3>1 DEF Calm
  <2>. QED
    BY <2>3, <2>7, <2>10, <2>12
<1>5. CASE ~ (b = 1 /\ line.ones = 4)
  <2>1. StuffStep(line, b) = next
    BY <1>1, <1>2, <1>5 DEF StuffStep
  <2>. QED
    BY <1>3, <2>1
<1>. QED
  BY <1>4, <1>5

\* Six ones in a row, as in a flag, are never part of stuffed bits.
LEMMA NoSixOnes ==
  ASSUME NEW bits \in Seq(Bit), NEW p \in Nat, p + 6 <= Len(Stuff(bits))
  PROVE  \E k \in 1 .. 6 : Stuff(bits)[p + k] = 0
<1>1. Len(bits) \in Nat
  BY LenProperties
<1>. DEFINE good == {k \in 0 .. Len(bits) : Calm(Stuffing(Prefix(bits, k)))}
<1>2. 0 \in good
  <2>1. Prefix(bits, 0) = <<>>
    BY DEF Prefix
  <2>2. NoLine.out = <<>> /\ NoLine.ones = 0 /\ Len(<<>>) = 0
    BY DEF NoLine
  <2>3. \A q \in Nat : ~ (q + 6 <= 0)
    OBVIOUS
  <2>4. Calm(NoLine)
    BY <2>2, <2>3 DEF Calm
  <2>. QED
    BY <1>1, <2>1, <2>4, StuffingEmpty
<1>3. ASSUME NEW k \in 0 .. Len(bits), k \in good, k < Len(bits)
      PROVE  k + 1 \in good
  <2>1. k \in Nat /\ k + 1 \in 0 .. Len(bits) /\ k + 1 <= Len(bits)
    BY <1>1, <1>3
  <2>2. PICK d \in Seq(Bit), b \in Bit :
          d = Prefix(bits, k) /\ Prefix(bits, k + 1) = Append(d, b)
    BY <2>1, PrefixGrows
  <2>3. PICK line \in StuffLine : line = Stuffing(d)
    BY StuffingType
  <2>4. Stuffing(Append(d, b)) = StuffStep(line, b)
    BY <2>3, StuffingAppend
  <2>5. Calm(line)
    BY <1>3, <2>2, <2>3
  <2>6. Calm(StuffStep(line, b))
    BY <2>5, CalmStep
  <2>. QED
    BY <2>1, <2>2, <2>4, <2>6
<1>4. Len(bits) \in good
  <2>. HIDE DEF good
  <2>1. \A k \in 0 .. Len(bits) : k \in good /\ k < Len(bits) => k + 1 \in good
    BY <1>3
  <2>2. 0 .. Len(bits) \subseteq good
    BY <1>1, <1>2, <2>1, UpToNat
  <2>. QED
    BY <1>1, <2>2
<1>5. Calm(Stuffing(bits))
  BY <1>4, PrefixFull
<1>. QED
  BY <1>5 DEF Calm, Stuff

-----------------------------------------------------------------------------
(* The frames of a stream *)

\* Two neighbouring flags with stuffed octets between them make a frame.
LEMMA FrameFound ==
  ASSUME NEW bits, NEW p \in FlagsIn(bits), NEW q \in FlagsIn(bits), p + 8 <= q,
         \A r \in FlagsIn(bits) : ~ (p < r /\ r < q),
         NEW octets \in Seq(Byte),
         SubSeq(bits, p + 8, q - 1) = Stuff(BitsOf(octets))
  PROVE  [open |-> p, close |-> q, raw |-> octets] \in FramesIn(bits)
<1>1. PICK body : body = SubSeq(bits, p + 8, q - 1)
  OBVIOUS
<1>2. BitsOf(octets) \in Seq(Bit) /\ Len(BitsOf(octets)) = 8 * Len(octets)
      /\ Len(octets) \in Nat
  BY BitsOfProperties, LenProperties
<1>3. Unstuff(body) = BitsOf(octets)
  BY <1>1, <1>2, StuffingIsUndone
<1>4. Len(Unstuff(body)) % 8 = 0 /\ Stuff(Unstuff(body)) = body
  <2>1. PICK n \in Nat : n = Len(octets)
    BY <1>2
  <2>2. Len(Unstuff(body)) = 8 * n
    BY <1>2, <1>3, <2>1
  <2>3. (8 * n) % 8 = 0
    OBVIOUS
  <2>. QED
    BY <1>1, <1>3, <2>2, <2>3
<1>5. BytesOf(Unstuff(body)) = octets
  BY <1>3, OctetsOfBits
<1>6. [open |-> p, close |-> q, raw |-> BytesOf(Unstuff(SubSeq(bits, p + 8, q - 1)))]
        \in FramesIn(bits)
  BY <1>1, <1>4 DEF FramesIn
<1>. QED
  BY <1>1, <1>5, <1>6

-----------------------------------------------------------------------------
(* Bits on a line *)

\* Bits of s are on the line, behind the first `at` ones.
HasAt(bits, at, s) ==
  /\ at \in Nat
  /\ at + Len(s) <= Len(bits)
  /\ \A k \in 1 .. Len(s) : bits[at + k] = s[k]

LEMMA FlagLayout ==
  /\ Flag \in Seq(Bit) /\ Len(Flag) = 8
  /\ Flag[1] = 0 /\ Flag[8] = 0
  /\ \A k \in 1 .. 6 : Flag[k + 1] = 1
<1>1. Flag[2] = 1 /\ Flag[3] = 1 /\ Flag[4] = 1 /\ Flag[5] = 1 /\ Flag[6] = 1
        /\ Flag[7] = 1 /\ Flag[1] = 0 /\ Flag[8] = 0
  BY DEF Flag
<1>2. ASSUME NEW k \in 1 .. 6
      PROVE  k + 1 \in {2, 3, 4, 5, 6, 7}
  OBVIOUS
<1>3. Flag \in Seq(Bit) /\ Len(Flag) = 8
  BY DEF Flag, Bit
<1>. QED
  BY <1>1, <1>2, <1>3

\* What a line carries is a piece of it.
LEMMA CarriedPiece ==
  ASSUME NEW bits \in Seq(Bit), NEW e, NEW s \in Seq(Bit), HasAt(bits, e, s)
  PROVE  SubSeq(bits, e + 1, e + Len(s)) = s
<1>1. PICK n \in Nat : n = Len(s)
  BY LenProperties
<1>2. PICK m \in Nat : m = e + n
  BY <1>1 DEF HasAt
<1>3. e \in Nat /\ e <= m /\ m <= Len(bits) /\ m - e = n
  BY <1>1, <1>2 DEF HasAt
<1>4. PICK piece : piece = SubSeq(bits, e + 1, m)
  OBVIOUS
<1>5. /\ piece \in Seq(Bit)
      /\ Len(piece) = n
      /\ \A k \in 1 .. n : piece[k] = bits[e + k]
  BY <1>2, <1>3, <1>4, PieceBit DEF Piece
<1>6. piece = s
  BY <1>1, <1>5, SeqEqual DEF HasAt
<1>. QED
  BY <1>1, <1>2, <1>4, <1>6

\* A flag on a line.
LEMMA FlagCarried ==
  ASSUME NEW bits \in Seq(Bit), NEW e, HasAt(bits, e, Flag)
  PROVE  e + 1 \in FlagsIn(bits)
<1>1. SubSeq(bits, e + 1, e + 8) = Flag
  BY CarriedPiece, FlagLayout
<1>2. Len(bits) \in Nat /\ e \in Nat /\ e + 8 <= Len(bits)
  BY FlagLayout, LenProperties DEF HasAt
<1>3. (e + 1) + 7 = e + 8 /\ e + 1 \in 1 .. Len(bits) - 7
  BY <1>2
<1>. QED
  BY <1>1, <1>3 DEF FlagsIn

\* The bits of a flag in a line: zero, six ones, zero.
LEMMA BitsOfFlag ==
  ASSUME NEW bits \in Seq(Bit), NEW r \in FlagsIn(bits)
  PROVE  /\ r \in Nat /\ r >= 1
         /\ bits[r] = 0
         /\ \A k \in 1 .. 6 : bits[r + k] = 1
<1>1. Len(bits) \in Nat
  BY LenProperties
<1>2. r \in Nat /\ r >= 1 /\ r + 7 <= Len(bits)
  BY <1>1 DEF FlagsIn
<1>3. PICK e \in Nat, m \in Nat : e + 1 = r /\ m = r + 7
  <2>1. r - 1 \in Nat /\ r + 7 \in Nat /\ (r - 1) + 1 = r
    BY <1>2
  <2>. QED
    BY <2>1
<1>4. e <= m /\ m <= Len(bits) /\ m - e = 8
  BY <1>2, <1>3
<1>5. SubSeq(bits, e + 1, m) = Flag
  BY <1>3 DEF FlagsIn
<1>6. \A k \in 1 .. 8 : Flag[k] = bits[e + k]
  BY <1>4, <1>5, PieceBit DEF Piece
<1>7. bits[r] = 0
  <2>1. 1 \in 1 .. 8
    OBVIOUS
  <2>. QED
    BY <1>3, <1>6, <2>1, FlagLayout
<1>8. ASSUME NEW k \in 1 .. 6
      PROVE  bits[r + k] = 1
  <2>1. k + 1 \in 1 .. 8 /\ e + (k + 1) = r + k
    BY <1>3
  <2>2. Flag[k + 1] = 1
    BY FlagLayout
  <2>. QED
    BY <1>6, <2>1, <2>2
<1>. QED
  BY <1>2, <1>7, <1>8

\* No flag begins in stuffed bits, nor with the bit before them, when there is
\* a zero behind them.
LEMMA NoFlagWithin ==
  ASSUME NEW bits \in Seq(Bit), NEW e, NEW data \in Seq(Bit),
         HasAt(bits, e, Stuff(data)),
         bits[(e + Len(Stuff(data))) + 1] = 0,
         NEW t \in 0 .. Len(Stuff(data))
  PROVE  e + t \notin FlagsIn(bits)
<1>. SUFFICES ASSUME e + t \in FlagsIn(bits) PROVE FALSE
  OBVIOUS
<1>1. PICK n \in Nat : n = Len(Stuff(data))
  BY StuffingType, LenProperties DEF StuffLine, Stuff
<1>2. e \in Nat /\ t \in Nat /\ t <= n
  BY <1>1 DEF HasAt
<1>3. \A k \in 1 .. 6 : bits[(e + t) + k] = 1
  BY BitsOfFlag
<1>4. CASE t + 6 <= n
  <2>1. PICK k \in 1 .. 6 : Stuff(data)[t + k] = 0
    BY <1>1, <1>2, <1>4, NoSixOnes
  <2>2. t + k \in 1 .. n /\ e + (t + k) = (e + t) + k
    BY <1>2, <1>4
  <2>3. bits[e + (t + k)] = Stuff(data)[t + k]
    BY <1>1, <2>2 DEF HasAt
  <2>4. bits[(e + t) + k] = 1
    BY <1>3
  <2>. QED
    BY <2>1, <2>2, <2>3, <2>4
<1>5. CASE t + 6 > n
  <2>1. PICK k \in 1 .. 6 : k = (n - t) + 1
    BY <1>2, <1>5
  <2>2. (e + t) + k = (e + n) + 1
    BY <1>2, <2>1
  <2>3. bits[(e + t) + k] = 1
    BY <1>3
  <2>. QED
    BY <1>1, <2>2, <2>3
<1>. QED
  BY <1>2, <1>4, <1>5

\* Nor with any other bit of a flag than its first and last.
LEMMA NoFlagInFlag ==
  ASSUME NEW bits \in Seq(Bit), NEW p \in FlagsIn(bits), NEW r \in FlagsIn(bits),
         p < r
  PROVE  r >= p + 7
<1>1. p \in Nat /\ r \in Nat /\ bits[r] = 0
  BY BitsOfFlag
<1>. SUFFICES ASSUME r < p + 7 PROVE FALSE
  BY <1>1
<1>2. PICK k \in 1 .. 6 : k = r - p
  BY <1>1
<1>3. bits[p + k] = 1
  BY BitsOfFlag
<1>4. p + k = r
  BY <1>1, <1>2
<1>. QED
  BY <1>1, <1>3, <1>4

\* Octets stuffed between two flags are a frame, whatever is around them: there
\* is no flag in them, nor one that has bits of theirs.
LEMMA FrameOnLine ==
  ASSUME NEW bits \in Seq(Bit), NEW octets \in Seq(Byte),
         NEW e \in Nat, e >= 8, NEW n, n = Len(Stuff(BitsOf(octets))),
         HasAt(bits, e - 8, Flag),
         HasAt(bits, e, Stuff(BitsOf(octets))),
         HasAt(bits, e + n, Flag)
  PROVE  [open |-> e - 7, close |-> e + n + 1, raw |-> octets] \in FramesIn(bits)
<1>1. PICK data : data = BitsOf(octets) /\ data \in Seq(Bit)
  BY BitsOfProperties
<1>2. Stuff(data) \in Seq(Bit) /\ n \in Nat
  BY <1>1, StuffingType, LenProperties DEF StuffLine, Stuff
<1>3. PICK p \in Nat, q \in Nat : p = e - 7 /\ q = e + n + 1
  <2>1. e - 7 \in Nat /\ e + n + 1 \in Nat
    BY <1>2
  <2>. QED
    BY <2>1
<1>4. p \in FlagsIn(bits)
  <2>1. (e - 8) + 1 = p
    BY <1>3
  <2>. QED
    BY <2>1, FlagCarried
<1>5. q \in FlagsIn(bits)
  <2>1. (e + n) + 1 = q
    BY <1>2, <1>3
  <2>. QED
    BY <2>1, FlagCarried
<1>6. ASSUME NEW r \in FlagsIn(bits), p < r, r < q
      PROVE  FALSE
  <2>1. r >= p + 7 /\ r \in Nat
    BY <1>4, <1>6, NoFlagInFlag, BitsOfFlag
  <2>2. PICK t \in 0 .. n : r = e + t
    <3>1. r - e \in 0 .. n /\ r = e + (r - e)
      BY <1>2, <1>3, <1>6, <2>1
    <3>. QED
      BY <3>1
  <2>3. bits[(e + n) + 1] = 0
    <3>1. (e + n) + 1 = q
      BY <1>2, <1>3
    <3>. QED
      BY <1>5, <3>1, BitsOfFlag
  <2>. QED
    BY <1>1, <2>2, <2>3, NoFlagWithin
<1>7. SubSeq(bits, p + 8, q - 1) = Stuff(data)
  <2>1. p + 8 = e + 1 /\ q - 1 = e + n
    BY <1>2, <1>3
  <2>2. n = Len(Stuff(data)) /\ HasAt(bits, e, Stuff(data))
    BY <1>1
  <2>3. SubSeq(bits, e + 1, e + Len(Stuff(data))) = Stuff(data)
    BY <1>2, <2>2, CarriedPiece
  <2>. QED
    BY <2>1, <2>2, <2>3
<1>8. p + 8 <= q
  BY <1>2, <1>3
<1>9. [open |-> p, close |-> q, raw |-> octets] \in FramesIn(bits)
  BY <1>1, <1>4, <1>5, <1>6, <1>7, <1>8, FrameFound
<1>. QED
  BY <1>3, <1>9

\* What is carried stays so when bits are put behind it or in front of it.
LEMMA CarriedBefore ==
  ASSUME NEW s \in Seq(Bit), NEW t \in Seq(Bit), NEW e, NEW x \in Seq(Bit),
         HasAt(s, e, x)
  PROVE  HasAt(s \o t, e, x)
<1>1. Len(s) \in Nat /\ Len(t) \in Nat /\ Len(x) \in Nat
  BY LenProperties
<1>2. /\ Len(s \o t) = Len(s) + Len(t)
      /\ \A k \in 1 .. Len(s) + Len(t) :
           (s \o t)[k] = IF k <= Len(s) THEN s[k] ELSE t[k - Len(s)]
  BY ConcatProperties
<1>3. e \in Nat /\ e + Len(x) <= Len(s)
  BY DEF HasAt
<1>4. ASSUME NEW k \in 1 .. Len(x)
      PROVE  (s \o t)[e + k] = x[k]
  <2>1. e + k \in 1 .. Len(s) + Len(t) /\ e + k <= Len(s)
    BY <1>1, <1>3
  <2>2. (s \o t)[e + k] = s[e + k]
    BY <1>2, <2>1
  <2>. QED
    BY <2>2 DEF HasAt
<1>5. e + Len(x) <= Len(s \o t)
  BY <1>1, <1>2, <1>3
<1>. QED
  BY <1>3, <1>4, <1>5 DEF HasAt

LEMMA CarriedBehind ==
  ASSUME NEW s \in Seq(Bit), NEW t \in Seq(Bit), NEW e, NEW x \in Seq(Bit),
         HasAt(t, e, x)
  PROVE  HasAt(s \o t, Len(s) + e, x)
<1>1. Len(s) \in Nat /\ Len(t) \in Nat /\ Len(x) \in Nat
  BY LenProperties
<1>2. /\ Len(s \o t) = Len(s) + Len(t)
      /\ \A k \in 1 .. Len(s) + Len(t) :
           (s \o t)[k] = IF k <= Len(s) THEN s[k] ELSE t[k - Len(s)]
  BY ConcatProperties
<1>3. e \in Nat /\ e + Len(x) <= Len(t)
  BY DEF HasAt
<1>4. ASSUME NEW k \in 1 .. Len(x)
      PROVE  (s \o t)[(Len(s) + e) + k] = x[k]
  <2>1. PICK j \in Nat : j = (Len(s) + e) + k
    BY <1>1, <1>3
  <2>2. j \in 1 .. Len(s) + Len(t) /\ ~ j <= Len(s) /\ j - Len(s) = e + k
    BY <1>1, <1>3, <2>1
  <2>3. (s \o t)[j] = t[e + k]
    BY <1>2, <2>2
  <2>. QED
    BY <2>1, <2>3 DEF HasAt
<1>5. Len(s) + e \in Nat /\ (Len(s) + e) + Len(x) <= Len(s \o t)
  BY <1>1, <1>2, <1>3
<1>. QED
  BY <1>4, <1>5 DEF HasAt

\* The zeros among the first k bits.
ZerosTo(bits, k) == {j \in 1 .. k : bits[j] = 0}

\* One bit more is one zero more, or none.
LEMMA ZerosNext ==
  ASSUME NEW bits \in Seq(Bit), NEW k \in 1 .. Len(bits)
  PROVE  /\ Cardinality(ZerosTo(bits, k)) \in Nat
         /\ Cardinality(ZerosTo(bits, k - 1)) \in Nat
         /\ Cardinality(ZerosTo(bits, k)) =
              Cardinality(ZerosTo(bits, k - 1)) + 1 - bits[k]
<1>1. Len(bits) \in Nat /\ k \in Nat /\ k - 1 \in Nat
  BY LenProperties
<1>2. IsFiniteSet(1 .. k) /\ IsFiniteSet(1 .. (k - 1))
  BY <1>1, FS_Interval
<1>3. IsFiniteSet(ZerosTo(bits, k)) /\ IsFiniteSet(ZerosTo(bits, k - 1))
  BY <1>2, FS_Subset DEF ZerosTo
<1>4. /\ Cardinality(ZerosTo(bits, k)) \in Nat
      /\ Cardinality(ZerosTo(bits, k - 1)) \in Nat
  BY <1>3, FS_CardinalityType
<1>5. bits[k] \in Bit
  BY ElementOfSeq
<1>6. CASE bits[k] = 0
  <2>1. ZerosTo(bits, k) = ZerosTo(bits, k - 1) \cup {k}
    BY <1>1, <1>6 DEF ZerosTo
  <2>2. k \notin ZerosTo(bits, k - 1)
    BY <1>1 DEF ZerosTo
  <2>3. Cardinality(ZerosTo(bits, k)) = Cardinality(ZerosTo(bits, k - 1)) + 1
    BY <1>3, <2>1, <2>2, FS_AddElement
  <2>. QED
    BY <1>4, <1>6, <2>3
<1>7. CASE bits[k] = 1
  <2>1. ZerosTo(bits, k) = ZerosTo(bits, k - 1)
    BY <1>1, <1>7 DEF ZerosTo
  <2>. QED
    BY <1>4, <1>7, <2>1
<1>. QED
  BY <1>4, <1>5, <1>6, <1>7 DEF Bit
=============================================================================
