--------------------------- MODULE InductionProofs ---------------------------
(***************************************************************************)
(* Smallest and largest elements of sets of naturals, and what the         *)
(* recursive definitions of the library compute.  An induction takes the   *)
(* smallest number that a fact fails at.                                   *)
(***************************************************************************)
EXTENDS Integers, SequencesExt, SequenceTheorems, WellFoundedInduction, TLAPS

-----------------------------------------------------------------------------
(* Naturals.                                                               *)

\* A non-empty set of naturals has a smallest element.
LEMMA SmallestNat ==
    ASSUME NEW S \in SUBSET Nat, S # {}
    PROVE  \E x \in S : \A y \in S : x <= y
<1>1. PICK x \in S : \A y \in S : ~(<<y, x>> \in OpToRel(<, Nat))
  BY NatLessThanWellFounded, WFMin, Zenon
<1>2. \A y \in S : ~(y < x)
  BY <1>1, Zenon DEF OpToRel
<1>3. \A y \in S : x <= y
  BY <1>2
<1> QED
  BY <1>3

\* A non-empty bounded set of naturals has a largest element.
LEMMA LargestNat ==
    ASSUME NEW S \in SUBSET Nat, S # {}, NEW M \in Nat, \A x \in S : x <= M
    PROVE  \E x \in S : \A y \in S : y <= x
<1> DEFINE D == {M - x : x \in S}
<1>1. D \in SUBSET Nat /\ D # {}
  <2>1. \A x \in S : M - x \in Nat
    OBVIOUS
  <2>2. D \in SUBSET Nat
    BY <2>1, Zenon
  <2>3. PICK x \in S : TRUE
    OBVIOUS
  <2>4. M - x \in D
    BY <2>3, Zenon
  <2> QED
    BY <2>2, <2>4, Zenon
<1>2. PICK d \in D : \A e \in D : d <= e
  BY <1>1, SmallestNat
<1>3. PICK x \in S : d = M - x
  BY <1>2
<1>4. \A y \in S : y <= x
  <2> TAKE y \in S
  <2>1. M - x <= M - y
    BY <1>2, <1>3
  <2> QED
    BY <2>1
<1> QED
  BY <1>4

-----------------------------------------------------------------------------
(* Sequences.                                                              *)

\* The first n elements of a sequence.
LEMMA PrefixFacts ==
    ASSUME NEW S, NEW s \in Seq(S), NEW n \in 0..Len(s)
    PROVE  /\ SubSeq(s, 1, n) \in Seq(S) /\ Len(SubSeq(s, 1, n)) = n
           /\ \A i \in 1..n : SubSeq(s, 1, n)[i] = s[i]
<1>1. Len(s) \in Nat /\ \A i \in 1..Len(s) : s[i] \in S
  BY LenProperties, ElementOfSeq
<1>2. 1 \in Int /\ n \in Int /\ \A i \in 1..n : s[i] \in S
  BY <1>1
<1>3. /\ SubSeq(s, 1, n) \in Seq(S)
      /\ Len(SubSeq(s, 1, n)) = IF 1 <= n THEN n - 1 + 1 ELSE 0
      /\ \A i \in 1..(n - 1 + 1) : SubSeq(s, 1, n)[i] = s[1 + i - 1]
  BY <1>2, SubSeqProperties
<1> QED
  BY <1>1, <1>3

\* All of them.
LEMMA WholePrefix ==
    ASSUME NEW S, NEW s \in Seq(S)
    PROVE  SubSeq(s, 1, Len(s)) = s
<1>1. Len(s) \in Nat /\ Len(s) \in 0..Len(s)
  BY LenProperties
<1>2. PICK t : t = SubSeq(s, 1, Len(s))
  OBVIOUS
<1>3. t \in Seq(S) /\ Len(t) = Len(s) /\ \A i \in 1..Len(s) : t[i] = s[i]
  BY <1>1, <1>2, PrefixFacts
<1> QED
  BY <1>2, <1>3, SeqEqual

\* A prefix that reaches into the second of two sequences.
LEMMA PrefixOfConcat ==
    ASSUME NEW S, NEW s \in Seq(S), NEW t \in Seq(S), NEW n \in 0..Len(t)
    PROVE  SubSeq(s \o t, 1, Len(s) + n) = s \o SubSeq(t, 1, n)
<1>1. Len(s) \in Nat /\ Len(t) \in Nat
  BY LenProperties
<1>2. PICK u, v, w, x : u = s \o t /\ v = SubSeq(u, 1, Len(s) + n) /\ w = SubSeq(t, 1, n)
                        /\ x = s \o w
  OBVIOUS
<1>3. /\ u \in Seq(S) /\ Len(u) = Len(s) + Len(t)
      /\ \A i \in 1..(Len(s) + Len(t)) : u[i] = IF i <= Len(s) THEN s[i] ELSE t[i - Len(s)]
  BY <1>2, ConcatProperties
<1>4. Len(s) + n \in 0..Len(u)
  BY <1>1, <1>3
<1>5. v \in Seq(S) /\ Len(v) = Len(s) + n /\ \A i \in 1..(Len(s) + n) : v[i] = u[i]
  BY <1>2, <1>3, <1>4, PrefixFacts
<1>6. w \in Seq(S) /\ Len(w) = n /\ \A i \in 1..n : w[i] = t[i]
  BY <1>2, PrefixFacts
<1>7. /\ x \in Seq(S) /\ Len(x) = Len(s) + n
      /\ \A i \in 1..(Len(s) + n) : x[i] = IF i <= Len(s) THEN s[i] ELSE w[i - Len(s)]
  <2>1. /\ x \in Seq(S) /\ Len(x) = Len(s) + Len(w)
        /\ \A i \in 1..(Len(s) + Len(w)) : x[i] = IF i <= Len(s) THEN s[i] ELSE w[i - Len(s)]
    BY <1>2, <1>6, ConcatProperties
  <2> QED
    BY <1>6, <2>1
<1>8. \A i \in 1..(Len(s) + n) : v[i] = x[i]
  <2> TAKE i \in 1..(Len(s) + n)
  <2>1. i \in 1..(Len(s) + Len(t)) /\ i \in Nat
    BY <1>1
  <2>2. CASE i <= Len(s)
    BY <1>3, <1>5, <1>7, <2>1, <2>2
  <2>3. CASE ~(i <= Len(s))
    <3>1. i - Len(s) \in 1..n
      BY <1>1, <2>3
    <3>2. v[i] = t[i - Len(s)] /\ x[i] = w[i - Len(s)]
      BY <1>3, <1>5, <1>7, <2>1, <2>3
    <3> QED
      BY <1>6, <3>1, <3>2
  <2> QED
    BY <2>2, <2>3
<1>9. v = x
  BY <1>5, <1>7, <1>8, SeqEqual
<1> QED
  BY <1>2, <1>9

\* A prefix of a prefix.
LEMMA PrefixOfPrefix ==
    ASSUME NEW S, NEW s \in Seq(S), NEW n \in 0..Len(s), NEW m \in 0..n
    PROVE  SubSeq(SubSeq(s, 1, n), 1, m) = SubSeq(s, 1, m)
<1>1. Len(s) \in Nat /\ m \in 0..Len(s) /\ n \in Nat /\ m \in Nat
  BY LenProperties
<1>2. PICK t, u, v : t = SubSeq(s, 1, n) /\ u = SubSeq(t, 1, m) /\ v = SubSeq(s, 1, m)
  OBVIOUS
<1>3. t \in Seq(S) /\ Len(t) = n /\ \A i \in 1..n : t[i] = s[i]
  BY <1>2, PrefixFacts
<1>4. u \in Seq(S) /\ Len(u) = m /\ \A i \in 1..m : u[i] = t[i]
  BY <1>2, <1>3, PrefixFacts
<1>5. v \in Seq(S) /\ Len(v) = m /\ \A i \in 1..m : v[i] = s[i]
  BY <1>1, <1>2, PrefixFacts
<1>6. \A i \in 1..m : u[i] = v[i]
  BY <1>1, <1>3, <1>4, <1>5
<1>7. u = v
  BY <1>4, <1>5, <1>6, SeqEqual
<1> QED
  BY <1>2, <1>7

\* The numbers of a sequence are bounded.
LEMMA BoundedNat ==
    ASSUME NEW n \in Nat, NEW f \in [1..n -> Nat]
    PROVE  \E M \in Nat : \A i \in 1..n : f[i] <= M
<1> DEFINE Fits(m, M) == \A i \in 1..m : f[i] <= M
           Bad == {m \in 0..n : ~\E M \in Nat : Fits(m, M)}
<1>1. Bad \in SUBSET Nat
  OBVIOUS
<1>2. 0 \notin Bad
  BY DEF Bad
<1>3. ASSUME NEW m \in Bad, \A x \in Bad : m <= x PROVE FALSE
  <2>1. m \in 1..n /\ m - 1 \in 0..n
    BY <1>2, <1>3
  <2>2. ~(m <= m - 1)
    BY <2>1
  <2>3. m - 1 \notin Bad
    BY <1>3, <2>2, Zenon
  <2>4. PICK M \in Nat : Fits(m - 1, M)
    BY <2>1, <2>3
  <2>5. f[m] \in Nat
    BY <2>1
  <2>6. PICK K \in Nat : K = M + f[m]
    BY <2>5
  <2>7. Fits(m, K)
    <3> SUFFICES ASSUME NEW i \in 1..m PROVE f[i] <= K
      OBVIOUS
    <3>1. i \in 1..n
      BY <2>1
    <3>2. f[i] \in Nat
      BY <3>1
    <3>3. CASE i = m
      BY <2>5, <2>6, <3>3
    <3>4. CASE i # m
      <4>1. i \in 1..(m - 1)
        BY <2>1, <3>4
      <4>2. f[i] <= M
        BY <2>4, <4>1
      <4> QED
        BY <2>5, <2>6, <3>2, <4>2
    <3> QED
      BY <3>3, <3>4
  <2> HIDE DEF Fits
  <2>8. m \in {x \in 0..n : ~\E L \in Nat : Fits(x, L)}
    BY <1>3
  <2> QED
    BY <2>7, <2>8
<1>4. Bad = {}
  <2> HIDE DEF Bad
  <2> QED
    BY <1>1, <1>3, SmallestNat
<1>5. n \in 0..n
  OBVIOUS
<1> HIDE DEF Bad, Fits
<1>6. n \notin Bad
  BY <1>4
<1>7. \E M \in Nat : Fits(n, M)
  BY <1>5, <1>6 DEF Bad
<1> QED
  BY <1>7 DEF Fits

-----------------------------------------------------------------------------
(* FlattenSeq.                                                             *)

\* The recursion of FlattenSeq over the first m sequences of s, with g for
\* what it has computed.
Flattened(g, s, m) == [i \in 1..m |-> IF i = 1 THEN s[i] ELSE g[i - 1] \o s[i]]
Flattens(g, s, m) == g = Flattened(g, s, m)

SameUpTo(s, t, n) == \A i \in 1..n : s[i] = t[i]

\* It has a solution, ...
LEMMA FlattenSolved ==
    ASSUME NEW s, NEW n \in Nat
    PROVE  \E g : Flattens(g, s, n)
<1> DEFINE Bad == {m \in Nat : ~\E g : g = Flattened(g, s, m)}
<1>1. Bad = {}
  <2> SUFFICES ASSUME Bad # {} PROVE FALSE
    OBVIOUS
  <2>1. PICK m \in Bad : \A x \in Bad : m <= x
    <3>1. Bad \in SUBSET Nat
      OBVIOUS
    <3> HIDE DEF Bad
    <3> QED
      BY <3>1, SmallestNat
  <2>2. CASE m = 0
    <3> DEFINE g == [i \in 1..m |-> s[i]]
    <3>1. g = Flattened(g, s, m)
      BY <2>2 DEF Flattened
    <3> QED
      BY <2>1, <3>1
  <2>3. CASE m # 0
    <3>1. m - 1 \in Nat /\ m - 1 \notin Bad /\ m \in Nat
      BY <2>1, <2>3
    <3>2. PICK h : h = Flattened(h, s, m - 1)
      BY <3>1
    <3> DEFINE g == Flattened(h, s, m)
    <3>3. \A i \in 1..m : i # 1 => g[i - 1] = h[i - 1]
      <4> SUFFICES ASSUME NEW i \in 1..m, i # 1 PROVE g[i - 1] = h[i - 1]
        OBVIOUS
      <4>1. i - 1 \in 1..m /\ i - 1 \in 1..(m - 1)
        BY <3>1
      <4>2. g[i - 1] = IF i - 1 = 1 THEN s[i - 1] ELSE h[(i - 1) - 1] \o s[i - 1]
        BY <4>1 DEF Flattened
      <4>3. h[i - 1] = IF i - 1 = 1 THEN s[i - 1] ELSE h[(i - 1) - 1] \o s[i - 1]
        BY <3>2, <4>1 DEF Flattened
      <4> QED
        BY <4>2, <4>3
    <3>4. g = Flattened(g, s, m)
      <4>1. \A i \in 1..m : (IF i = 1 THEN s[i] ELSE g[i - 1] \o s[i])
                              = (IF i = 1 THEN s[i] ELSE h[i - 1] \o s[i])
        BY <3>3
      <4> HIDE DEF g
      <4>2. g = [i \in 1..m |-> IF i = 1 THEN s[i] ELSE h[i - 1] \o s[i]]
        BY DEF g, Flattened
      <4> QED
        BY <4>1, <4>2 DEF Flattened
    <3> QED
      BY <2>1, <3>4
  <2> QED
    BY <2>2, <2>3
<1> QED
  BY <1>1 DEF Flattens

\* ... which does not depend on how far it goes.
LEMMA FlattenAgrees ==
    ASSUME NEW s, NEW t, NEW m \in Nat, NEW n \in Nat, m <= n,
           SameUpTo(s, t, m),
           NEW g, Flattens(g, s, m), NEW h, Flattens(h, t, n)
    PROVE  SameUpTo(g, h, m)
<1> DEFINE Bad == {i \in 1..m : g[i] # h[i]}
<1> SUFFICES ASSUME Bad # {} PROVE FALSE
  BY DEF SameUpTo
<1>1. PICK i \in Bad : \A x \in Bad : i <= x
  <2>1. Bad \in SUBSET Nat
    OBVIOUS
  <2> HIDE DEF Bad
  <2> QED
    BY <2>1, SmallestNat
<1>2. i \in 1..m /\ i \in 1..n /\ i \in Nat
  BY <1>1
<1>3. g[i] = IF i = 1 THEN s[i] ELSE g[i - 1] \o s[i]
  BY <1>2 DEF Flattens, Flattened
<1>4. h[i] = IF i = 1 THEN t[i] ELSE h[i - 1] \o t[i]
  BY <1>2 DEF Flattens, Flattened
<1>5. i # 1 => g[i - 1] = h[i - 1]
  <2> SUFFICES ASSUME i # 1 PROVE g[i - 1] = h[i - 1]
    OBVIOUS
  <2>1. i - 1 \in 1..m /\ ~(i <= i - 1)
    BY <1>2
  <2>2. i - 1 \notin Bad
    BY <1>1, <2>1
  <2> QED
    BY <2>1, <2>2
<1>6. g[i] = h[i]
  BY <1>2, <1>3, <1>4, <1>5 DEF SameUpTo
<1> QED
  BY <1>1, <1>6

LEMMA FlattenIs ==
    ASSUME NEW S, NEW s \in Seq(S), Len(s) # 0, NEW g, Flattens(g, s, Len(s))
    PROVE  FlattenSeq(s) = g[Len(s)]
<1> DEFINE f == CHOOSE h : h = Flattened(h, s, Len(s))
<1>1. Len(s) \in Nat /\ Len(s) \in 1..Len(s)
  BY LenProperties
<1>2. Flattens(f, s, Len(s))
  BY DEF Flattens
<1>3. FlattenSeq(s) = f[Len(s)]
  BY DEF FlattenSeq, Flattened
<1> HIDE DEF f
<1>4. SameUpTo(f, g, Len(s))
  <2>1. SameUpTo(s, s, Len(s))
    BY DEF SameUpTo
  <2> QED
    BY <1>1, <1>2, <2>1, FlattenAgrees
<1> QED
  BY <1>1, <1>3, <1>4 DEF SameUpTo

LEMMA FlattenEmpty == FlattenSeq(<<>>) = <<>>
BY DEF FlattenSeq

\* FlattenSeq is what it should be: an element more adds its elements.
LEMMA FlattenAppend ==
    ASSUME NEW S, NEW s \in Seq(Seq(S)), NEW e \in Seq(S)
    PROVE  FlattenSeq(Append(s, e)) = FlattenSeq(s) \o e
<1>0. PICK T : T = Seq(S)
  OBVIOUS
<1>n. PICK n \in Nat : n = Len(s)
  BY <1>0, LenProperties
<1>t. PICK t : t = Append(s, e)
  OBVIOUS
<1>1. n = Len(s) /\ t = Append(s, e)
  BY <1>n, <1>t
<1>2. /\ t \in Seq(T) /\ Len(t) = n + 1 /\ t[n + 1] = e
      /\ \A i \in 1..n : s[i] = t[i]
  <2>1. s \in Seq(T) /\ e \in T
    BY <1>0
  <2> QED
    BY <1>1, <2>1, AppendProperties
<1>3. PICK m \in Nat : m = n + 1
  OBVIOUS
<1>4. n <= m /\ m # 0 /\ m \in 1..m /\ m - 1 = n
  BY <1>3
<1>h. PICK h : Flattens(h, t, m)
  BY FlattenSolved
<1>5. FlattenSeq(t) = h[m]
  BY <1>2, <1>3, <1>4, <1>h, FlattenIs
<1>6. h[m] = IF m = 1 THEN t[m] ELSE h[m - 1] \o t[m]
  BY <1>4, <1>h DEF Flattens, Flattened
<1>7. CASE n = 0
  <2>1. s = <<>>
    BY <1>0, <1>1, <1>7, EmptySeq
  <2>2. FlattenSeq(s) = <<>>
    BY <2>1, FlattenEmpty
  <2>3. <<>> \o e = e
    BY ConcatEmptySeq
  <2>4. m = 1
    BY <1>3, <1>7
  <2> QED
    BY <1>1, <1>2, <1>3, <1>5, <1>6, <2>2, <2>3, <2>4
<1>8. CASE n # 0
  <2>1. PICK g : Flattens(g, s, n)
    BY FlattenSolved
  <2>2. FlattenSeq(s) = g[n]
    BY <1>0, <1>1, <1>8, <2>1, FlattenIs
  <2>3. n \in 1..n /\ m # 1
    BY <1>3, <1>8
  <2>4. SameUpTo(g, h, n)
    <3>1. n <= m /\ SameUpTo(s, t, n)
      BY <1>2, <1>4 DEF SameUpTo
    <3> QED
      BY <1>h, <2>1, <3>1, FlattenAgrees
  <2>5. g[n] = h[n]
    BY <2>3, <2>4 DEF SameUpTo
  <2> QED
    BY <1>1, <1>2, <1>3, <1>4, <1>5, <1>6, <2>2, <2>3, <2>5
<1> QED
  BY <1>7, <1>8

\* The elements of the elements.
LEMMA FlattenType ==
    ASSUME NEW S, NEW s \in Seq(Seq(S))
    PROVE  FlattenSeq(s) \in Seq(S)
<1>1. CASE s = <<>>
  BY <1>1, FlattenEmpty, EmptySeq
<1>2. CASE s # <<>>
  <2>1. Len(s) \in Nat /\ Len(s) # 0 /\ Len(s) \in 1..Len(s)
    BY <1>2, EmptySeq, LenProperties
  <2>2. PICK g : Flattens(g, s, Len(s))
    BY <2>1, FlattenSolved
  <2> DEFINE Bad == {i \in 1..Len(s) : g[i] \notin Seq(S)}
  <2>3. Bad = {}
    <3> SUFFICES ASSUME Bad # {} PROVE FALSE
      OBVIOUS
    <3>1. PICK i \in Bad : \A x \in Bad : i <= x
      <4>1. Bad \in SUBSET Nat
        OBVIOUS
      <4> HIDE DEF Bad
      <4> QED
        BY <4>1, SmallestNat
    <3>2. g[i] = (IF i = 1 THEN s[i] ELSE g[i - 1] \o s[i]) /\ s[i] \in Seq(S)
      BY <2>2, <3>1, ElementOfSeq DEF Flattens, Flattened
    <3>3. i # 1 => g[i - 1] \in Seq(S)
      <4> SUFFICES ASSUME i # 1 PROVE g[i - 1] \in Seq(S)
        OBVIOUS
      <4>1. i - 1 \in 1..Len(s) /\ ~(i <= i - 1)
        BY <2>1, <3>1
      <4> QED
        BY <3>1, <4>1
    <3>4. g[i] \in Seq(S)
      BY <3>2, <3>3, ConcatProperties
    <3> QED
      BY <3>1, <3>4
  <2>4. FlattenSeq(s) = g[Len(s)]
    BY <2>1, <2>2, FlattenIs
  <2> QED
    BY <2>1, <2>3, <2>4
<1> QED
  BY <1>1, <1>2
=============================================================================
