------------------------------ MODULE LogProofs ------------------------------
(***************************************************************************)
(* The append-only log keeps its promises for records of any kind, batches *)
(* of any size, segments of any length and any number of crashes: no       *)
(* synced record ever goes, and while no I/O error was returned and the    *)
(* crashes are of one kind, the log implements DurableLog.                 *)
(***************************************************************************)
EXTENDS Log, InductionProofs

Cell == Record \cup {Torn}
File == Seq(Cell)

-----------------------------------------------------------------------------
(* Recovery of one segment.                                                *)

\* The place where decoding stops is the only one of its kind.
LEMMA ValidLenIs ==
    ASSUME NEW f \in File, NEW n \in 0..Len(f), \A i \in 1..n : f[i] # Torn,
           n < Len(f) => f[n + 1] = Torn
    PROVE  ValidLen(f) = n
<1> DEFINE P(m) == (\A i \in 1..m : f[i] # Torn) /\ (m < Len(f) => f[m + 1] = Torn)
<1>1. Len(f) \in Nat
  BY LenProperties DEF File
<1>2. PICK m : m = ValidLen(f)
  OBVIOUS
<1>3. m \in 0..Len(f) /\ P(m)
  <2>1. \E k \in 0..Len(f) : P(k)
    OBVIOUS
  <2>2. m = CHOOSE k \in 0..Len(f) : P(k)
    BY <1>2 DEF ValidLen
  <2> HIDE DEF P
  <2> QED
    BY <2>1, <2>2
<1>4. CASE m < n
  <2>1. m + 1 \in 1..n /\ m < Len(f)
    BY <1>1, <1>3, <1>4
  <2> QED
    BY <1>3, <2>1
<1>5. CASE n < m
  <2>1. n + 1 \in 1..m /\ n < Len(f)
    BY <1>1, <1>3, <1>5
  <2> QED
    BY <1>3, <2>1
<1>6. m = n
  BY <1>1, <1>3, <1>4, <1>5
<1> QED
  BY <1>2, <1>6

\* There is one: in front of the first torn cell, or at the end.
LEMMA ValidLenFacts ==
    ASSUME NEW f \in File
    PROVE  /\ ValidLen(f) \in 0..Len(f)
           /\ \A i \in 1..ValidLen(f) : f[i] # Torn
           /\ ValidLen(f) < Len(f) => f[ValidLen(f) + 1] = Torn
<1> DEFINE T == {i \in 1..Len(f) : f[i] = Torn}
<1>1. Len(f) \in Nat
  BY LenProperties DEF File
<1>2. PICK n \in 0..Len(f) : (\A i \in 1..n : f[i] # Torn) /\ (n < Len(f) => f[n + 1] = Torn)
  <2>1. CASE T = {}
    <3>1. Len(f) \in 0..Len(f) /\ ~(Len(f) < Len(f))
      BY <1>1
    <3> QED
      BY <2>1, <3>1
  <2>2. CASE T # {}
    <3>1. PICK k \in T : \A x \in T : k <= x
      <4>1. T \in SUBSET Nat
        OBVIOUS
      <4> HIDE DEF T
      <4> QED
        BY <2>2, <4>1, SmallestNat
    <3>2. k \in 1..Len(f) /\ f[k] = Torn
      OBVIOUS
    <3>3. PICK n \in 0..Len(f) : n + 1 = k
      <4>1. k - 1 \in 0..Len(f) /\ k - 1 + 1 = k
        BY <1>1, <3>2
      <4> QED
        BY <4>1
    <3>4. \A i \in 1..n : i \in 1..Len(f) /\ ~(k <= i)
      BY <1>1, <3>2, <3>3
    <3>5. \A i \in 1..n : f[i] # Torn
      BY <3>1, <3>4
    <3> QED
      BY <3>2, <3>3, <3>5
  <2> QED
    BY <2>1, <2>2
<1>3. ValidLen(f) = n
  BY <1>2, ValidLenIs
<1> QED
  BY <1>2, <1>3

\* What recover returns: records, the cells in front of that place.
LEMMA RecoverFacts ==
    ASSUME NEW f \in File
    PROVE  /\ Recover(f) \in Seq(Record) /\ Recover(f) \in File /\ Len(Recover(f)) = ValidLen(f)
           /\ \A i \in 1..ValidLen(f) : Recover(f)[i] = f[i]
<1>1. Len(f) \in Nat /\ \A i \in 1..Len(f) : f[i] \in Cell
  BY LenProperties, ElementOfSeq DEF File
<1>2. PICK n \in 0..Len(f) : n = ValidLen(f)
  BY ValidLenFacts
<1>3. PICK s : s = Recover(f)
  OBVIOUS
<1>4. s = SubSeq(f, 1, n)
  BY <1>2, <1>3 DEF Recover
<1>5. s \in Seq(Cell) /\ Len(s) = n /\ \A i \in 1..n : s[i] = f[i]
  BY <1>4, PrefixFacts DEF File
<1>6. \A i \in 1..n : s[i] \in Record
  <2> TAKE i \in 1..n
  <2>1. i \in 1..Len(f)
    BY <1>1
  <2>2. f[i] # Torn /\ f[i] \in Cell
    BY <1>1, <1>2, <2>1, ValidLenFacts
  <2> QED
    BY <1>5, <2>2 DEF Cell
<1>7. s \in Seq(Record)
  <2>1. s \in [1..n -> Record]
    BY <1>5, <1>6, LenProperties
  <2>2. n \in Nat
    BY <1>1
  <2> QED
    BY <2>1, <2>2, SeqDef
<1> QED
  BY <1>2, <1>3, <1>5, <1>7 DEF File

\* A segment that starts with n records of f and then ends or is torn.
LEMMA RecoverIs ==
    ASSUME NEW f \in File, NEW g \in File, NEW n \in 0..Len(f), n <= Len(g), SameUpTo(f, g, n),
           \A i \in 1..n : f[i] # Torn, n < Len(g) => g[n + 1] = Torn
    PROVE  Recover(g) = SubSeq(f, 1, n)
<1>1. Len(f) \in Nat /\ Len(g) \in Nat /\ n \in 0..Len(g)
  BY LenProperties DEF File
<1>2. \A i \in 1..n : g[i] # Torn
  BY DEF SameUpTo
<1>3. ValidLen(g) = n
  BY <1>1, <1>2, ValidLenIs
<1>4. PICK s, t : s = Recover(g) /\ t = SubSeq(f, 1, n)
  OBVIOUS
<1>5. s \in Seq(Cell) /\ Len(s) = n /\ \A i \in 1..n : s[i] = g[i]
  BY <1>3, <1>4, RecoverFacts DEF File
<1>6. t \in Seq(Cell) /\ Len(t) = n /\ \A i \in 1..n : t[i] = f[i]
  BY <1>4, PrefixFacts DEF File
<1>7. \A i \in 1..n : s[i] = t[i]
  BY <1>5, <1>6 DEF SameUpTo
<1>8. s = t
  BY <1>5, <1>6, <1>7, SeqEqual
<1> QED
  BY <1>4, <1>8

\* A segment without torn bytes is recovered whole.
LEMMA RecoverClean ==
    ASSUME NEW f \in File, Clean(f)
    PROVE  Recover(f) = f /\ ValidLen(f) = Len(f)
<1>1. Len(f) \in Nat /\ DOMAIN f = 1..Len(f) /\ Len(f) \in 0..Len(f) /\ ~(Len(f) < Len(f))
  BY LenProperties DEF File
<1>2. \A i \in 1..Len(f) : f[i] # Torn
  BY <1>1 DEF Clean
<1>3. ValidLen(f) = Len(f)
  BY <1>1, <1>2, ValidLenIs
<1>4. SubSeq(f, 1, Len(f)) = f
  BY WholePrefix DEF File
<1> QED
  BY <1>3, <1>4 DEF Recover

\* Truncating a segment to what recover returns loses no record, and leaves
\* no torn bytes.
LEMMA TruncatedFacts ==
    ASSUME NEW f \in File
    PROVE  /\ Truncated(f) = Recover(f) /\ Truncated(f) \in File
           /\ Clean(Truncated(f)) /\ Recover(Truncated(f)) = Recover(f)
<1>1. PICK g : g = Recover(f)
  OBVIOUS
<1>2. Truncated(f) = g
  BY <1>1 DEF Truncated, Recover
<1>3. /\ g \in File /\ Len(g) = ValidLen(f) /\ DOMAIN g = 1..Len(g)
      /\ \A i \in 1..ValidLen(f) : g[i] = f[i] /\ f[i] # Torn
  BY <1>1, RecoverFacts, ValidLenFacts, LenProperties DEF File
<1>4. Clean(g)
  BY <1>3 DEF Clean
<1>5. Recover(g) = g
  BY <1>3, <1>4, RecoverClean
<1> QED
  BY <1>1, <1>2, <1>3, <1>4, <1>5

-----------------------------------------------------------------------------
(* Replay of all segments.                                                 *)

LEMMA ReplayEmpty == Replay(<<>>) = <<>>
<1>1. [i \in DOMAIN <<>> |-> Recover(<<>>[i])] = <<>>
  OBVIOUS
<1> QED
  BY <1>1, FlattenEmpty DEF Replay

\* The parts a replay puts together.
LEMMA PartsFacts ==
    ASSUME NEW fs \in Seq(File)
    PROVE  /\ [i \in DOMAIN fs |-> Recover(fs[i])] \in Seq(Seq(Record))
           /\ Len([i \in DOMAIN fs |-> Recover(fs[i])]) = Len(fs)
<1>1. Len(fs) \in Nat /\ DOMAIN fs = 1..Len(fs)
  BY LenProperties
<1>2. \A i \in 1..Len(fs) : Recover(fs[i]) \in Seq(Record)
  BY ElementOfSeq, RecoverFacts
<1>3. PICK p : p = [i \in DOMAIN fs |-> Recover(fs[i])]
  OBVIOUS
<1>4. p \in [1..Len(fs) -> Seq(Record)]
  BY <1>1, <1>2, <1>3
<1>5. p \in Seq(Seq(Record))
  BY <1>1, <1>4, SeqDef
<1>6. Len(p) = Len(fs)
  BY <1>1, <1>4, <1>5, LenProperties
<1> QED
  BY <1>3, <1>5, <1>6

LEMMA ReplayType ==
    ASSUME NEW fs \in Seq(File)
    PROVE  Replay(fs) \in Seq(Record)
BY PartsFacts, FlattenType DEF Replay

\* One more segment adds what is recovered of it.
LEMMA ReplayAppend ==
    ASSUME NEW fs \in Seq(File), NEW f \in File
    PROVE  Replay(Append(fs, f)) = Replay(fs) \o Recover(f)
<1>1. PICK p, gs, q : /\ p = [i \in DOMAIN fs |-> Recover(fs[i])] /\ gs = Append(fs, f)
                      /\ q = [i \in DOMAIN gs |-> Recover(gs[i])]
  OBVIOUS
<1>2. /\ gs \in Seq(File) /\ Len(gs) = Len(fs) + 1 /\ \A i \in 1..Len(fs) : gs[i] = fs[i]
      /\ gs[Len(fs) + 1] = f
  BY <1>1, AppendProperties
<1>3. Len(fs) \in Nat /\ DOMAIN fs = 1..Len(fs) /\ DOMAIN gs = 1..(Len(fs) + 1)
  BY <1>2, LenProperties
<1>T. PICK T : T = Seq(Record)
  OBVIOUS
<1>4. /\ p \in Seq(T) /\ Len(p) = Len(fs)
      /\ q \in Seq(T) /\ Len(q) = Len(fs) + 1
      /\ Recover(f) \in T
  BY <1>1, <1>2, <1>T, PartsFacts, RecoverFacts
<1>5. PICK r : r = Append(p, Recover(f))
  OBVIOUS
<1>6. /\ r \in Seq(T) /\ Len(r) = Len(fs) + 1 /\ \A i \in 1..Len(fs) : r[i] = p[i]
      /\ r[Len(fs) + 1] = Recover(f)
  BY <1>4, <1>5, AppendProperties
<1>7. \A i \in 1..(Len(fs) + 1) : q[i] = r[i]
  <2> TAKE i \in 1..(Len(fs) + 1)
  <2>1. q[i] = Recover(gs[i])
    BY <1>1, <1>3
  <2>2. CASE i \in 1..Len(fs)
    BY <1>1, <1>2, <1>3, <1>6, <2>1, <2>2
  <2>3. CASE i = Len(fs) + 1
    BY <1>2, <1>6, <2>1, <2>3
  <2> QED
    BY <1>3, <2>2, <2>3
<1>8. q = r
  BY <1>4, <1>6, <1>7, SeqEqual
<1>9. FlattenSeq(Append(p, Recover(f))) = FlattenSeq(p) \o Recover(f)
  BY <1>4, <1>T, FlattenAppend
<1> QED
  BY <1>1, <1>5, <1>8, <1>9 DEF Replay

\* Only the last segment decides how a replay ends.
LEMMA ReplayLast ==
    ASSUME NEW fs \in Seq(File), NEW gs \in Seq(File), NEW n \in Nat \ {0}, Len(fs) = n,
           Len(gs) = n, SameUpTo(fs, gs, n - 1)
    PROVE  \E a \in Seq(Record) :
              Replay(fs) = a \o Recover(fs[n]) /\ Replay(gs) = a \o Recover(gs[n])
<1>1. PICK m \in Nat : m = n - 1 /\ m + 1 = n
  OBVIOUS
<1>2. m \in 0..Len(fs) /\ m \in 0..Len(gs) /\ n \in 1..n
  BY <1>1
<1>3. PICK front : front = SubSeq(fs, 1, m)
  OBVIOUS
<1>4. front \in Seq(File) /\ Len(front) = m /\ \A i \in 1..m : front[i] = fs[i]
  BY <1>2, <1>3, PrefixFacts
<1>5. \A i \in 1..m : front[i] = gs[i]
  BY <1>1, <1>4 DEF SameUpTo
<1>6. ASSUME NEW hs \in Seq(File), Len(hs) = n, \A i \in 1..m : front[i] = hs[i]
      PROVE  Replay(hs) = Replay(front) \o Recover(hs[n])
  <2>1. PICK h \in File : h = hs[n]
    BY <1>2, <1>6, ElementOfSeq
  <2>2. PICK t : t = Append(front, h)
    OBVIOUS
  <2>3. /\ t \in Seq(File) /\ Len(t) = n /\ \A i \in 1..m : t[i] = front[i]
        /\ t[n] = h
    BY <1>1, <1>4, <2>2, AppendProperties
  <2>4. \A i \in 1..n : i \in 1..m \/ i = n
    BY <1>1
  <2>5. \A i \in 1..n : t[i] = hs[i]
    BY <1>6, <2>1, <2>3, <2>4
  <2>6. t = hs
    BY <1>6, <2>3, <2>5, SeqEqual
  <2> QED
    BY <1>4, <2>1, <2>2, <2>6, ReplayAppend
<1>7. Replay(front) \in Seq(Record)
  BY <1>4, ReplayType
<1> QED
  BY <1>4, <1>5, <1>6, <1>7

\* Every sequence number is below NextSeq, which is the number of records
\* when they are numbered without a gap.
LEMMA NextSeqFacts ==
    ASSUME NEW rs \in Seq(Record)
    PROVE  /\ NextSeq(rs) \in Nat
           /\ (\A i \in DOMAIN rs : rs[i].seq = i - 1) => NextSeq(rs) = Len(rs)
<1>1. Len(rs) \in Nat /\ DOMAIN rs = 1..Len(rs)
  BY LenProperties
<1>2. CASE rs = <<>>
  BY <1>2 DEF NextSeq
<1>3. CASE rs # <<>>
  <2> DEFINE S == {r.seq : r \in ToSet(rs)}
  <2>1. Len(rs) # 0 /\ Len(rs) \in 1..Len(rs)
    BY <1>1, <1>3, EmptySeq
  <2>2. PICK f : f = [i \in 1..Len(rs) |-> rs[i].seq]
    OBVIOUS
  <2>3. \A i \in 1..Len(rs) : rs[i].seq \in Nat
    <3>1. \A i \in 1..Len(rs) : rs[i] \in Record
      BY ElementOfSeq
    <3> QED
      BY <3>1 DEF Record
  <2>4. f \in [1..Len(rs) -> Nat]
    BY <2>2, <2>3
  <2>5. PICK M \in Nat : \A i \in 1..Len(rs) : f[i] <= M
    BY <1>1, <2>4, BoundedNat
  <2>6. \A x : x \in S <=> \E i \in 1..Len(rs) : x = rs[i].seq
    BY <1>1 DEF ToSet
  <2>7. NextSeq(rs) = Max(S) + 1
    BY <1>3 DEF NextSeq
  <2> HIDE DEF S
  <2>8. S \in SUBSET Nat /\ S # {} /\ \A x \in S : x <= M
    BY <2>1, <2>2, <2>3, <2>5, <2>6
  <2>9. \E x \in S : \A y \in S : y <= x
    BY <2>8, LargestNat
  <2>10. PICK m : m = Max(S)
    OBVIOUS
  <2>11. m \in S /\ m \in Nat /\ \A y \in S : y <= m
    <3>1. m = CHOOSE x \in S : \A y \in S : x >= y
      BY <2>10 DEF Max
    <3>2. \E x \in S : \A y \in S : x >= y
      BY <2>8, <2>9
    <3>3. m \in S /\ \A y \in S : m >= y
      BY <3>1, <3>2
    <3> QED
      BY <2>8, <3>3
  <2>12. ASSUME \A i \in DOMAIN rs : rs[i].seq = i - 1 PROVE m = Len(rs) - 1
    <3>1. Len(rs) - 1 \in S
      <4>1. rs[Len(rs)].seq = Len(rs) - 1
        BY <1>1, <2>1, <2>12
      <4> QED
        BY <2>1, <2>6, <4>1
    <3>2. PICK i \in 1..Len(rs) : m = rs[i].seq
      BY <2>6, <2>11
    <3>3. m = i - 1
      BY <1>1, <2>12, <3>2
    <3>4. Len(rs) - 1 <= m
      <4>1. PICK z : z = Len(rs) - 1
        OBVIOUS
      <4>2. z \in S
        BY <3>1, <4>1
      <4>3. z <= m
        BY <2>11, <4>2
      <4> QED
        BY <4>1, <4>3
    <3>5. i <= Len(rs) /\ i \in Nat
      BY <1>1, <3>2
    <3>6. PICK n \in Nat : n = Len(rs)
      BY <1>1
    <3>7. \A k, l \in Nat : l - 1 <= k - 1 /\ k <= l => k - 1 = l - 1
      OBVIOUS
    <3>8. n - 1 <= i - 1 /\ i <= n
      BY <3>3, <3>4, <3>5, <3>6, Zenon
    <3>9. i - 1 = n - 1
      BY <3>5, <3>6, <3>7, <3>8, Zenon
    <3> QED
      BY <3>3, <3>6, <3>9, Zenon
  <2> QED
    BY <1>1, <2>7, <2>10, <2>11, <2>12
<1> QED
  BY <1>2, <1>3

-----------------------------------------------------------------------------
(* What is done to the files.                                              *)

\* The files fs, of each of which the first sy[i] cells are synced.
Disk(fs, sy) ==
    /\ fs \in Seq(File) /\ sy \in Seq(Nat) /\ DOMAIN sy = DOMAIN fs
    /\ \A i \in DOMAIN fs : sy[i] <= Len(fs[i])

\* The first n(i) cells of every file of fs are those of gs.
Kept(fs, gs, n) ==
    \A i \in DOMAIN fs : i \in DOMAIN gs /\ n[i] <= Len(gs[i]) /\ SameUpTo(fs[i], gs[i], n[i])

LEMMA DiskFacts ==
    ASSUME NEW fs, NEW sy, Disk(fs, sy)
    PROVE  /\ Len(fs) \in Nat /\ Len(sy) = Len(fs)
           /\ DOMAIN fs = 1..Len(fs) /\ DOMAIN sy = 1..Len(fs)
           /\ \A i \in 1..Len(fs) : /\ fs[i] \in File /\ Len(fs[i]) \in Nat
                                    /\ DOMAIN fs[i] = 1..Len(fs[i])
                                    /\ sy[i] \in Nat /\ sy[i] <= Len(fs[i])
<1>1. fs \in Seq(File) /\ sy \in Seq(Nat) /\ DOMAIN sy = DOMAIN fs
  BY DEF Disk
<1>2. /\ Len(fs) \in Nat /\ DOMAIN fs = 1..Len(fs)
      /\ Len(sy) \in Nat /\ DOMAIN sy = 1..Len(sy)
  BY <1>1, LenProperties
<1>3. Len(sy) = Len(fs)
  BY <1>1, <1>2
<1>4. \A i \in 1..Len(fs) : fs[i] \in File /\ sy[i] \in Nat /\ sy[i] <= Len(fs[i])
  BY <1>1, <1>2, <1>3, ElementOfSeq DEF Disk
<1>5. \A f \in File : Len(f) \in Nat /\ DOMAIN f = 1..Len(f)
  BY LenProperties DEF File
<1> QED
  BY <1>1, <1>2, <1>3, <1>4, <1>5

\* What holds of a disk file by file makes it one.
LEMMA DiskIs ==
    ASSUME NEW fs, NEW sy, NEW n \in Nat, fs \in [1..n -> File], sy \in [1..n -> Nat],
           \A i \in 1..n : sy[i] <= Len(fs[i])
    PROVE  Disk(fs, sy) /\ Len(fs) = n
<1>1. fs \in Seq(File) /\ sy \in Seq(Nat)
  BY SeqDef
<1>2. DOMAIN fs = 1..n /\ DOMAIN sy = 1..n
  OBVIOUS
<1>3. Len(fs) = n
  BY <1>1, <1>2, LenProperties
<1> QED
  BY <1>1, <1>2, <1>3 DEF Disk

\* A new segment.
LEMMA DiskRoll ==
    ASSUME NEW fs, NEW sy, Disk(fs, sy)
    PROVE  /\ Disk(Append(fs, <<>>), Append(sy, 0)) /\ Len(Append(fs, <<>>)) = Len(fs) + 1
           /\ Kept(fs, Append(fs, <<>>), sy)
<1>1. fs \in Seq(File) /\ sy \in Seq(Nat) /\ <<>> \in File /\ Len(<<>>) = 0
  BY EmptySeq DEF Disk, File
<1>2. PICK gs, ty : gs = Append(fs, <<>>) /\ ty = Append(sy, 0)
  OBVIOUS
<1>3. /\ gs \in Seq(File) /\ Len(gs) = Len(fs) + 1 /\ gs[Len(fs) + 1] = <<>>
      /\ \A i \in 1..Len(fs) : gs[i] = fs[i]
  BY <1>1, <1>2, AppendProperties
<1>4. /\ ty \in Seq(Nat) /\ Len(ty) = Len(sy) + 1 /\ ty[Len(sy) + 1] = 0
      /\ \A i \in 1..Len(sy) : ty[i] = sy[i]
  BY <1>1, <1>2, AppendProperties
<1>5. PICK n \in Nat : n = Len(fs) /\ n = Len(sy)
  BY DiskFacts
<1>6. gs \in [1..(n + 1) -> File] /\ ty \in [1..(n + 1) -> Nat] /\ n + 1 \in Nat
  BY <1>3, <1>4, <1>5, LenProperties
<1>7. \A i \in 1..(n + 1) : ty[i] <= Len(gs[i])
  <2> TAKE i \in 1..(n + 1)
  <2>1. CASE i \in 1..n
    <3>1. sy[i] <= Len(fs[i])
      BY <1>5, <2>1, DiskFacts
    <3> QED
      BY <1>3, <1>4, <1>5, <2>1, <3>1
  <2>2. CASE i = n + 1
    BY <1>1, <1>3, <1>4, <1>5, <2>2
  <2> QED
    BY <1>5, <2>1, <2>2
<1>8. Disk(gs, ty) /\ Len(gs) = n + 1
  BY <1>6, <1>7, DiskIs
<1>9. \A i \in 1..n : i \in DOMAIN gs
  BY <1>6
<1>10. Kept(fs, gs, sy)
  <2>1. \A i \in 1..n : sy[i] <= Len(gs[i]) /\ SameUpTo(fs[i], gs[i], sy[i])
    BY <1>3, <1>5, DiskFacts DEF SameUpTo
  <2>2. DOMAIN fs = 1..n
    BY <1>5, DiskFacts
  <2> QED
    BY <1>9, <2>1, <2>2, Zenon DEF Kept
<1> QED
  BY <1>2, <1>5, <1>8, <1>10

\* One more cell, not synced, in file a.
Write(fs, a, c) == [fs EXCEPT ![a] = Append(@, c)]

LEMMA DiskWrite ==
    ASSUME NEW fs, NEW sy, Disk(fs, sy), NEW a \in 1..Len(fs), NEW c \in Cell
    PROVE  /\ Disk(Write(fs, a, c), sy)
           /\ Len(Write(fs, a, c)) = Len(fs)
           /\ Write(fs, a, c)[a] = Append(fs[a], c)
           /\ \A i \in 1..Len(fs) : i # a => Write(fs, a, c)[i] = fs[i]
           /\ Kept(fs, Write(fs, a, c), sy)
<1>1. PICK n \in Nat : n = Len(fs)
  BY DiskFacts
<1>2. PICK gs, f, g : /\ gs = Write(fs, a, c) /\ f = fs[a] /\ g = Append(f, c)
  OBVIOUS
<1>3. /\ fs \in [1..n -> File] /\ sy \in [1..n -> Nat] /\ f \in File /\ DOMAIN fs = 1..n
      /\ \A i \in 1..n : sy[i] <= Len(fs[i]) /\ sy[i] \in Nat
  <2>1. fs \in Seq(File) /\ sy \in Seq(Nat) /\ Len(sy) = n
    BY <1>1, DiskFacts DEF Disk
  <2>2. fs \in [1..n -> File] /\ sy \in [1..n -> Nat]
    BY <1>1, <2>1, LenProperties
  <2> QED
    BY <1>1, <1>2, <2>2, DiskFacts
<1>4. g \in File /\ Len(g) = Len(f) + 1 /\ Len(f) \in Nat /\ \A i \in 1..Len(f) : g[i] = f[i]
  BY <1>2, <1>3, AppendProperties, LenProperties DEF File
<1>5. gs \in [1..n -> File] /\ gs[a] = g /\ \A i \in 1..n : i # a => gs[i] = fs[i]
  BY <1>1, <1>2, <1>3, <1>4 DEF Write
<1>6. \A i \in 1..n : sy[i] <= Len(gs[i]) /\ SameUpTo(fs[i], gs[i], sy[i])
  <2> TAKE i \in 1..n
  <2>1. CASE i = a
    <3>1. sy[i] \in Nat /\ sy[i] <= Len(f) /\ gs[i] = g /\ fs[i] = f
      BY <1>2, <1>3, <1>5, <2>1
    <3>2. \A k \in 1..sy[i] : f[k] = g[k]
      BY <1>4, <3>1
    <3> QED
      BY <1>4, <3>1, <3>2 DEF SameUpTo
  <2>2. CASE i # a
    BY <1>3, <1>5, <2>2 DEF SameUpTo
  <2> QED
    BY <2>1, <2>2
<1>7. Disk(gs, sy) /\ Len(gs) = n
  BY <1>3, <1>5, <1>6, DiskIs
<1>8. Kept(fs, gs, sy)
  <2>1. DOMAIN fs = 1..n /\ DOMAIN gs = 1..n
    BY <1>3, <1>5
  <2> QED
    BY <1>6, <2>1, Zenon DEF Kept
<1> QED
  BY <1>1, <1>2, <1>5, <1>7, <1>8

\* File a is synced.
LEMMA DiskSync ==
    ASSUME NEW fs, NEW sy, Disk(fs, sy), NEW a \in 1..Len(fs)
    PROVE  Disk(fs, [sy EXCEPT ![a] = Len(fs[a])])
<1>1. PICK n \in Nat : n = Len(fs)
  BY DiskFacts
<1>2. /\ fs \in [1..n -> File] /\ sy \in [1..n -> Nat] /\ Len(fs[a]) \in Nat
      /\ \A i \in 1..n : sy[i] <= Len(fs[i]) /\ Len(fs[i]) \in Nat
  <2>1. fs \in Seq(File) /\ sy \in Seq(Nat) /\ Len(sy) = n
    BY <1>1, DiskFacts DEF Disk
  <2>2. fs \in [1..n -> File] /\ sy \in [1..n -> Nat]
    BY <1>1, <2>1, LenProperties
  <2> QED
    BY <1>1, <2>2, DiskFacts
<1>3. PICK ty : ty = [sy EXCEPT ![a] = Len(fs[a])]
  OBVIOUS
<1>4. ty \in [1..n -> Nat] /\ \A i \in 1..n : ty[i] <= Len(fs[i])
  BY <1>1, <1>2, <1>3
<1> QED
  BY <1>2, <1>3, <1>4, DiskIs

\* SyncedRecordsStay, of one step from fs to gs.
Stays(fs, sy, gs) ==
    \A i \in DOMAIN fs :
        /\ i \in DOMAIN gs
        /\ \A j \in 1..ValidLen(fs[i]) : j <= sy[i] => j \in DOMAIN gs[i] /\ gs[i][j] = fs[i][j]

LEMMA KeptStays ==
    ASSUME NEW fs, NEW sy, Disk(fs, sy), NEW gs \in Seq(File), Kept(fs, gs, sy)
    PROVE  Stays(fs, sy, gs)
<1> SUFFICES ASSUME NEW i \in DOMAIN fs
             PROVE  /\ i \in DOMAIN gs
                    /\ \A j \in 1..ValidLen(fs[i]) :
                          j <= sy[i] => j \in DOMAIN gs[i] /\ gs[i][j] = fs[i][j]
  BY DEF Stays
<1>1. i \in DOMAIN gs /\ sy[i] <= Len(gs[i]) /\ SameUpTo(fs[i], gs[i], sy[i])
  BY DEF Kept
<1>2. gs[i] \in File /\ Len(gs[i]) \in Nat /\ DOMAIN gs[i] = 1..Len(gs[i])
  <2>1. i \in 1..Len(gs)
    BY <1>1, LenProperties
  <2> QED
    BY <2>1, ElementOfSeq, LenProperties DEF File
<1>3. sy[i] \in Nat /\ fs[i] \in File /\ Len(fs[i]) \in Nat
  BY DiskFacts
<1>4. ValidLen(fs[i]) \in 0..Len(fs[i])
  BY <1>3, ValidLenFacts
<1>5. \A j \in 1..ValidLen(fs[i]) : j <= sy[i] => j \in 1..sy[i] /\ j \in 1..Len(gs[i])
  BY <1>1, <1>2, <1>3, <1>4
<1> QED
  BY <1>1, <1>2, <1>5 DEF SameUpTo

\* Log::open truncates the last file, number n.
TruncateLast(fs, n) == [fs EXCEPT ![n] = Truncated(@)]
SyncedOfLast(sy, n, l) == [sy EXCEPT ![n] = IF @ <= l THEN @ ELSE l]

LEMMA DiskTruncate ==
    ASSUME NEW fs, NEW sy, Disk(fs, sy), NEW n \in Nat \ {0}, Len(fs) = n,
           NEW gs, gs = TruncateLast(fs, n), NEW ty, ty = SyncedOfLast(sy, n, Len(gs[n]))
    PROVE  /\ Disk(gs, ty) /\ Len(gs) = n /\ gs[n] = Truncated(fs[n]) /\ Clean(gs[n])
           /\ \A i \in 1..n : i # n => gs[i] = fs[i] /\ ty[i] = sy[i]
           /\ ty[n] = IF sy[n] <= Len(gs[n]) THEN sy[n] ELSE Len(gs[n])
           /\ Stays(fs, sy, gs)
<1>1. /\ fs \in [1..n -> File] /\ sy \in [1..n -> Nat] /\ n \in 1..n
      /\ \A i \in 1..n : /\ sy[i] <= Len(fs[i]) /\ Len(fs[i]) \in Nat /\ fs[i] \in File
                         /\ DOMAIN fs[i] = 1..Len(fs[i])
  <2>1. fs \in Seq(File) /\ sy \in Seq(Nat) /\ Len(sy) = n
    BY DiskFacts DEF Disk
  <2>2. fs \in [1..n -> File] /\ sy \in [1..n -> Nat]
    BY <2>1, LenProperties
  <2> QED
    BY <2>2, DiskFacts
<1>2. PICK f, g : f = fs[n] /\ g = Truncated(f)
  OBVIOUS
<1>3. f \in File /\ g \in File /\ Clean(g) /\ g = Recover(f)
  BY <1>1, <1>2, TruncatedFacts
<1>4. /\ Len(g) \in Nat /\ DOMAIN g = 1..Len(g) /\ Len(g) = ValidLen(f)
      /\ \A i \in 1..ValidLen(f) : g[i] = f[i]
  BY <1>3, RecoverFacts, LenProperties DEF File
<1>5. gs \in [1..n -> File] /\ gs[n] = g /\ \A i \in 1..n : i # n => gs[i] = fs[i]
  BY <1>1, <1>2, <1>3 DEF TruncateLast
<1>6. /\ ty[n] = IF sy[n] <= Len(g) THEN sy[n] ELSE Len(g)
      /\ \A i \in 1..n : i # n => ty[i] = sy[i]
  BY <1>1, <1>5 DEF SyncedOfLast
<1>7. ty \in [1..n -> Nat]
  BY <1>1, <1>4, <1>5 DEF SyncedOfLast
<1>8. ty[n] <= Len(g) /\ sy[n] \in Nat
  BY <1>1, <1>4, <1>6
<1>9. \A i \in 1..n : ty[i] <= Len(gs[i])
  <2> TAKE i \in 1..n
  <2>1. CASE i = n
    BY <1>5, <1>8, <2>1
  <2>2. CASE i # n
    BY <1>1, <1>5, <1>6, <2>2
  <2> QED
    BY <2>1, <2>2
<1>10. Disk(gs, ty) /\ Len(gs) = n
  BY <1>5, <1>7, <1>9, DiskIs
<1>11. Stays(fs, sy, gs)
  <2>1. ASSUME NEW i \in 1..n
        PROVE  \A j \in 1..ValidLen(fs[i]) : j \in DOMAIN gs[i] /\ gs[i][j] = fs[i][j]
    <3>1. CASE i = n
      BY <1>2, <1>4, <1>5, <3>1
    <3>2. CASE i # n
      <4>1. ValidLen(fs[i]) \in 0..Len(fs[i]) /\ gs[i] = fs[i]
        BY <1>1, <1>5, <3>2, ValidLenFacts
      <4> QED
        BY <1>1, <4>1
    <3> QED
      BY <3>1, <3>2
  <2>2. DOMAIN fs = 1..n /\ DOMAIN gs = 1..n
    BY <1>1, <1>5
  <2> QED
    BY <2>1, <2>2, Zenon DEF Stays
<1> QED
  BY <1>2, <1>3, <1>5, <1>6, <1>10, <1>11

\* What a power loss leaves of a file: its first j cells, j at least the
\* number of synced ones, and possibly a torn one.
LEMMA SurvivorFacts ==
    ASSUME NEW f \in File, NEW n \in Nat, n <= Len(f), NEW g \in Survivors(f, n)
    PROVE  /\ g \in File /\ Len(g) \in Nat
           /\ \E j \in n..Len(f) :
                 /\ j <= Len(g) /\ SameUpTo(f, g, j)
                 /\ \/ Len(g) = j
                    \/ Len(g) = j + 1 /\ j < Len(f) /\ g[j + 1] = Torn
<1>1. Len(f) \in Nat /\ f \in Seq(Cell) /\ Torn \in Cell
  BY LenProperties DEF File, Cell
<1>2. PICK j \in n..Len(f) : g = SubSeq(f, 1, j) \/ (g = Append(SubSeq(f, 1, j), Torn) /\ j < Len(f))
  <2>1. \A j \in n..(Len(f) - 1) : j \in n..Len(f) /\ j < Len(f)
    BY <1>1
  <2>2. \/ \E j \in n..Len(f) : g = SubSeq(f, 1, j)
        \/ \E j \in n..(Len(f) - 1) : g = Append(SubSeq(f, 1, j), Torn)
    BY Zenon DEF Survivors
  <2> QED
    BY <2>1, <2>2, Zenon
<1>3. j \in 0..Len(f) /\ j \in Nat
  BY <1>1
<1>4. PICK s : s = SubSeq(f, 1, j)
  OBVIOUS
<1>5. s \in Seq(Cell) /\ Len(s) = j /\ \A i \in 1..j : s[i] = f[i]
  BY <1>1, <1>3, <1>4, PrefixFacts
<1>6. CASE g = s
  <2>1. SameUpTo(f, g, j) /\ j <= Len(g)
    BY <1>3, <1>5, <1>6 DEF SameUpTo
  <2> QED
    BY <1>3, <1>5, <1>6, <2>1 DEF File
<1>7. CASE g = Append(s, Torn) /\ j < Len(f)
  <2>1. g \in Seq(Cell) /\ Len(g) = j + 1 /\ g[j + 1] = Torn /\ \A i \in 1..j : g[i] = f[i]
    BY <1>1, <1>5, <1>7, AppendProperties
  <2>2. SameUpTo(f, g, j) /\ j <= Len(g) /\ Len(g) \in Nat
    BY <1>3, <2>1 DEF SameUpTo
  <2> QED
    BY <1>3, <1>7, <2>1, <2>2 DEF File
<1> QED
  BY <1>2, <1>4, <1>6, <1>7

\* A power loss keeps the synced cells of every file.
Survive(fs, sy, left) ==
    /\ left = [i \in DOMAIN fs |-> left[i]]
    /\ \A i \in DOMAIN fs : left[i] \in Survivors(fs[i], sy[i])

LEMMA DiskPowerLoss ==
    ASSUME NEW fs, NEW sy, Disk(fs, sy), NEW left, Survive(fs, sy, left)
    PROVE  /\ Disk(left, [i \in DOMAIN left |-> Len(left[i])]) /\ Len(left) = Len(fs)
           /\ Kept(fs, left, sy)
<1>1. PICK n \in Nat : n = Len(fs) /\ DOMAIN fs = 1..n
  BY DiskFacts
<1>0. /\ DOMAIN left = DOMAIN fs /\ left = [i \in DOMAIN fs |-> left[i]]
      /\ \A i \in DOMAIN fs : left[i] \in Survivors(fs[i], sy[i])
  BY DEF Survive
<1>2. ASSUME NEW i \in 1..n
      PROVE  /\ left[i] \in File /\ Len(left[i]) \in Nat /\ sy[i] <= Len(left[i])
             /\ SameUpTo(fs[i], left[i], sy[i])
  <2>1. PICK f, g, k : f = fs[i] /\ g = left[i] /\ k = sy[i]
    OBVIOUS
  <2>2. f \in File /\ k \in Nat /\ k <= Len(f) /\ g \in Survivors(f, k) /\ Len(f) \in Nat
    BY <1>0, <1>1, <2>1, DiskFacts
  <2>3. g \in File /\ Len(g) \in Nat
    BY <2>2, SurvivorFacts
  <2>4. PICK j \in k..Len(f) : j <= Len(g) /\ SameUpTo(f, g, j)
    BY <2>2, SurvivorFacts
  <2>5. k <= Len(g) /\ \A x \in 1..k : x \in 1..j
    BY <2>2, <2>3, <2>4
  <2>6. SameUpTo(f, g, k)
    BY <2>4, <2>5 DEF SameUpTo
  <2> QED
    BY <2>1, <2>3, <2>5, <2>6
<1>3. left \in [1..n -> File]
  BY <1>0, <1>1, <1>2
<1>4. PICK ty : ty = [i \in DOMAIN left |-> Len(left[i])]
  OBVIOUS
<1>5. ty \in [1..n -> Nat] /\ \A i \in 1..n : ty[i] <= Len(left[i])
  BY <1>0, <1>1, <1>2, <1>4
<1>6. Disk(left, ty) /\ Len(left) = n
  BY <1>3, <1>5, DiskIs
<1>7. Kept(fs, left, sy)
  BY <1>0, <1>1, <1>2, Zenon DEF Kept
<1> QED
  BY <1>1, <1>4, <1>6, <1>7

-----------------------------------------------------------------------------
(* What that does to a replay, when the last file has no torn bytes.       *)

\* A new segment changes nothing.
LEMMA ReplayRoll ==
    ASSUME NEW fs \in Seq(File)
    PROVE  Replay(Append(fs, <<>>)) = Replay(fs)
<1>1. <<>> \in File /\ Clean(<<>>)
  BY EmptySeq DEF File, Clean
<1>2. Recover(<<>>) = <<>>
  BY <1>1, RecoverClean
<1>3. Replay(fs) \in Seq(Record)
  BY ReplayType
<1> QED
  BY <1>1, <1>2, <1>3, ReplayAppend, ConcatEmptySeq

\* Recovery of a file with one more cell.
LEMMA RecoverWrite ==
    ASSUME NEW f \in File, Clean(f), NEW c \in Cell
    PROVE  /\ c = Torn => Recover(Append(f, c)) = f
           /\ c # Torn => Clean(Append(f, c)) /\ Recover(Append(f, c)) = Append(f, c)
<1>1. /\ Len(f) \in Nat /\ Len(f) \in 0..Len(f) /\ DOMAIN f = 1..Len(f)
      /\ \A i \in 1..Len(f) : f[i] # Torn
  BY LenProperties DEF File, Clean
<1>2. PICK g : g = Append(f, c)
  OBVIOUS
<1>3. /\ g \in File /\ Len(g) = Len(f) + 1 /\ g[Len(f) + 1] = c
      /\ \A i \in 1..Len(f) : g[i] = f[i]
  BY <1>2, AppendProperties DEF File
<1>4. CASE c = Torn
  <2>1. SameUpTo(f, g, Len(f)) /\ Len(f) <= Len(g) /\ g[Len(f) + 1] = Torn
    BY <1>1, <1>3, <1>4 DEF SameUpTo
  <2>2. Recover(g) = SubSeq(f, 1, Len(f))
    BY <1>1, <1>3, <2>1, RecoverIs
  <2> QED
    BY <1>2, <1>4, <2>2, WholePrefix DEF File
<1>5. CASE c # Torn
  <2>1. DOMAIN g = 1..(Len(f) + 1)
    BY <1>3, LenProperties DEF File
  <2>2. Clean(g)
    BY <1>1, <1>3, <1>5, <2>1 DEF Clean
  <2> QED
    BY <1>2, <1>3, <1>5, <2>2, RecoverClean
<1> QED
  BY <1>4, <1>5

\* A record written to the last file is the last one of the replay; a torn
\* one is not replayed.
LEMMA ReplayWrite ==
    ASSUME NEW fs, NEW sy, Disk(fs, sy), NEW n \in Nat \ {0}, Len(fs) = n, Clean(fs[n]),
           NEW c \in Cell, NEW gs, gs = Write(fs, n, c)
    PROVE  /\ c = Torn => Replay(gs) = Replay(fs)
           /\ c # Torn => Replay(gs) = Append(Replay(fs), c)
<1>1. fs \in Seq(File) /\ gs \in Seq(File) /\ Len(gs) = n /\ n \in 1..Len(fs)
  <2>1. n \in 1..Len(fs) /\ fs \in Seq(File)
    BY DEF Disk
  <2>2. Disk(gs, sy) /\ Len(gs) = Len(fs)
    BY <2>1, DiskWrite
  <2> QED
    BY <2>1, <2>2 DEF Disk
<1>2. /\ gs[n] = Append(fs[n], c) /\ fs[n] \in File
      /\ \A i \in 1..n : i # n => gs[i] = fs[i]
  <2>1. fs[n] \in File
    BY <1>1, DiskFacts
  <2> QED
    BY <1>1, <2>1, DiskWrite
<1>3. SameUpTo(fs, gs, n - 1)
  <2>1. \A i \in 1..(n - 1) : i \in 1..n /\ i # n
    OBVIOUS
  <2> QED
    BY <1>2, <2>1 DEF SameUpTo
<1>4. PICK a \in Seq(Record) : Replay(fs) = a \o Recover(fs[n]) /\ Replay(gs) = a \o Recover(gs[n])
  BY <1>1, <1>3, ReplayLast
<1>5. PICK f : f = fs[n]
  OBVIOUS
<1>6. f \in File /\ Recover(f) = f /\ f \in Seq(Record) /\ Clean(f)
  BY <1>2, <1>5, RecoverClean, RecoverFacts
<1>7. CASE c = Torn
  BY <1>2, <1>4, <1>5, <1>6, <1>7, RecoverWrite
<1>8. CASE c # Torn
  <2>1. c \in Record
    BY <1>8 DEF Cell
  <2>2. Replay(gs) = a \o Append(f, c)
    BY <1>2, <1>4, <1>5, <1>6, <1>8, RecoverWrite
  <2>3. <<c>> \in Seq(Record)
    BY <2>1
  <2>4. a \o Append(f, c) = (a \o f) \o <<c>>
    BY <1>6, <2>1, <2>3, AppendIsConcat, ConcatAssociative
  <2>5. a \o f \in Seq(Record)
    BY <1>6, ConcatProperties
  <2>6. (a \o f) \o <<c>> = Append(a \o f, c)
    BY <2>1, <2>5, AppendIsConcat
  <2> QED
    BY <1>4, <1>5, <1>6, <1>8, <2>2, <2>4, <2>6
<1> QED
  BY <1>7, <1>8

\* Nor does truncating the last file change it.
LEMMA ReplayTruncate ==
    ASSUME NEW fs, NEW sy, Disk(fs, sy), NEW n \in Nat \ {0}, Len(fs) = n,
           NEW gs, gs = TruncateLast(fs, n)
    PROVE  Replay(gs) = Replay(fs)
<1>1. PICK ty : ty = SyncedOfLast(sy, n, Len(gs[n]))
  OBVIOUS
<1>2. /\ Disk(gs, ty) /\ Len(gs) = n /\ gs[n] = Truncated(fs[n])
      /\ \A i \in 1..n : i # n => gs[i] = fs[i]
  BY <1>1, DiskTruncate
<1>3. fs \in Seq(File) /\ gs \in Seq(File) /\ fs[n] \in File
  BY <1>2, DiskFacts DEF Disk
<1>4. SameUpTo(fs, gs, n - 1)
  <2>1. \A i \in 1..(n - 1) : i \in 1..n /\ i # n
    OBVIOUS
  <2> QED
    BY <1>2, <2>1 DEF SameUpTo
<1>5. PICK a \in Seq(Record) : Replay(fs) = a \o Recover(fs[n]) /\ Replay(gs) = a \o Recover(gs[n])
  BY <1>2, <1>3, <1>4, ReplayLast
<1> QED
  BY <1>2, <1>3, <1>5, TruncatedFacts

\* Of f, g has the first k cells, and then it ends or is torn.
CutAt(f, g, k) == SameUpTo(f, g, k) /\ k <= Len(g) /\ (k < Len(g) => g[k + 1] = Torn)

\* A power loss that leaves all files but the last alone keeps of the replay
\* all but what was not synced.
LEMMA ReplayPowerLoss ==
    ASSUME NEW fs \in Seq(File), NEW gs \in Seq(File), NEW n \in Nat \ {0}, Len(fs) = n,
           Len(gs) = n, SameUpTo(fs, gs, n - 1), Clean(fs[n]),
           NEW k \in 0..Len(fs[n]), CutAt(fs[n], gs[n], k)
    PROVE  /\ Len(Replay(fs)) - (Len(fs[n]) - k) \in 0..Len(Replay(fs))
           /\ Replay(gs) = SubSeq(Replay(fs), 1, Len(Replay(fs)) - (Len(fs[n]) - k))
<1>1. PICK a \in Seq(Record) : Replay(fs) = a \o Recover(fs[n]) /\ Replay(gs) = a \o Recover(gs[n])
  BY ReplayLast
<1>2. PICK f, g, r : f = fs[n] /\ g = gs[n] /\ r = Replay(fs)
  OBVIOUS
<1>3. f \in File /\ g \in File /\ Clean(f) /\ Len(f) \in Nat /\ DOMAIN f = 1..Len(f)
  BY <1>2, ElementOfSeq, LenProperties DEF File
<1>4. Recover(f) = f /\ f \in Seq(Record)
  BY <1>3, RecoverClean, RecoverFacts
<1>5. \A i \in 1..k : f[i] # Torn
  BY <1>2, <1>3 DEF Clean
<1>6. Recover(g) = SubSeq(f, 1, k)
  <2>1. SameUpTo(f, g, k) /\ k <= Len(g) /\ (k < Len(g) => g[k + 1] = Torn) /\ k \in 0..Len(f)
    BY <1>2 DEF CutAt
  <2> QED
    BY <1>3, <1>5, <2>1, RecoverIs
<1>7. r = a \o f /\ Replay(gs) = a \o SubSeq(f, 1, k)
  BY <1>1, <1>2, <1>4, <1>6
<1>8. k \in 0..Len(f)
  BY <1>2
<1>9. SubSeq(a \o f, 1, Len(a) + k) = a \o SubSeq(f, 1, k)
  BY <1>4, <1>8, PrefixOfConcat
<1>10. Len(r) = Len(a) + Len(f) /\ Len(a) \in Nat
  BY <1>4, <1>7, ConcatProperties, LenProperties
<1>11. Len(r) - (Len(f) - k) = Len(a) + k /\ Len(a) + k \in 0..Len(r)
  BY <1>3, <1>8, <1>10
<1> QED
  BY <1>2, <1>7, <1>9, <1>11

-----------------------------------------------------------------------------
(* Every step keeps the types and the synced records.                      *)

\* What of TypeOK is not about the files.
Rest ==
    /\ mode \in {"closed", "ready", "writing", "corrupt"}
    /\ active \in Nat /\ (mode \in {"ready", "writing"} => active \in DOMAIN files)
    /\ len \in Nat /\ next_seq \in Nat
    /\ batch \in Seq(Record) /\ written \in 0..Len(batch)
    /\ crashes \in Seq({"kill", "power"}) /\ faults \in 0..MaxFaults
    /\ acked \in Seq(Record)

LEMMA TypeIs == TypeOK <=> Disk(files, synced) /\ Rest
BY DEF TypeOK, Disk, Rest, File, Cell

\* The records of a batch.
LEMMA NumberedFacts ==
    ASSUME next_seq \in Nat, NEW ops \in Batches
    PROVE  /\ Len(ops) \in Nat
           /\ Numbered(ops) \in Seq(Record) /\ Len(Numbered(ops)) = Len(ops)
           /\ \A i \in DOMAIN Numbered(ops) : Numbered(ops)[i].seq = next_seq + i - 1
<1>1. PICK n \in 0..MaxBatch : ops \in [1..n -> Op]
  BY DEF Batches
<1>2. n \in Nat
  BY BoundsAssumption
<1>3. ops \in Seq(Op) /\ Len(ops) = n /\ DOMAIN ops = 1..n
  <2>1. ops \in Seq(Op)
    BY <1>1, <1>2, SeqDef
  <2> QED
    BY <1>1, <1>2, <2>1, LenProperties
<1>4. PICK b : b = [i \in 1..n |-> [seq |-> next_seq + i - 1, op |-> ops[i]]]
  OBVIOUS
<1>5. b = Numbered(ops)
  BY <1>3, <1>4 DEF Numbered
<1>6. \A i \in 1..n : next_seq + i - 1 \in Nat /\ ops[i] \in Op
  BY <1>1, <1>2
<1>7. \A i \in 1..n : b[i] \in Record /\ b[i].seq = next_seq + i - 1
  BY <1>4, <1>6 DEF Record
<1>8. b \in [1..n -> Record]
  BY <1>4, <1>7
<1>9. b \in Seq(Record)
  BY <1>2, <1>8, SeqDef
<1>10. Len(b) = n /\ DOMAIN b = 1..n
  BY <1>2, <1>8, <1>9, LenProperties
<1> QED
  BY <1>2, <1>3, <1>5, <1>7, <1>9, <1>10

LEMMA OpenType ==
    ASSUME TypeOK, OpenLog
    PROVE  TypeOK' /\ Stays(files, synced, files')
<1>1. Disk(files, synced) /\ Rest
  BY TypeIs
<1>2. Replay(files) \in Seq(Record)
  BY <1>1, ReplayType DEF Disk
<1>3. NextSeq(Replay(files)) \in Nat
  BY <1>2, NextSeqFacts
<1>4. PICK fs, sy : fs = files' /\ sy = synced'
  OBVIOUS
<1>5. Disk(fs, sy) /\ Len(fs) \in Nat \ {0} /\ Stays(files, synced, fs)
  <2>1. CASE files = <<>>
    <3>1. fs = << <<>> >> /\ sy = <<0>>
      BY <1>4, <2>1 DEF OpenLog
    <3>2. <<>> \in File /\ Len(<<>>) = 0
      BY EmptySeq DEF File
    <3>3. 1 \in Nat /\ fs \in [1..1 -> File] /\ sy \in [1..1 -> Nat] /\ \A i \in 1..1 : sy[i] <= Len(fs[i])
      BY <3>1, <3>2
    <3>4. Disk(fs, sy) /\ Len(fs) = 1
      BY <3>3, DiskIs
    <3>5. Stays(files, synced, fs)
      BY <2>1 DEF Stays
    <3> QED
      BY <3>4, <3>5
  <2>2. CASE files # <<>>
    <3>1. PICK n \in Nat \ {0} : n = Len(files)
      BY <1>1, <2>2, EmptySeq DEF Disk
    <3>2. fs = TruncateLast(files, n) /\ sy = SyncedOfLast(synced, n, Len(fs[n]))
      BY <1>4, <2>2, <3>1 DEF OpenLog, TruncateLast, SyncedOfLast
    <3> QED
      BY <1>1, <3>1, <3>2, DiskTruncate
  <2> QED
    BY <2>1, <2>2
<1>6. /\ active' = Len(fs) /\ len' = Len(fs[Len(fs)]) /\ next_seq' \in Nat /\ mode' = "ready"
      /\ acked' \in Seq(Record) /\ UNCHANGED <<batch, written, crashes, faults>>
  BY <1>2, <1>3, <1>4 DEF OpenLog
<1>7. Len(fs) \in Nat /\ Len(fs) \in DOMAIN fs /\ Len(fs[Len(fs)]) \in Nat
  BY <1>5, DiskFacts
<1>8. Rest'
  BY <1>1, <1>4, <1>6, <1>7 DEF Rest
<1>9. TypeOK'
  <2>1. Disk(files, synced)'
    BY <1>4, <1>5
  <2>2. (Disk(files, synced) /\ Rest => TypeOK)'
    BY TypeIs, PTL
  <2> QED
    BY <1>8, <2>1, <2>2
<1> QED
  BY <1>4, <1>5, <1>9

\* The steps that leave the synced marks alone and write at most one cell.
LEMMA WriteType ==
    ASSUME TypeOK, OpenFails \/ WriteRecord \/ WriteFault \/ SyncFault \/ Kill
    PROVE  TypeOK' /\ Stays(files, synced, files')
<1>1. Disk(files, synced) /\ Rest /\ Len(files) \in Nat /\ DOMAIN files = 1..Len(files)
  BY TypeIs, DiskFacts
<1>2. PICK fs : fs = files'
  OBVIOUS
<1>3. \/ fs = files
      \/ active \in DOMAIN files /\ \E c \in Cell : fs = Write(files, active, c)
  <2>1. CASE OpenFails \/ SyncFault
    BY <1>2, <2>1 DEF OpenFails, SyncFault, disk
  <2>2. CASE WriteRecord
    <3>1. active \in DOMAIN files /\ written + 1 \in 1..Len(batch)
      BY <1>1, <2>2, LenProperties DEF WriteRecord, Rest
    <3>2. batch[written + 1] \in Cell
      BY <1>1, <3>1, ElementOfSeq DEF Rest, Cell
    <3> QED
      BY <1>2, <2>2, <3>1, <3>2 DEF WriteRecord, Write
  <2>3. CASE WriteFault
    <3>1. active \in DOMAIN files /\ Torn \in Cell
      BY <1>1, <2>3 DEF WriteFault, Rest, Cell
    <3> QED
      BY <1>2, <2>3, <3>1 DEF WriteFault, Write
  <2>4. CASE Kill
    <3>1. active \in DOMAIN files /\ Torn \in Cell
      BY <1>1, <2>4 DEF Kill, Stop, Rest, Cell
    <3> QED
      BY <1>2, <2>4, <3>1 DEF Kill, AfterKill, Write
  <2> QED
    BY <2>1, <2>2, <2>3, <2>4
<1>4. Disk(fs, synced) /\ Stays(files, synced, fs) /\ Len(fs) = Len(files)
  <2>1. CASE fs = files
    <3>1. Kept(files, fs, synced)
      BY <1>1, <2>1, DiskFacts DEF Kept, SameUpTo
    <3> QED
      BY <1>1, <2>1, <3>1, KeptStays DEF Disk
  <2>2. CASE active \in DOMAIN files /\ \E c \in Cell : fs = Write(files, active, c)
    <3>1. PICK c \in Cell : fs = Write(files, active, c)
      BY <2>2
    <3>2. active \in 1..Len(files)
      BY <1>1, <2>2
    <3>3. Disk(fs, synced) /\ Len(fs) = Len(files) /\ Kept(files, fs, synced)
      BY <1>1, <3>1, <3>2, DiskWrite
    <3> QED
      BY <1>1, <3>3, KeptStays DEF Disk
  <2> QED
    BY <1>3, <2>1, <2>2
<1>5. synced' = synced /\ DOMAIN fs = DOMAIN files
  <2>1. DOMAIN fs = DOMAIN files
    BY <1>1, <1>4, DiskFacts
  <2> QED
    BY <2>1 DEF OpenFails, WriteRecord, WriteFault, SyncFault, Kill, disk
<1>6. Rest'
  <2>1. CASE OpenFails
    BY <1>1, <1>2, <1>5, <2>1 DEF OpenFails, memory, Rest
  <2>2. CASE WriteRecord
    <3>1. written + 1 \in 0..Len(batch)
      BY <1>1, <2>2, LenProperties DEF WriteRecord, Rest
    <3> QED
      BY <1>1, <1>2, <1>5, <2>2, <3>1 DEF WriteRecord, memory, Rest
  <2>3. CASE WriteFault \/ SyncFault
    <3>1. faults' \in 0..MaxFaults
      BY <1>1, <2>3, BoundsAssumption DEF WriteFault, SyncFault, Fault, Rest
    <3>2. /\ mode \in {"ready", "writing"} /\ mode' = "ready"
          /\ UNCHANGED <<active, len, next_seq, batch, written, crashes, acked>>
      BY <2>3 DEF WriteFault, SyncFault, memory
    <3> QED
      BY <1>1, <1>2, <1>5, <3>1, <3>2 DEF Rest
  <2>4. CASE Kill
    <3>1. crashes' \in Seq({"kill", "power"})
      BY <1>1, <2>4, AppendProperties DEF Kill, Stop, Rest
    <3> QED
      BY <1>1, <2>4, <3>1 DEF Kill, Stop, Rest
  <2> QED
    BY <2>1, <2>2, <2>3, <2>4
<1>7. TypeOK'
  <2>1. Disk(files, synced)'
    BY <1>2, <1>4, <1>5
  <2>2. (Disk(files, synced) /\ Rest => TypeOK)'
    BY TypeIs, PTL
  <2> QED
    BY <1>6, <2>1, <2>2
<1> QED
  BY <1>2, <1>4, <1>7

\* The steps that may create a segment.
LEMMA RollType ==
    ASSUME TypeOK, NEW ops \in Batches, StartAppend(ops) \/ RollOverFault(ops)
    PROVE  TypeOK' /\ Stays(files, synced, files')
<1>1. Disk(files, synced) /\ Rest /\ Len(files) \in Nat /\ DOMAIN files = 1..Len(files)
  BY TypeIs, DiskFacts
<1>2. PICK fs, sy : fs = files' /\ sy = synced'
  OBVIOUS
<1>3. \/ fs = files /\ sy = synced /\ (StartAppend(ops) => UNCHANGED <<active, len>>)
      \/ /\ fs = Append(files, <<>>) /\ sy = Append(synced, 0)
         /\ StartAppend(ops) => active' = Len(fs) /\ len' = 0
  BY <1>2 DEF StartAppend, RollOverFault, disk, memory
<1>4. /\ Disk(fs, sy) /\ Stays(files, synced, fs)
      /\ Len(fs) = Len(files) \/ (Len(fs) = Len(files) + 1 /\ fs = Append(files, <<>>))
  <2>1. CASE fs = files /\ sy = synced
    <3>1. Kept(files, fs, synced)
      BY <1>1, <2>1, DiskFacts DEF Kept, SameUpTo
    <3> QED
      BY <1>1, <2>1, <3>1, KeptStays DEF Disk
  <2>2. CASE fs = Append(files, <<>>) /\ sy = Append(synced, 0)
    <3>1. Disk(fs, sy) /\ Len(fs) = Len(files) + 1 /\ Kept(files, fs, synced)
      BY <1>1, <2>2, DiskRoll
    <3> QED
      BY <1>1, <2>2, <3>1, KeptStays DEF Disk
  <2> QED
    BY <1>3, <2>1, <2>2
<1>5. DOMAIN fs = 1..Len(fs) /\ Len(fs) \in Nat
  BY <1>4, DiskFacts
<1>6. active \in DOMAIN files /\ DOMAIN files \subseteq DOMAIN fs /\ active \in Nat /\ len \in Nat
  <2>1. mode \in {"ready", "writing"}
    BY DEF StartAppend, RollOverFault
  <2>2. active \in DOMAIN files /\ active \in Nat /\ len \in Nat
    BY <1>1, <2>1 DEF Rest
  <2>3. \A i \in 1..Len(files) : i \in 1..Len(fs)
    <3>1. PICK m, n : m = Len(files) /\ n = Len(fs)
      OBVIOUS
    <3>2. m \in Nat /\ n \in Nat /\ (n = m \/ n = m + 1)
      BY <1>1, <1>4, <1>5, <3>1, Zenon
    <3>3. \A i \in 1..m : i \in 1..n
      BY <3>2
    <3> QED
      BY <3>1, <3>3
  <2> QED
    BY <1>1, <1>5, <2>2, <2>3
<1>7. Rest'
  <2>1. CASE StartAppend(ops)
    <3>1. batch' \in Seq(Record) /\ Len(batch') \in Nat /\ written' \in 0..Len(batch')
      BY <1>1, <2>1, NumberedFacts DEF StartAppend, Rest
    <3>2. active' \in DOMAIN fs /\ active' \in Nat /\ len' \in Nat
      <4>1. CASE UNCHANGED <<active, len>>
        BY <1>6, <4>1
      <4>2. CASE active' = Len(fs) /\ len' = 0 /\ fs = Append(files, <<>>)
        BY <1>1, <1>2, <1>4, <1>5, <4>2
      <4> QED
        BY <1>3, <2>1, <4>1, <4>2
    <3>3. mode' = "writing" /\ UNCHANGED <<next_seq, crashes, faults, acked>>
      BY <2>1 DEF StartAppend
    <3> QED
      BY <1>1, <1>2, <3>1, <3>2, <3>3 DEF Rest
  <2>2. CASE RollOverFault(ops)
    <3>1. faults' \in 0..MaxFaults
      BY <1>1, <2>2, BoundsAssumption DEF RollOverFault, Fault, Rest
    <3>2. UNCHANGED <<mode, active, len, next_seq, batch, written, crashes, acked>>
      BY <2>2 DEF RollOverFault, memory
    <3> QED
      BY <1>1, <1>2, <1>6, <3>1, <3>2 DEF Rest
  <2> QED
    BY <2>1, <2>2
<1>8. TypeOK'
  <2>1. Disk(files, synced)'
    BY <1>2, <1>4
  <2>2. (Disk(files, synced) /\ Rest => TypeOK)'
    BY TypeIs, PTL
  <2> QED
    BY <1>7, <2>1, <2>2
<1> QED
  BY <1>2, <1>4, <1>8

LEMMA SyncType ==
    ASSUME TypeOK, Sync
    PROVE  TypeOK' /\ Stays(files, synced, files')
<1>1. Disk(files, synced) /\ Rest /\ Len(files) \in Nat /\ DOMAIN files = 1..Len(files)
  BY TypeIs, DiskFacts
<1>2. /\ active \in 1..Len(files) /\ Len(batch) \in Nat /\ files' = files
      /\ synced' = [synced EXCEPT ![active] = Len(files[active])]
  BY <1>1, LenProperties DEF Sync, Rest
<1>3. Disk(files', synced')
  BY <1>1, <1>2, DiskSync
<1>4. Stays(files, synced, files')
  <2>1. Kept(files, files, synced)
    BY <1>1, DiskFacts DEF Kept, SameUpTo
  <2> QED
    BY <1>1, <1>2, <2>1, KeptStays DEF Disk
<1>5. Rest'
  <2>1. acked' \in Seq(Record)
    BY <1>1, ConcatProperties DEF Sync, Rest
  <2>2. len' \in Nat /\ next_seq' \in Nat
    BY <1>1, <1>2 DEF Sync, Rest
  <2>3. mode' = "ready" /\ UNCHANGED <<files, active, batch, written, crashes, faults>>
    BY DEF Sync
  <2> QED
    BY <1>1, <1>2, <2>1, <2>2, <2>3 DEF Rest
<1>6. TypeOK'
  <2>1. Disk(files, synced)'
    BY <1>3
  <2>2. (Disk(files, synced) /\ Rest => TypeOK)'
    BY TypeIs, PTL
  <2> QED
    BY <1>5, <2>1, <2>2
<1> QED
  BY <1>4, <1>6

\* What a kill can leave is a disk, with every cell still there.
LEMMA AfterKillFacts ==
    ASSUME TypeOK, mode \in {"ready", "writing"}, NEW fs \in AfterKill
    PROVE  /\ active \in 1..Len(files) /\ Torn \in Cell
           /\ \/ fs = files
              \/ mode = "writing" /\ written < Len(batch) /\ fs = Write(files, active, Torn)
           /\ Disk(fs, synced) /\ Len(fs) = Len(files) /\ Kept(files, fs, synced)
           /\ \A i \in 1..Len(files) : i # active => fs[i] = files[i]
<1>1. Disk(files, synced) /\ Rest /\ DOMAIN files = 1..Len(files)
  BY TypeIs, DiskFacts
<1>2. active \in 1..Len(files) /\ Torn \in Cell
  BY <1>1 DEF Rest, Cell
<1>3. \/ fs = files
      \/ mode = "writing" /\ written < Len(batch) /\ fs = Write(files, active, Torn)
  BY DEF AfterKill, Write
<1>4. CASE fs = files
  <2>1. Kept(files, files, synced)
    BY <1>1, DiskFacts DEF Kept, SameUpTo
  <2> QED
    BY <1>1, <1>2, <1>4, <2>1
<1>5. CASE /\ fs # files /\ mode = "writing" /\ written < Len(batch)
           /\ fs = Write(files, active, Torn)
  BY <1>1, <1>2, <1>5, DiskWrite
<1> QED
  BY <1>3, <1>4, <1>5

LEMMA PowerType ==
    ASSUME TypeOK, PowerLoss
    PROVE  TypeOK' /\ Stays(files, synced, files')
<1>1. Disk(files, synced) /\ Rest /\ Len(files) \in Nat /\ DOMAIN files = 1..Len(files)
  BY TypeIs, DiskFacts
<1>2. mode \in {"ready", "writing"}
  BY DEF PowerLoss, Stop
<1>3. PICK fs \in AfterKill :
         \E left \in [DOMAIN fs -> UNION {Survivors(fs[i], synced[i]) : i \in DOMAIN fs}] :
             /\ \A i \in DOMAIN fs : left[i] \in Survivors(fs[i], synced[i])
             /\ files' = left
             /\ synced' = [i \in DOMAIN left |-> Len(left[i])]
  BY DEF PowerLoss
<1>4. PICK left \in [DOMAIN fs -> UNION {Survivors(fs[i], synced[i]) : i \in DOMAIN fs}] :
             /\ \A i \in DOMAIN fs : left[i] \in Survivors(fs[i], synced[i])
             /\ files' = left
             /\ synced' = [i \in DOMAIN left |-> Len(left[i])]
  BY <1>3
<1>5. Disk(fs, synced) /\ Len(fs) = Len(files) /\ Kept(files, fs, synced)
  BY <1>2, AfterKillFacts
<1>6. Survive(fs, synced, left)
  BY <1>4 DEF Survive
<1>7. Disk(left, synced') /\ Len(left) = Len(fs) /\ Kept(fs, left, synced)
  BY <1>4, <1>5, <1>6, DiskPowerLoss
<1>8. Kept(files, left, synced)
  <2>1. \A i \in DOMAIN files : /\ i \in DOMAIN fs /\ i \in DOMAIN left /\ synced[i] <= Len(left[i])
                                /\ SameUpTo(files[i], fs[i], synced[i])
                                /\ SameUpTo(fs[i], left[i], synced[i])
    BY <1>5, <1>7 DEF Kept
  <2> QED
    BY <2>1 DEF Kept, SameUpTo
<1>9. Stays(files, synced, left)
  BY <1>1, <1>7, <1>8, KeptStays DEF Disk
<1>10. Rest'
  <2>1. crashes' \in Seq({"kill", "power"})
    BY <1>1, AppendProperties DEF PowerLoss, Stop, Rest
  <2> QED
    BY <1>1, <2>1 DEF PowerLoss, Stop, Rest
<1>11. TypeOK'
  <2>1. Disk(files, synced)'
    BY <1>4, <1>7
  <2>2. (Disk(files, synced) /\ Rest => TypeOK)'
    BY TypeIs, PTL
  <2> QED
    BY <1>10, <2>1, <2>2
<1> QED
  BY <1>4, <1>9, <1>11

\* Together.
LEMMA TypeStep ==
    ASSUME TypeOK, Next
    PROVE  TypeOK' /\ Stays(files, synced, files')
BY OpenType, WriteType, RollType, SyncType, PowerType DEF Next

LEMMA TypeStutters ==
    ASSUME TypeOK, UNCHANGED vars
    PROVE  TypeOK'
BY DEF TypeOK, vars

\* Every state of the log has its types (Log, log.rs).
THEOREM LogTypeCorrect == Spec => []TypeOK
<1>1. Init => TypeOK
  <2>1. <<>> \in Seq(Seq(Record \cup {Torn})) /\ <<>> \in Seq(Nat) /\ <<>> \in Seq(Record)
    BY EmptySeq
  <2>2. Len(<<>>) = 0 /\ 0 \in 0..MaxFaults /\ <<>> \in Seq({"kill", "power"})
    BY BoundsAssumption
  <2> QED
    BY <2>1, <2>2 DEF Init, TypeOK
<1>2. TypeOK /\ [Next]_vars => TypeOK'
  BY TypeStep, TypeStutters
<1> QED
  BY <1>1, <1>2, PTL DEF Spec

\* No step, crash or I/O error included, takes away a synced record that
\* recovery has been able to reach (segment.rs open_for_append).
THEOREM SyncedStay == Spec => SyncedRecordsStay
<1>1. TypeOK /\ [Next]_vars => [Stays(files, synced, files')]_vars
  BY TypeStep
<1>2. [Stays(files, synced, files')]_vars =>
      [\A i \in DOMAIN files :
          /\ i \in DOMAIN files'
          /\ \A j \in 1..ValidLen(files[i]) : j <= synced[i] =>
                /\ j \in DOMAIN files'[i]
                /\ files'[i][j] = files[i][j]]_vars
  BY DEF Stays
<1> QED
  BY <1>1, <1>2, LogTypeCorrect, PTL DEF Spec, SyncedRecordsStay

-----------------------------------------------------------------------------
(* While it is calm.                                                       *)

Contiguous(rs) == \A i \in DOMAIN rs : rs[i].seq = i - 1

\* A step that leaves it calm started calm, and was no I/O error.
LEMMA CalmBefore ==
    ASSUME TypeOK, Next, Calm'
    PROVE  Calm /\ ~WriteFault /\ ~SyncFault /\ \A ops \in Batches : ~RollOverFault(ops)
<1>1. faults \in Nat /\ crashes \in Seq({"kill", "power"})
  BY BoundsAssumption DEF TypeOK
<1>2. faults' = 0 /\ \A i, j \in DOMAIN crashes' : crashes'[i] = crashes'[j]
  BY DEF Calm
<1>3. faults' = faults
  BY <1>1, <1>2 DEF Next, OpenLog, OpenFails, StartAppend, RollOverFault, WriteRecord, Sync,
        WriteFault, SyncFault, Fault, Kill, PowerLoss, Stop
<1>4. ~Fault
  BY <1>1, <1>3 DEF Fault
<1>5. \/ crashes' = crashes \/ crashes' = Append(crashes, "kill")
      \/ crashes' = Append(crashes, "power")
  BY <1>4 DEF Next, OpenLog, OpenFails, StartAppend, RollOverFault, WriteRecord, Sync,
        WriteFault, SyncFault, Kill, PowerLoss, Stop
<1>6. \A i, j \in DOMAIN crashes : crashes[i] = crashes[j]
  <2>1. CASE crashes' = crashes
    BY <1>2, <2>1
  <2>2. ASSUME NEW k \in {"kill", "power"}, crashes' = Append(crashes, k)
        PROVE  \A i, j \in DOMAIN crashes : crashes[i] = crashes[j]
    <3>1. PICK h : h = crashes'
      OBVIOUS
    <3>2. /\ h \in Seq({"kill", "power"}) /\ Len(h) = Len(crashes) + 1
          /\ \A i \in 1..Len(crashes) : h[i] = crashes[i]
      BY <1>1, <2>2, <3>1, AppendProperties
    <3>3. Len(crashes) \in Nat /\ DOMAIN crashes = 1..Len(crashes) /\ DOMAIN h = 1..(Len(crashes) + 1)
      BY <1>1, <3>2, LenProperties
    <3>4. \A i \in DOMAIN crashes : i \in DOMAIN h /\ h[i] = crashes[i]
      BY <3>2, <3>3
    <3> QED
      BY <1>2, <3>1, <3>4
  <2> QED
    BY <1>5, <2>1, <2>2
<1> QED
  BY <1>2, <1>3, <1>4, <1>6 DEF Calm, WriteFault, SyncFault, RollOverFault

\* What the invariant says of an open log.
LEMMA CalmFacts ==
    ASSUME TypeOK, Calm, CalmInv
    PROVE  /\ Replay(files) \in Seq(Record) /\ Contiguous(Replay(files))
           /\ \A i \in 1..Len(files) : i < Len(files) => Clean(files[i])
           /\ mode \in {"ready", "writing"} =>
                 /\ Len(files) \in Nat \ {0} /\ active = Len(files) /\ Clean(files[Len(files)])
                 /\ next_seq = Len(acked)
<1>1. Disk(files, synced) /\ Rest /\ Len(files) \in Nat /\ DOMAIN files = 1..Len(files)
  BY TypeIs, DiskFacts
<1>2. Replay(files) \in Seq(Record)
  BY <1>1, ReplayType DEF Disk
<1>3. Contiguous(Replay(files))
  BY DEF CalmInv, SeqsAreContiguous, Contiguous
<1>4. \A i \in 1..Len(files) : i < Len(files) => Clean(files[i])
  BY <1>1 DEF CalmInv, OnlyLastIsTorn
<1>5. ASSUME mode \in {"ready", "writing"}
      PROVE  /\ Len(files) \in Nat \ {0} /\ active = Len(files) /\ Clean(files[Len(files)])
             /\ next_seq = Len(acked)
  <2>1. active = Len(files) /\ Clean(files[active]) /\ next_seq = Len(acked)
    BY <1>5 DEF CalmInv, OnlyLastIsTorn, ReplayIsAcked
  <2>2. active \in 1..Len(files)
    BY <1>1, <1>5 DEF Rest
  <2> QED
    BY <1>1, <2>1, <2>2
<1> QED
  BY <1>2, <1>3, <1>4, <1>5

\* Log::open changes nothing of what is replayed.
LEMMA OpenCalm ==
    ASSUME TypeOK, Calm, CalmInv, OpenLog
    PROVE  CalmInv' /\ Replay(files') = Replay(files)
<1>1. Disk(files, synced) /\ Rest /\ Len(files) \in Nat /\ DOMAIN files = 1..Len(files)
  BY TypeIs, DiskFacts
<1>2. PICK fs, sy, r : fs = files' /\ sy = synced' /\ r = Replay(files)
  OBVIOUS
<1>3. r \in Seq(Record) /\ Contiguous(r)
  BY <1>2, CalmFacts
<1>4. NextSeq(r) = Len(r)
  BY <1>3, NextSeqFacts DEF Contiguous
<1>5. /\ mode = "closed" /\ mode' = "ready" /\ active' = Len(fs) /\ next_seq' = Len(r)
      /\ acked' = r /\ crashes' = crashes
  BY <1>2, <1>4 DEF OpenLog
<1>6. /\ Replay(fs) = r /\ Disk(fs, sy) /\ Len(fs) \in Nat \ {0} /\ DOMAIN fs = 1..Len(fs)
      /\ Clean(fs[Len(fs)])
      /\ \A i \in 1..Len(fs) : i < Len(fs) => Clean(fs[i])
      /\ (\A n \in DOMAIN crashes : crashes[n] = "power") => \A i \in 1..Len(fs) : sy[i] = Len(fs[i])
  <2>1. CASE files = <<>>
    <3>1. fs = << <<>> >> /\ sy = <<0>>
      BY <1>2, <2>1 DEF OpenLog
    <3>2. <<>> \in File /\ Len(<<>>) = 0 /\ Clean(<<>>)
      BY EmptySeq DEF File, Clean
    <3>3. 1 \in Nat /\ fs \in [1..1 -> File] /\ sy \in [1..1 -> Nat] /\ \A i \in 1..1 : sy[i] <= Len(fs[i])
      BY <3>1, <3>2
    <3>4. Disk(fs, sy) /\ Len(fs) = 1
      BY <3>3, DiskIs
    <3>5. Replay(fs) = r
      <4>1. fs = Append(<<>>, <<>>)
        BY <3>1
      <4>2. <<>> \in Seq(File)
        BY EmptySeq
      <4> QED
        BY <1>2, <2>1, <4>1, <4>2, ReplayRoll
    <3>6. \A i \in 1..1 : i = 1 /\ fs[i] = <<>> /\ sy[i] = 0
      BY <3>1
    <3> QED
      BY <3>2, <3>4, <3>5, <3>6, DiskFacts
  <2>2. CASE files # <<>>
    <3>1. PICK n \in Nat \ {0} : n = Len(files)
      BY <1>1, <2>2, EmptySeq DEF Disk
    <3>2. fs = TruncateLast(files, n) /\ sy = SyncedOfLast(synced, n, Len(fs[n]))
      BY <1>2, <2>2, <3>1 DEF OpenLog, TruncateLast, SyncedOfLast
    <3>3. /\ Disk(fs, sy) /\ Len(fs) = n /\ Clean(fs[n]) /\ fs[n] = Truncated(files[n])
          /\ \A i \in 1..n : i # n => fs[i] = files[i] /\ sy[i] = synced[i]
          /\ sy[n] = IF synced[n] <= Len(fs[n]) THEN synced[n] ELSE Len(fs[n])
      <4>1. PICK old, oldsy : old = files /\ oldsy = synced
        OBVIOUS
      <4>2. Disk(old, oldsy) /\ Len(old) = n
        BY <1>1, <3>1, <4>1
      <4>3. fs = TruncateLast(old, n) /\ sy = SyncedOfLast(oldsy, n, Len(fs[n]))
        BY <3>2, <4>1
      <4>4. /\ Disk(fs, sy) /\ Len(fs) = n /\ Clean(fs[n]) /\ fs[n] = Truncated(old[n])
            /\ \A i \in 1..n : i # n => fs[i] = old[i] /\ sy[i] = oldsy[i]
            /\ sy[n] = IF oldsy[n] <= Len(fs[n]) THEN oldsy[n] ELSE Len(fs[n])
        BY <4>2, <4>3, DiskTruncate
      <4> QED
        BY <4>1, <4>4
    <3>4. Replay(fs) = r
      BY <1>1, <1>2, <3>1, <3>2, ReplayTruncate
    <3>5. \A i \in 1..n : i < n => Clean(fs[i])
      BY <3>1, <3>3, CalmFacts
    <3>6. ASSUME \A k \in DOMAIN crashes : crashes[k] = "power"
          PROVE  \A i \in 1..n : sy[i] = Len(fs[i])
      <4>1. \A i \in DOMAIN files : synced[i] + 0 = Len(files[i])
        BY <1>5, <3>6 DEF CalmInv, OthersAreSynced
      <4>2. \A i \in 1..n : synced[i] \in Nat /\ synced[i] = Len(files[i])
        BY <1>1, <3>1, <4>1, DiskFacts
      <4>3. Len(fs[n]) \in Nat /\ Len(files[n]) \in Nat /\ Len(fs[n]) <= Len(files[n])
        <5>1. files[n] \in File /\ Len(files[n]) \in Nat
          BY <1>1, <3>1, DiskFacts
        <5>2. ValidLen(files[n]) \in 0..Len(files[n]) /\ Len(Recover(files[n])) = ValidLen(files[n])
          BY <5>1, ValidLenFacts, RecoverFacts
        <5>3. fs[n] = Recover(files[n])
          BY <3>3, <5>1, TruncatedFacts
        <5> QED
          BY <5>1, <5>2, <5>3
      <4>4. sy[n] = Len(fs[n])
        <5>1. synced[n] = Len(files[n])
          BY <4>2
        <5> QED
          BY <3>3, <4>3, <5>1
      <4> QED
        BY <3>3, <4>2, <4>4
    <3>7. DOMAIN fs = 1..n
      BY <3>3, DiskFacts
    <3> QED
      BY <3>3, <3>4, <3>5, <3>6, <3>7, Zenon
  <2> QED
    BY <2>1, <2>2
<1>7. OnlyLastIsTorn'
  BY <1>2, <1>5, <1>6 DEF OnlyLastIsTorn
<1>8. OthersAreSynced'
  <2>1. \A i \in 1..Len(fs) : sy[i] \in Nat
    BY <1>6, DiskFacts
  <2> QED
    BY <1>2, <1>5, <1>6, <2>1 DEF OthersAreSynced
<1>9. ReplayIsAcked'
  BY <1>2, <1>5, <1>6 DEF ReplayIsAcked
<1>10. SeqsAreContiguous'
  BY <1>2, <1>3, <1>6 DEF SeqsAreContiguous, Contiguous
<1> QED
  BY <1>2, <1>6, <1>7, <1>8, <1>9, <1>10 DEF CalmInv

\* What is replayed of an open log.
LEMMA AckedFacts ==
    ASSUME TypeOK, Calm, CalmInv, mode \in {"ready", "writing"}
    PROVE  /\ acked \in Seq(Record) /\ Len(acked) \in Nat
           /\ Unacknowledged \in Nat /\ Len(Replay(files)) = Len(acked) + Unacknowledged
           /\ SubSeq(Replay(files), 1, Len(acked)) = acked
           /\ mode = "writing" => SubSeq(batch, 1, written) \in Seq(Record)
<1>1. acked \in Seq(Record) /\ batch \in Seq(Record) /\ written \in 0..Len(batch) /\ Len(batch) \in Nat
  BY LenProperties DEF TypeOK
<1>2. Len(acked) \in Nat
  BY <1>1, LenProperties
<1>3. CASE mode = "ready"
  <2>1. Replay(files) = acked /\ Unacknowledged = 0
    BY <1>3 DEF CalmInv, ReplayIsAcked, Unacknowledged
  <2> QED
    BY <1>1, <1>2, <1>3, <2>1, WholePrefix
<1>4. CASE mode = "writing"
  <2>1. Replay(files) = acked \o SubSeq(batch, 1, written) /\ Unacknowledged = written
    BY <1>4 DEF CalmInv, ReplayIsAcked, Unacknowledged
  <2>2. PICK t : t = SubSeq(batch, 1, written)
    OBVIOUS
  <2>3. t \in Seq(Record) /\ Len(t) = written /\ written \in Nat
    BY <1>1, <2>2, PrefixFacts
  <2>4. Len(acked \o t) = Len(acked) + written
    BY <1>1, <2>3, ConcatProperties
  <2>5. SubSeq(acked \o t, 1, Len(acked) + 0) = acked \o SubSeq(t, 1, 0)
    <3>1. 0 \in 0..Len(t)
      BY <2>3
    <3> QED
      BY <1>1, <2>3, <3>1, PrefixOfConcat
  <2>6. SubSeq(t, 1, 0) = <<>>
    BY SubSeqEmpty
  <2>7. acked \o <<>> = acked /\ Len(acked) + 0 = Len(acked)
    BY <1>1, <1>2, ConcatEmptySeq
  <2> QED
    BY <1>1, <1>2, <2>1, <2>2, <2>3, <2>4, <2>5, <2>6, <2>7
<1> QED
  BY <1>3, <1>4

LEMMA StartCalm ==
    ASSUME TypeOK, Calm, CalmInv, NEW ops \in Batches, StartAppend(ops)
    PROVE  CalmInv' /\ Replay(files') = Replay(files)
<1>1. Disk(files, synced) /\ Rest /\ Len(files) \in Nat /\ DOMAIN files = 1..Len(files)
  BY TypeIs, DiskFacts
<1>2. /\ mode = "ready" /\ mode' = "writing" /\ batch' = Numbered(ops) /\ written' = 0
      /\ UNCHANGED <<next_seq, crashes, acked>>
  BY DEF StartAppend
<1>3. PICK fs, sy, r : fs = files' /\ sy = synced' /\ r = Replay(files)
  OBVIOUS
<1>4. /\ r \in Seq(Record) /\ Contiguous(r) /\ r = acked /\ next_seq = Len(acked)
      /\ \A i \in 1..Len(files) : Clean(files[i])
      /\ active = Len(files) /\ Len(files) \in Nat \ {0}
  <2>1. r = acked
    BY <1>2, <1>3 DEF CalmInv, ReplayIsAcked
  <2>2. \A i \in 1..Len(files) : i < Len(files) \/ i = Len(files)
    <3>1. \A m \in Nat : \A i \in 1..m : i < m \/ i = m
      OBVIOUS
    <3> QED
      BY <1>1, <3>1, Zenon
  <2> QED
    BY <1>2, <1>3, <2>1, <2>2, CalmFacts
<1>5. /\ Replay(fs) = r /\ DOMAIN fs = 1..Len(fs) /\ active' = Len(fs)
      /\ \A i \in 1..Len(fs) : Clean(fs[i]) /\ sy[i] \in Nat
      /\ Len(fs) \in 1..Len(fs)
      /\ (\A n \in DOMAIN crashes : crashes[n] = "power") => \A i \in 1..Len(fs) : sy[i] = Len(fs[i])
  <2>0. ASSUME \A n \in DOMAIN crashes : crashes[n] = "power"
        PROVE  \A i \in 1..Len(files) : synced[i] = Len(files[i])
    <3>1. \A i \in DOMAIN files : synced[i] + 0 = Len(files[i])
      BY <1>2, <2>0 DEF CalmInv, OthersAreSynced
    <3> QED
      BY <1>1, <3>1, DiskFacts
  <2>1. CASE fs = files /\ sy = synced /\ active' = active
    <3>1. \A i \in 1..Len(files) : synced[i] \in Nat
      BY <1>1, DiskFacts
    <3>2. Len(files) \in 1..Len(files)
      BY <1>4
    <3> QED
      BY <1>1, <1>3, <1>4, <2>0, <2>1, <3>1, <3>2, Zenon
  <2>2. CASE fs = Append(files, <<>>) /\ sy = Append(synced, 0) /\ active' = Len(fs)
    <3>1. Disk(fs, sy) /\ Len(fs) = Len(files) + 1
      BY <1>1, <2>2, DiskRoll
    <3>2. Replay(fs) = r
      BY <1>1, <1>3, <2>2, ReplayRoll DEF Disk
    <3>3. <<>> \in File /\ Len(<<>>) = 0 /\ Clean(<<>>)
      BY EmptySeq DEF File, Clean
    <3>4. fs[Len(fs)] = <<>> /\ \A i \in 1..Len(files) : fs[i] = files[i]
      BY <1>1, <2>2, <3>1, <3>3, AppendProperties DEF Disk
    <3>5. sy[Len(fs)] = 0 /\ \A i \in 1..Len(files) : sy[i] = synced[i]
      <4>1. Len(synced) = Len(files) /\ synced \in Seq(Nat)
        BY <1>1, DiskFacts DEF Disk
      <4> QED
        BY <2>2, <3>1, <4>1, AppendProperties
    <3>6. DOMAIN fs = 1..Len(fs) /\ \A i \in 1..Len(fs) : sy[i] \in Nat
      BY <3>1, DiskFacts
    <3>7. Len(fs) \in 1..Len(fs) /\ \A i \in 1..Len(fs) : i \in 1..Len(files) \/ i = Len(fs)
      <4>1. PICK m \in Nat : m = Len(files) /\ Len(fs) = m + 1
        BY <1>1, <3>1
      <4>2. m + 1 \in 1..(m + 1) /\ \A i \in 1..(m + 1) : i \in 1..m \/ i = m + 1
        OBVIOUS
      <4> QED
        BY <4>1, <4>2
    <3>8. \A i \in 1..Len(fs) : Clean(fs[i])
      BY <1>4, <3>3, <3>4, <3>7
    <3>9. ASSUME \A n \in DOMAIN crashes : crashes[n] = "power"
          PROVE  \A i \in 1..Len(fs) : sy[i] = Len(fs[i])
      <4>1. \A i \in 1..Len(files) : synced[i] = Len(files[i])
        BY <2>0, <3>9
      <4> QED
        BY <3>3, <3>4, <3>5, <3>7, <4>1
    <3> QED
      BY <2>2, <3>2, <3>6, <3>7, <3>8, <3>9, Zenon
  <2> QED
    BY <1>3, <2>1, <2>2 DEF StartAppend, disk
<1>6. OnlyLastIsTorn'
  BY <1>2, <1>3, <1>5 DEF OnlyLastIsTorn
<1>7. OthersAreSynced'
  BY <1>2, <1>3, <1>5 DEF OthersAreSynced
<1>8. ReplayIsAcked'
  <2>1. \A i \in DOMAIN batch' : batch'[i].seq = next_seq + i - 1
    BY <1>1, <1>2, NumberedFacts DEF Rest
  <2>2. Replay(files') = acked \o SubSeq(batch', 1, 0)
    <3>1. SubSeq(batch', 1, 0) = <<>>
      BY SubSeqEmpty
    <3> QED
      BY <1>3, <1>4, <1>5, <3>1, ConcatEmptySeq
  <2> QED
    BY <1>2, <1>4, <2>1, <2>2 DEF ReplayIsAcked
<1>9. SeqsAreContiguous'
  BY <1>3, <1>4, <1>5 DEF SeqsAreContiguous, Contiguous
<1> QED
  BY <1>3, <1>5, <1>6, <1>7, <1>8, <1>9 DEF CalmInv

\* The record written is the next one of the batch.
LEMMA WriteCalm ==
    ASSUME TypeOK, Calm, CalmInv, WriteRecord
    PROVE  CalmInv'
<1>1. Disk(files, synced) /\ Rest /\ DOMAIN files = 1..Len(files)
  BY TypeIs, DiskFacts
<1>2. /\ mode = "writing" /\ mode' = "writing" /\ written' = written + 1
      /\ UNCHANGED <<synced, active, next_seq, batch, crashes, acked>>
  BY DEF WriteRecord, memory
<1>3. PICK fs, old, r, n, c : /\ fs = files' /\ old = files /\ r = Replay(old) /\ n = Len(old)
                              /\ c = batch[written + 1]
  OBVIOUS
<1>0. Disk(old, synced)
  BY <1>1, <1>3
<1>4. /\ r \in Seq(Record) /\ Contiguous(r) /\ r = acked \o SubSeq(batch, 1, written)
      /\ next_seq = Len(acked)
      /\ \A i \in DOMAIN batch : batch[i].seq = next_seq + i - 1
      /\ \A i \in 1..n : i < n => Clean(old[i])
      /\ active = n /\ n \in Nat \ {0} /\ Clean(old[n])
  BY <1>2, <1>3, CalmFacts DEF CalmInv, ReplayIsAcked
<1>5. /\ written \in Nat /\ written + 1 \in 1..Len(batch) /\ written + 1 \in Nat /\ Len(batch) \in Nat
      /\ DOMAIN batch = 1..Len(batch) /\ batch \in Seq(Record) /\ acked \in Seq(Record)
      /\ Len(acked) \in Nat
  BY <1>1, LenProperties DEF WriteRecord, Rest
<1>6. c \in Record /\ c \in Cell /\ c # Torn
  BY <1>3, <1>5, ElementOfSeq, TornAssumption DEF Cell
<1>7. fs = Write(old, n, c)
  BY <1>3, <1>4 DEF WriteRecord, Write
<1>8. /\ Len(fs) = n /\ fs[n] = Append(old[n], c) /\ Disk(fs, synced)
      /\ \A i \in 1..n : i # n => fs[i] = old[i]
  <2>1. n \in 1..Len(old)
    BY <1>3, <1>4
  <2> QED
    BY <1>0, <1>3, <1>6, <1>7, <2>1, DiskWrite
<1>9. Replay(fs) = Append(r, c)
  <2>1. n \in Nat \ {0} /\ Len(old) = n /\ Clean(old[n])
    BY <1>3, <1>4
  <2>2. Replay(fs) = Append(Replay(old), c)
    BY <1>0, <1>6, <1>7, <2>1, ReplayWrite
  <2> QED
    BY <1>3, <2>2
<1>10. old[n] \in File /\ Len(old[n]) \in Nat /\ DOMAIN fs = 1..n /\ n \in 1..n
  BY <1>0, <1>3, <1>4, <1>8, DiskFacts
<1>11. Clean(fs[n]) /\ Len(fs[n]) = Len(old[n]) + 1
  BY <1>4, <1>6, <1>8, <1>10, RecoverWrite, AppendProperties DEF File
<1>12. OnlyLastIsTorn'
  <2>1. \A i \in 1..n : i < n => Clean(fs[i])
    BY <1>4, <1>8
  <2> QED
    BY <1>2, <1>3, <1>4, <1>8, <1>10, <1>11, <2>1 DEF OnlyLastIsTorn
<1>13. OthersAreSynced'
  <2>1. SUFFICES ASSUME \A k \in DOMAIN crashes : crashes[k] = "power", NEW i \in 1..n
                 PROVE  synced[i] + (IF i = n THEN written + 1 ELSE 0) = Len(fs[i])
    BY <1>2, <1>3, <1>4, <1>10 DEF OthersAreSynced
  <2>2. synced[i] + (IF i = n THEN written ELSE 0) = Len(old[i])
    BY <1>1, <1>2, <1>3, <1>4, <2>1 DEF CalmInv, OthersAreSynced
  <2>3. synced[i] \in Nat
    BY <1>0, <1>3, DiskFacts
  <2>4. CASE i = n
    BY <1>5, <1>10, <1>11, <2>2, <2>3, <2>4
  <2>5. CASE i # n
    BY <1>8, <2>2, <2>5
  <2> QED
    BY <2>4, <2>5
<1>14. ReplayIsAcked'
  <2>1. SubSeq(batch, 1, written + 1) = SubSeq(batch, 1, written) \o <<c>>
    <3>1. PICK m : m = written + 1
      OBVIOUS
    <3>2. m \in 1..Len(batch) /\ 1 \in 1..Len(batch) /\ m - 1 = written
      BY <1>5, <3>1
    <3>3. SubSeq(batch, 1, m) = SubSeq(batch, 1, m - 1) \o << batch[m] >>
      BY <1>5, <3>2, SubSeqRecursiveSecond
    <3> QED
      BY <1>3, <3>1, <3>2, <3>3
  <2>2. PICK t : t = SubSeq(batch, 1, written)
    OBVIOUS
  <2>3. t \in Seq(Record) /\ <<c>> \in Seq(Record)
    <3>1. written \in 0..Len(batch)
      BY <1>5
    <3> QED
      BY <1>5, <1>6, <2>2, <3>1, PrefixFacts
  <2>4. Append(r, c) = (acked \o t) \o <<c>>
    BY <1>4, <1>6, <2>2, AppendIsConcat
  <2>5. (acked \o t) \o <<c>> = acked \o (t \o <<c>>)
    BY <1>5, <2>3, ConcatAssociative
  <2>6. Replay(fs) = acked \o SubSeq(batch, 1, written + 1)
    BY <1>9, <2>1, <2>2, <2>4, <2>5
  <2> QED
    BY <1>2, <1>3, <1>4, <2>6 DEF ReplayIsAcked
<1>15. SeqsAreContiguous'
  <2>1. Len(r) = next_seq + written
    BY <1>2, <1>3, <1>4, AckedFacts DEF Unacknowledged
  <2>2. PICK l \in Nat : l = Len(r) /\ c.seq = l
    <3>1. c.seq = next_seq + (written + 1) - 1
      BY <1>3, <1>4, <1>5
    <3>2. next_seq \in Nat
      BY <1>4, <1>5
    <3>3. c.seq = next_seq + written /\ next_seq + written \in Nat
      BY <1>5, <3>1, <3>2
    <3> QED
      BY <2>1, <3>3
  <2>3. PICK q : q = Append(r, c)
    OBVIOUS
  <2>4. /\ q \in Seq(Record) /\ Len(q) = l + 1 /\ q[l + 1] = c
        /\ \A i \in 1..l : q[i] = r[i]
    BY <1>4, <1>6, <2>2, <2>3, AppendProperties
  <2>5. DOMAIN q = 1..(l + 1) /\ DOMAIN r = 1..l
    BY <1>4, <2>2, <2>4, LenProperties
  <2>6. \A i \in 1..(l + 1) : q[i].seq = i - 1
    <3> TAKE i \in 1..(l + 1)
    <3>1. CASE i \in 1..l
      BY <1>4, <2>4, <2>5, <3>1 DEF Contiguous
    <3>2. CASE i = l + 1
      BY <2>2, <2>4, <3>2
    <3> QED
      BY <3>1, <3>2
  <2> QED
    BY <1>3, <1>9, <2>3, <2>5, <2>6 DEF SeqsAreContiguous
<1> QED
  BY <1>12, <1>13, <1>14, <1>15 DEF CalmInv

LEMMA SyncCalm ==
    ASSUME TypeOK, Calm, CalmInv, Sync
    PROVE  CalmInv' /\ Replay(files) = acked'
<1>1. Disk(files, synced) /\ Rest /\ DOMAIN files = 1..Len(files)
  BY TypeIs, DiskFacts
<1>2. /\ mode = "writing" /\ mode' = "ready" /\ written = Len(batch) /\ acked' = acked \o batch
      /\ next_seq' = next_seq + Len(batch)
      /\ UNCHANGED <<files, active, batch, crashes>>
      /\ synced' = [synced EXCEPT ![active] = Len(files[active])]
  BY DEF Sync
<1>3. batch \in Seq(Record) /\ acked \in Seq(Record) /\ Len(batch) \in Nat /\ Len(acked) \in Nat
  BY <1>1, LenProperties DEF Rest
<1>4. Replay(files) = acked'
  <2>1. Replay(files) = acked \o SubSeq(batch, 1, Len(batch))
    BY <1>2 DEF CalmInv, ReplayIsAcked
  <2> QED
    BY <1>2, <1>3, <2>1, WholePrefix
<1>5. /\ Contiguous(Replay(files)) /\ next_seq = Len(acked) /\ active = Len(files)
      /\ Len(files) \in 1..Len(files)
  <2>1. Len(files) \in Nat \ {0}
    BY <1>2, CalmFacts
  <2>2. Len(files) \in 1..Len(files)
    BY <2>1
  <2> QED
    BY <1>2, <2>2, CalmFacts
<1>6. OnlyLastIsTorn'
  BY <1>2 DEF CalmInv, OnlyLastIsTorn
<1>7. OthersAreSynced'
  <2>1. SUFFICES ASSUME \A k \in DOMAIN crashes : crashes[k] = "power", NEW i \in DOMAIN files
                 PROVE  synced'[i] + 0 = Len(files[i])
    BY <1>2 DEF OthersAreSynced
  <2>2. synced[i] + (IF i = active THEN written ELSE 0) = Len(files[i])
    BY <1>2, <2>1 DEF CalmInv, OthersAreSynced
  <2>3. /\ synced[i] \in Nat /\ Len(files[i]) \in Nat /\ i \in DOMAIN synced
        /\ synced'[i] = IF i = active THEN Len(files[i]) ELSE synced[i]
    BY <1>1, <1>2, DiskFacts
  <2>4. CASE i = active
    BY <2>3, <2>4
  <2>5. CASE i # active
    BY <2>2, <2>3, <2>5
  <2> QED
    BY <2>4, <2>5
<1>8. ReplayIsAcked'
  <2>1. Len(acked') = Len(acked) + Len(batch)
    BY <1>2, <1>3, ConcatProperties
  <2>2. next_seq' = Len(acked')
    BY <1>2, <1>5, <2>1
  <2> QED
    BY <1>2, <1>4, <2>2 DEF ReplayIsAcked
<1>9. SeqsAreContiguous'
  BY <1>2, <1>5 DEF SeqsAreContiguous, Contiguous
<1> QED
  BY <1>4, <1>6, <1>7, <1>8, <1>9 DEF CalmInv

\* No crash changes a file that is not the last one, and a kill changes
\* nothing of what is replayed.
LEMMA AfterKillCalm ==
    ASSUME TypeOK, Calm, CalmInv, mode \in {"ready", "writing"}, NEW fs \in AfterKill
    PROVE  /\ Replay(fs) = Replay(files) /\ Len(fs) = Len(files)
           /\ \A i \in 1..Len(fs) : i < Len(fs) => fs[i] = files[i] /\ Clean(fs[i])
<1>1. PICK old, sy, n, a : old = files /\ sy = synced /\ n = Len(files) /\ a = active
  OBVIOUS
<1>2. Disk(old, sy) /\ n \in Nat \ {0} /\ Len(old) = n /\ Clean(old[n]) /\ a = n
  <2>1. Disk(files, synced)
    BY TypeIs
  <2> QED
    BY <1>1, <2>1, CalmFacts
<1>3. \A i \in 1..n : i < n => Clean(old[i])
  BY <1>1, CalmFacts
<1>4. /\ Torn \in Cell /\ Len(fs) = n /\ \A i \in 1..n : i # a => fs[i] = old[i]
      /\ fs = old \/ fs = Write(old, a, Torn)
  BY <1>1, AfterKillFacts
<1>5. Replay(fs) = Replay(old)
  <2>1. CASE fs = Write(old, a, Torn)
    BY <1>2, <1>4, <2>1, ReplayWrite
  <2> QED
    BY <1>4, <2>1
<1>6. \A i \in 1..n : i < n => i # a
  BY <1>2
<1> QED
  BY <1>1, <1>3, <1>4, <1>5, <1>6, Zenon

LEMMA KillCalm ==
    ASSUME TypeOK, Calm, CalmInv, Kill
    PROVE  CalmInv' /\ Replay(files') = Replay(files)
<1>1. PICK fs \in AfterKill : fs = files'
  BY DEF Kill
<1>2. mode \in {"ready", "writing"} /\ mode' = "closed" /\ acked' = acked
  BY DEF Kill, Stop
<1>3. /\ Replay(fs) = Replay(files) /\ Len(fs) = Len(files)
      /\ \A i \in 1..Len(fs) : i < Len(fs) => Clean(fs[i])
  BY <1>2, AfterKillCalm
<1>4. DOMAIN fs = 1..Len(fs)
  <2>1. Disk(fs, synced)
    BY <1>2, AfterKillFacts
  <2> QED
    BY <2>1, DiskFacts
<1>5. OnlyLastIsTorn'
  BY <1>1, <1>2, <1>3, <1>4 DEF OnlyLastIsTorn
<1>6. OthersAreSynced'
  <2>1. crashes \in Seq({"kill", "power"})
    BY DEF TypeOK
  <2>2. PICK h, l : h = crashes' /\ l = Len(crashes) + 1
    OBVIOUS
  <2>3. h \in Seq({"kill", "power"}) /\ Len(h) = l /\ h[l] = "kill"
    BY <2>1, <2>2, AppendProperties DEF Kill, Stop
  <2>4. l \in DOMAIN h
    BY <2>1, <2>2, <2>3, LenProperties
  <2> QED
    BY <2>2, <2>3, <2>4 DEF OthersAreSynced
<1>7. ReplayIsAcked'
  <2>1. acked \in Seq(Record) /\ Len(acked) <= Len(Replay(files))
    BY <1>2, AckedFacts
  <2>2. SubSeq(acked, 1, Len(acked)) = SubSeq(Replay(files), 1, Len(acked))
    BY <1>2, <2>1, AckedFacts, WholePrefix
  <2>3. IsPrefix(acked, Replay(files'))
    BY <1>1, <1>3, <2>1, <2>2 DEF IsPrefix
  <2> QED
    BY <1>2, <2>3 DEF ReplayIsAcked
<1>8. SeqsAreContiguous'
  <2>1. Contiguous(Replay(files))
    BY CalmFacts
  <2> QED
    BY <1>1, <1>3, <2>1 DEF SeqsAreContiguous, Contiguous
<1> QED
  BY <1>1, <1>3, <1>5, <1>6, <1>7, <1>8 DEF CalmInv

\* What a power loss leaves of a file without torn bytes, also when a write
\* was cut short.
LEMMA SurvivorOfClean ==
    ASSUME NEW f \in File, NEW s \in Nat, s <= Len(f), NEW h, h = f \/ h = Append(f, Torn),
           NEW g \in Survivors(h, s)
    PROVE  \E k \in s..Len(f) : CutAt(f, g, k)
<1>1. Len(f) \in Nat
  BY LenProperties DEF File
<1>2. CASE h = f
  <2>1. Len(g) \in Nat
    BY <1>2, SurvivorFacts
  <2>2. PICK j \in s..Len(f) : /\ j <= Len(g) /\ SameUpTo(f, g, j)
                               /\ \/ Len(g) = j
                                  \/ Len(g) = j + 1 /\ j < Len(f) /\ g[j + 1] = Torn
    BY <1>2, SurvivorFacts
  <2>3. j < Len(g) => g[j + 1] = Torn
    BY <2>1, <2>2
  <2> QED
    BY <2>2, <2>3 DEF CutAt
<1>3. CASE h = Append(f, Torn)
  <2>1. /\ h \in File /\ Len(h) = Len(f) + 1 /\ h[Len(f) + 1] = Torn
        /\ \A i \in 1..Len(f) : h[i] = f[i]
    <3>1. f \in Seq(Cell) /\ Torn \in Cell
      BY DEF File, Cell
    <3> QED
      BY <1>3, <3>1, AppendProperties DEF File
  <2>2. s <= Len(h)
    BY <1>1, <2>1
  <2>3. Len(g) \in Nat
    BY <2>1, <2>2, SurvivorFacts
  <2>4. PICK j \in s..Len(h) : /\ j <= Len(g) /\ SameUpTo(h, g, j)
                               /\ \/ Len(g) = j
                                  \/ Len(g) = j + 1 /\ j < Len(h) /\ g[j + 1] = Torn
    BY <2>1, <2>2, SurvivorFacts
  <2>5. PICK m \in Nat : m = Len(f) /\ Len(h) = m + 1
    BY <1>1, <2>1
  <2>6. CASE j <= m
    <3>1. j \in s..m /\ \A i \in 1..j : i \in 1..m
      BY <2>4, <2>5, <2>6
    <3>2. SameUpTo(f, g, j)
      BY <2>1, <2>4, <2>5, <3>1 DEF SameUpTo
    <3>3. j < Len(g) => g[j + 1] = Torn
      BY <2>3, <2>4
    <3> QED
      BY <2>4, <2>5, <3>1, <3>2, <3>3 DEF CutAt
  <2>7. CASE j > m
    <3>1. j = m + 1 /\ m \in s..m /\ \A i \in 1..m : i \in 1..j
      BY <2>4, <2>5, <2>7
    <3>2. SameUpTo(f, g, m)
      BY <2>1, <2>4, <2>5, <3>1 DEF SameUpTo
    <3>3. m + 1 \in 1..j
      BY <2>5, <3>1
    <3>4. g[m + 1] = Torn
      BY <2>1, <2>4, <2>5, <3>3 DEF SameUpTo
    <3>5. m <= Len(g)
      BY <2>3, <2>4, <3>1
    <3> QED
      BY <2>5, <3>1, <3>2, <3>4, <3>5 DEF CutAt
  <2>8. j <= m \/ j > m
    BY <2>4, <2>5
  <2> QED
    BY <2>6, <2>7, <2>8
<1> QED
  BY <1>2, <1>3

\* And of a file that is synced: the file.
LEMMA SyncedSurvives ==
    ASSUME NEW f \in File, NEW g \in Survivors(f, Len(f))
    PROVE  g = f
<1>1. Len(f) \in Nat /\ Len(f) <= Len(f)
  BY LenProperties DEF File
<1>2. PICK j \in Len(f)..Len(f) : /\ j <= Len(g) /\ SameUpTo(f, g, j)
                                  /\ \/ Len(g) = j
                                     \/ Len(g) = j + 1 /\ j < Len(f) /\ g[j + 1] = Torn
  BY <1>1, SurvivorFacts
<1>3. g \in File
  BY <1>1, SurvivorFacts
<1>4. j = Len(f) /\ Len(g) = Len(f)
  BY <1>1, <1>2
<1>5. \A i \in 1..Len(f) : f[i] = g[i]
  BY <1>2, <1>4 DEF SameUpTo
<1> QED
  BY <1>3, <1>4, <1>5, SeqEqual DEF File

\* A power loss keeps what was reported and some of what was being written.
LEMMA PowerCalm ==
    ASSUME TypeOK, Calm, CalmInv, Calm', PowerLoss
    PROVE  /\ CalmInv'
           /\ \E l \in Len(acked)..Len(Replay(files)) : Replay(files') = SubSeq(Replay(files), 1, l)
<1>1. PICK old, sy, n : old = files /\ sy = synced /\ n = Len(files)
  OBVIOUS
<1>2. mode \in {"ready", "writing"} /\ mode' = "closed" /\ acked' = acked
  BY DEF PowerLoss, Stop
<1>3. /\ Disk(old, sy) /\ n \in Nat \ {0} /\ Len(old) = n /\ Clean(old[n]) /\ active = n
      /\ DOMAIN old = 1..n
  <2>1. Disk(files, synced)
    BY TypeIs
  <2> QED
    BY <1>1, <1>2, <2>1, CalmFacts, DiskFacts
<1>4. \A k \in DOMAIN crashes : crashes[k] = "power"
  <2>1. crashes \in Seq({"kill", "power"})
    BY DEF TypeOK
  <2>2. PICK h, l : h = crashes' /\ l = Len(crashes) + 1
    OBVIOUS
  <2>3. /\ h \in Seq({"kill", "power"}) /\ Len(h) = l /\ h[l] = "power"
        /\ \A i \in 1..Len(crashes) : h[i] = crashes[i]
    BY <2>1, <2>2, AppendProperties DEF PowerLoss, Stop
  <2>4. l \in DOMAIN h /\ \A k \in DOMAIN crashes : k \in DOMAIN h /\ k \in 1..Len(crashes)
    BY <2>1, <2>2, <2>3, LenProperties
  <2>5. \A i, j \in DOMAIN h : h[i] = h[j]
    BY <2>2 DEF Calm
  <2> QED
    BY <2>3, <2>4, <2>5
<1>5. \A i \in 1..n : sy[i] + (IF i = n THEN Unacknowledged ELSE 0) = Len(old[i])
  <2>1. \A i \in DOMAIN files :
           synced[i] + (IF mode = "writing" /\ i = active THEN written ELSE 0) = Len(files[i])
    BY <1>4 DEF CalmInv, OthersAreSynced
  <2> QED
    BY <1>1, <1>3, <2>1 DEF Unacknowledged
<1>6. PICK fs \in AfterKill :
         \E left \in [DOMAIN fs -> UNION {Survivors(fs[i], synced[i]) : i \in DOMAIN fs}] :
             /\ \A i \in DOMAIN fs : left[i] \in Survivors(fs[i], synced[i])
             /\ files' = left
             /\ synced' = [i \in DOMAIN left |-> Len(left[i])]
  BY DEF PowerLoss
<1>7. PICK left \in [DOMAIN fs -> UNION {Survivors(fs[i], synced[i]) : i \in DOMAIN fs}] :
             /\ \A i \in DOMAIN fs : left[i] \in Survivors(fs[i], synced[i])
             /\ files' = left
             /\ synced' = [i \in DOMAIN left |-> Len(left[i])]
  BY <1>6
<1>8. Survive(fs, sy, left) /\ \A i \in DOMAIN fs : left[i] \in Survivors(fs[i], sy[i])
  BY <1>1, <1>7 DEF Survive
<1>9. /\ Disk(fs, sy) /\ Len(fs) = n /\ DOMAIN fs = 1..n
      /\ \A i \in 1..n : i < n => fs[i] = old[i] /\ Clean(old[i])
  <2>1. Disk(fs, sy) /\ Len(fs) = n
    BY <1>1, <1>2, AfterKillFacts
  <2>2. DOMAIN fs = 1..n
    BY <2>1, DiskFacts
  <2>3. \A i \in 1..Len(fs) : i < Len(fs) => fs[i] = old[i] /\ Clean(fs[i])
    BY <1>1, <1>2, AfterKillCalm
  <2> QED
    BY <2>1, <2>2, <2>3
<1>10. Disk(left, synced') /\ Len(left) = n /\ DOMAIN left = 1..n
  <2>1. Disk(left, synced') /\ Len(left) = n
    BY <1>7, <1>8, <1>9, DiskPowerLoss
  <2> QED
    BY <2>1, DiskFacts
<1>11. \A i \in 1..n : i < n => left[i] = old[i]
  <2> SUFFICES ASSUME NEW i \in 1..n, i < n PROVE left[i] = old[i]
    OBVIOUS
  <2>1. old[i] \in File /\ sy[i] \in Nat
    BY <1>3, DiskFacts
  <2>2. i # n
    BY <1>3
  <2>3. sy[i] + 0 = Len(old[i])
    BY <1>5, <2>2
  <2>4. sy[i] = Len(old[i])
    BY <2>1, <2>3
  <2>5. left[i] \in Survivors(old[i], Len(old[i]))
    BY <1>8, <1>9, <2>4
  <2> QED
    BY <2>1, <2>5, SyncedSurvives
<1>12. old[n] \in File /\ Len(old[n]) \in Nat /\ sy[n] \in Nat /\ sy[n] <= Len(old[n]) /\ n \in 1..n
  BY <1>3, DiskFacts
<1>13. fs[n] = old[n] \/ fs[n] = Append(old[n], Torn)
  <2>1. Torn \in Cell /\ (fs = old \/ fs = Write(old, n, Torn))
    BY <1>1, <1>2, <1>3, AfterKillFacts
  <2>2. fs = Write(old, n, Torn) => fs[n] = Append(old[n], Torn)
    BY <1>3, <1>12, <2>1, DiskWrite
  <2> QED
    BY <2>1, <2>2
<1>14. PICK k \in sy[n]..Len(old[n]) : CutAt(old[n], left[n], k)
  <2>1. left[n] \in Survivors(fs[n], sy[n])
    BY <1>8, <1>9, <1>12
  <2> QED
    <3>1. PICK f, g, h, m : f = old[n] /\ g = left[n] /\ h = fs[n] /\ m = sy[n]
      OBVIOUS
    <3>2. /\ f \in File /\ m \in Nat /\ m <= Len(f) /\ (h = f \/ h = Append(f, Torn))
          /\ g \in Survivors(h, m)
      BY <1>12, <1>13, <2>1, <3>1
    <3>3. \E k \in m..Len(f) : CutAt(f, g, k)
      BY <3>2, SurvivorOfClean
    <3> QED
      BY <3>1, <3>3
<1>15. PICK r, l : r = Replay(old) /\ l = Len(r) - (Len(old[n]) - k)
  OBVIOUS
<1>16. l \in 0..Len(r) /\ Replay(left) = SubSeq(r, 1, l)
  <2>1. k \in 0..Len(old[n])
    BY <1>12
  <2>2. old \in Seq(File) /\ left \in Seq(File)
    BY <1>3, <1>10 DEF Disk
  <2>3. SameUpTo(old, left, n - 1)
    <3>1. \A i \in 1..(n - 1) : i \in 1..n /\ i < n
      BY <1>3
    <3> QED
      BY <1>11, <3>1 DEF SameUpTo
  <2> QED
    <3>1. n \in Nat \ {0} /\ Len(old) = n /\ Len(left) = n /\ Clean(old[n])
      BY <1>3, <1>10
    <3>2. CutAt(old[n], left[n], k)
      BY <1>14
    <3>3. /\ Len(Replay(old)) - (Len(old[n]) - k) \in 0..Len(Replay(old))
          /\ Replay(left) = SubSeq(Replay(old), 1, Len(Replay(old)) - (Len(old[n]) - k))
      BY <2>1, <2>2, <2>3, <3>1, <3>2, ReplayPowerLoss, Zenon
    <3> QED
      BY <1>15, <3>3
<1>17. /\ r \in Seq(Record) /\ Contiguous(r) /\ acked \in Seq(Record) /\ Len(acked) \in Nat
       /\ Len(r) = Len(acked) + Unacknowledged /\ Unacknowledged \in Nat
       /\ SubSeq(r, 1, Len(acked)) = acked
  BY <1>1, <1>2, <1>15, CalmFacts, AckedFacts
<1>18. l \in Len(acked)..Len(r) /\ Len(r) \in Nat
  <2>1. sy[n] + Unacknowledged = Len(old[n])
    BY <1>5, <1>12
  <2> QED
    BY <1>12, <1>14, <1>15, <1>17, <2>1
<1>19. PICK q : q = SubSeq(r, 1, l)
  OBVIOUS
<1>20. q \in Seq(Record) /\ Len(q) = l /\ \A i \in 1..l : q[i] = r[i]
  BY <1>16, <1>17, <1>19, PrefixFacts
<1>21. OnlyLastIsTorn'
  <2>1. \A i \in 1..n : i < n => Clean(left[i])
    BY <1>9, <1>11
  <2> QED
    BY <1>2, <1>7, <1>10, <2>1 DEF OnlyLastIsTorn
<1>22. OthersAreSynced'
  <2>1. \A i \in 1..n : Len(left[i]) \in Nat /\ synced'[i] = Len(left[i])
    BY <1>7, <1>10, DiskFacts
  <2> QED
    BY <1>2, <1>7, <1>10, <2>1 DEF OthersAreSynced
<1>23. ReplayIsAcked'
  <2>1. SubSeq(q, 1, Len(acked)) = acked
    <3>1. Len(acked) \in 0..l
      BY <1>17, <1>18
    <3> QED
      BY <1>16, <1>17, <1>19, <3>1, PrefixOfPrefix
  <2>2. SubSeq(acked, 1, Len(acked)) = acked
    BY <1>17, WholePrefix
  <2>3. Len(acked) <= Len(q)
    BY <1>17, <1>18, <1>20
  <2>4. IsPrefix(acked, q)
    BY <2>1, <2>2, <2>3 DEF IsPrefix
  <2> QED
    BY <1>2, <1>7, <1>16, <1>19, <2>4 DEF ReplayIsAcked
<1>24. SeqsAreContiguous'
  <2>1. DOMAIN q = 1..l /\ DOMAIN r = 1..Len(r)
    BY <1>17, <1>20, LenProperties
  <2>2. \A i \in 1..l : i \in 1..Len(r)
    BY <1>18
  <2>3. \A i \in DOMAIN q : q[i].seq = i - 1
    BY <1>17, <1>20, <2>1, <2>2 DEF Contiguous
  <2> QED
    BY <1>7, <1>16, <1>19, <2>3 DEF SeqsAreContiguous
<1>25. CalmInv'
  BY <1>21, <1>22, <1>23, <1>24 DEF CalmInv
<1> QED
  BY <1>1, <1>7, <1>15, <1>16, <1>18, <1>25

LEMMA OpenFailsCalm ==
    ASSUME TypeOK, Calm, CalmInv
    PROVE  ~OpenFails
<1>1. Disk(files, synced)
  BY TypeIs
<1>2. ASSUME NEW i \in 1..(Len(files) - 1) PROVE ~HasTornTail(files[i])
  <2>1. i \in 1..Len(files) /\ i < Len(files)
    BY <1>1, DiskFacts
  <2>2. files[i] \in File /\ Clean(files[i]) /\ Len(files[i]) \in Nat
    BY <1>1, <2>1, DiskFacts, CalmFacts
  <2>3. ValidLen(files[i]) = Len(files[i])
    BY <2>2, RecoverClean
  <2> QED
    BY <2>2, <2>3 DEF HasTornTail
<1> QED
  BY <1>2 DEF OpenFails, SealedTorn

LEMMA CalmStep ==
    ASSUME TypeOK, Calm => CalmInv, Next, Calm'
    PROVE  Calm /\ CalmInv /\ CalmInv'
<1>1. Calm /\ CalmInv /\ ~WriteFault /\ ~SyncFault /\ \A ops \in Batches : ~RollOverFault(ops)
  BY CalmBefore
<1>2. CASE OpenLog
  BY <1>1, <1>2, OpenCalm
<1>3. CASE OpenFails
  BY <1>1, <1>3, OpenFailsCalm
<1>4. CASE \E ops \in Batches : StartAppend(ops)
  BY <1>1, <1>4, StartCalm
<1>5. CASE WriteRecord
  BY <1>1, <1>5, WriteCalm
<1>6. CASE Sync
  BY <1>1, <1>6, SyncCalm
<1>7. CASE Kill
  BY <1>1, <1>7, KillCalm
<1>8. CASE PowerLoss
  BY <1>1, <1>8, PowerCalm
<1> QED
  BY <1>1, <1>2, <1>3, <1>4, <1>5, <1>6, <1>7, <1>8 DEF Next

LEMMA CalmStutters ==
    ASSUME UNCHANGED vars
    PROVE  (Calm' <=> Calm) /\ (CalmInv' <=> CalmInv)
<1>1. /\ files' = files /\ synced' = synced /\ mode' = mode /\ active' = active
      /\ next_seq' = next_seq /\ batch' = batch /\ written' = written /\ crashes' = crashes
      /\ faults' = faults /\ acked' = acked
  BY DEF vars
<1>2. Calm' <=> Calm
  BY <1>1 DEF Calm
<1>3. (OnlyLastIsTorn' <=> OnlyLastIsTorn) /\ (OthersAreSynced' <=> OthersAreSynced)
  BY <1>1 DEF OnlyLastIsTorn, OthersAreSynced
<1>4. ReplayIsAcked' <=> ReplayIsAcked
  BY <1>1 DEF ReplayIsAcked
<1>5. SeqsAreContiguous' <=> SeqsAreContiguous
  BY <1>1, <1>2 DEF SeqsAreContiguous
<1> QED
  BY <1>2, <1>3, <1>4, <1>5, Zenon DEF CalmInv

LEMMA InitCalm == Init => CalmInv
<1> SUFFICES ASSUME Init PROVE CalmInv
  OBVIOUS
<1>1. files = <<>> /\ mode = "closed" /\ acked = <<>>
  BY DEF Init
<1>2. Replay(files) = <<>>
  BY <1>1, ReplayEmpty
<1>3. Len(<<>>) = 0
  BY EmptySeq
<1>4. IsPrefix(<<>>, <<>>)
  BY <1>3 DEF IsPrefix
<1>5. OnlyLastIsTorn /\ OthersAreSynced
  BY <1>1 DEF OnlyLastIsTorn, OthersAreSynced
<1>6. ReplayIsAcked
  BY <1>1, <1>2, <1>4 DEF ReplayIsAcked
<1>7. SeqsAreContiguous
  BY <1>2 DEF SeqsAreContiguous
<1> QED
  BY <1>5, <1>6, <1>7 DEF CalmInv

\* The invariant of the log holds in every state: it is preserved by every
\* step, whether or not the step is taken in a calm state (log.rs,
\* segment.rs).
THEOREM LogInvariance == Spec => []LogInv
<1>1. Init => (Calm => CalmInv)
  BY InitCalm
<1>2. TypeOK /\ (Calm => CalmInv) /\ [Next]_vars => (Calm => CalmInv)'
  BY CalmStep, CalmStutters
<1>3. LogInv <=> TypeOK /\ (Calm => CalmInv)
  BY DEF LogInv
<1> QED
  BY <1>1, <1>2, <1>3, LogTypeCorrect, PTL DEF Spec

\* What the invariant says of every state.
LEMMA CalmIsSafe ==
    ASSUME LogInv
    PROVE  AckedSurvive /\ OpenSucceeds /\ SeqsAreContiguous
<1>1. SeqsAreContiguous
  BY DEF LogInv, CalmInv, SeqsAreContiguous
<1>2. OpenSucceeds
  BY DEF LogInv, CalmInv, OnlyLastIsTorn, OpenSucceeds, OpenAlwaysSucceeds
<1>3. AckedSurvive
  <2> SUFFICES ASSUME Calm PROVE IsPrefix(acked, Replay(files))
    BY DEF AckedSurvive, AckedAlwaysSurvive
  <2>1. TypeOK /\ CalmInv
    BY DEF LogInv
  <2>2. CASE mode = "closed"
    BY <2>1, <2>2 DEF CalmInv, ReplayIsAcked
  <2>3. CASE mode \in {"ready", "writing"}
    <3>1. acked \in Seq(Record) /\ Len(acked) <= Len(Replay(files))
      BY <2>1, <2>3, AckedFacts
    <3>2. SubSeq(acked, 1, Len(acked)) = SubSeq(Replay(files), 1, Len(acked))
      BY <2>1, <2>3, <3>1, AckedFacts, WholePrefix
    <3> QED
      BY <3>1, <3>2 DEF IsPrefix
  <2>4. mode \in {"closed", "ready", "writing"}
    BY <2>1 DEF TypeOK, CalmInv, OnlyLastIsTorn
  <2> QED
    BY <2>2, <2>3, <2>4
<1> QED
  BY <1>1, <1>2, <1>3

\* While it is calm, what recovery would return starts with every record
\* that was reported as written (segment.rs append).
THEOREM AckedRecordsSurvive == Spec => []AckedSurvive
BY LogInvariance, CalmIsSafe, PTL

\* While it is calm, Log::open does not refuse a log as corrupted (log.rs).
THEOREM LogOpens == Spec => []OpenSucceeds
BY LogInvariance, CalmIsSafe, PTL

\* While it is calm, the records on disk are numbered without a gap or a
\* repetition (log.rs, next_seq).
THEOREM NumbersAreContiguous == Spec => []SeqsAreContiguous
BY LogInvariance, CalmIsSafe, PTL

-----------------------------------------------------------------------------
(* The log implements DurableLog.                                          *)

Records == SubSeq(Replay(files), 1, Len(Replay(files)) - Unacknowledged)
InFlight == IF mode = "writing" THEN batch ELSE <<>>
Up == mode \in {"ready", "writing"}

\* The records of the DurableLog are the reported ones while the log is
\* open, and what recovery would return when it is not.
LEMMA RecordsAre ==
    ASSUME TypeOK, Calm, CalmInv
    PROVE  /\ mode \in {"ready", "writing"} => Records = acked
           /\ mode = "closed" => Records = Replay(files)
<1>1. CASE mode \in {"ready", "writing"}
  <2>1. /\ Len(acked) \in Nat /\ Unacknowledged \in Nat
        /\ Len(Replay(files)) = Len(acked) + Unacknowledged
        /\ SubSeq(Replay(files), 1, Len(acked)) = acked
    BY <1>1, AckedFacts
  <2>2. Len(Replay(files)) - Unacknowledged = Len(acked)
    BY <2>1
  <2> QED
    BY <1>1, <2>1, <2>2 DEF Records
<1>2. CASE mode = "closed"
  <2>1. Replay(files) \in Seq(Record) /\ Unacknowledged = 0
    BY <1>2, CalmFacts DEF Unacknowledged
  <2>2. Len(Replay(files)) - 0 = Len(Replay(files))
    BY <2>1, LenProperties
  <2> QED
    BY <1>2, <2>1, <2>2, WholePrefix DEF Records
<1> QED
  BY <1>1, <1>2

\* What a crash leaves is what was reported and a prefix of the batch.
LEMMA CrashLeaves ==
    ASSUME TypeOK, Calm, CalmInv, mode \in {"ready", "writing"},
           NEW l \in Len(acked)..Len(Replay(files))
    PROVE  \E m \in 0..Len(InFlight) :
              SubSeq(Replay(files), 1, l) = acked \o SubSeq(InFlight, 1, m)
<1>1. /\ acked \in Seq(Record) /\ Len(acked) \in Nat /\ Unacknowledged \in Nat
      /\ Len(Replay(files)) = Len(acked) + Unacknowledged
      /\ SubSeq(Replay(files), 1, Len(acked)) = acked
  BY AckedFacts
<1>2. CASE mode = "ready"
  <2>1. InFlight = <<>> /\ Unacknowledged = 0
    BY <1>2 DEF InFlight, Unacknowledged
  <2>2. l = Len(acked)
    BY <1>1, <2>1
  <2>3. Len(<<>>) = 0 /\ SubSeq(<<>>, 1, 0) = <<>>
    BY SubSeqEmpty
  <2>4. SubSeq(Replay(files), 1, l) = acked \o SubSeq(InFlight, 1, 0)
    BY <1>1, <2>1, <2>2, <2>3, ConcatEmptySeq
  <2>5. 0 \in 0..Len(InFlight)
    BY <2>1, <2>3
  <2> QED
    BY <2>4, <2>5
<1>3. CASE mode = "writing"
  <2>1. /\ InFlight = batch /\ Unacknowledged = written
        /\ Replay(files) = acked \o SubSeq(batch, 1, written)
    BY <1>3 DEF InFlight, Unacknowledged, CalmInv, ReplayIsAcked
  <2>2. batch \in Seq(Record) /\ written \in 0..Len(batch) /\ Len(batch) \in Nat
    BY LenProperties DEF TypeOK
  <2>3. PICK t, m : t = SubSeq(batch, 1, written) /\ m = l - Len(acked)
    OBVIOUS
  <2>4. t \in Seq(Record) /\ Len(t) = written
    BY <2>2, <2>3, PrefixFacts
  <2>5. m \in 0..written /\ Len(acked) + m = l
    BY <1>1, <2>1, <2>3
  <2>6. SubSeq(acked \o t, 1, Len(acked) + m) = acked \o SubSeq(t, 1, m)
    <3>1. m \in 0..Len(t)
      BY <2>4, <2>5
    <3> QED
      BY <1>1, <2>4, <3>1, PrefixOfConcat
  <2>7. SubSeq(t, 1, m) = SubSeq(batch, 1, m)
    BY <2>2, <2>3, <2>5, PrefixOfPrefix
  <2>8. SubSeq(Replay(files), 1, l) = acked \o SubSeq(InFlight, 1, m)
    BY <2>1, <2>3, <2>5, <2>6, <2>7
  <2>9. m \in 0..Len(InFlight)
    BY <2>1, <2>2, <2>5
  <2> QED
    BY <2>8, <2>9
<1> QED
  BY <1>2, <1>3

\* A step of the log is a step of the DurableLog, or none.
LEMMA LogStep ==
    ASSUME TypeOK, Calm => CalmInv, Next, Calm'
    PROVE  [Abstract!Next]_(Abstract!vars)
<1>1. Calm /\ CalmInv /\ CalmInv' /\ ~WriteFault /\ ~SyncFault /\ \A ops \in Batches : ~RollOverFault(ops)
  BY CalmStep, CalmBefore
<1>2. TypeOK'
  BY TypeStep
<1>3. /\ mode \in {"ready", "writing"} => Records = acked
      /\ mode = "closed" => Records = Replay(files)
  BY <1>1, RecordsAre
<1>4. /\ mode' \in {"ready", "writing"} => Records' = acked'
      /\ mode' = "closed" => Records' = Replay(files')
  <2>1. (TypeOK /\ Calm /\ CalmInv => /\ mode \in {"ready", "writing"} => Records = acked
                                      /\ mode = "closed" => Records = Replay(files))'
    BY RecordsAre, PTL
  <2> QED
    BY <1>1, <1>2, <2>1
<1>5. CASE OpenLog
  <2>1. mode = "closed" /\ mode' = "ready" /\ acked' = Replay(files)
    BY <1>5 DEF OpenLog
  <2>2. Records' = Records /\ InFlight' = InFlight /\ ~Up /\ Up'
    BY <1>3, <1>4, <2>1 DEF InFlight, Up
  <2>3. Abstract!Open
    BY <2>2 DEF Abstract!Open, Records, InFlight, Up
  <2> QED
    BY <2>3 DEF Abstract!Next
<1>6. CASE \E ops \in Batches : StartAppend(ops)
  <2>1. PICK ops \in Batches : StartAppend(ops)
    BY <1>6
  <2>2. mode = "ready" /\ mode' = "writing" /\ acked' = acked /\ batch' = Numbered(ops)
    BY <2>1 DEF StartAppend
  <2>3. batch' \in Seq(Record)
    BY <1>2 DEF TypeOK
  <2>4. Records' = Records /\ InFlight = <<>> /\ InFlight' \in Seq(Record) /\ Up /\ Up'
    BY <1>3, <1>4, <2>2, <2>3 DEF InFlight, Up
  <2>5. Abstract!Start
    BY <2>4 DEF Abstract!Start, Records, InFlight, Up
  <2> QED
    BY <2>5 DEF Abstract!Next
<1>7. CASE WriteRecord
  <2>1. mode = "writing" /\ mode' = "writing" /\ acked' = acked /\ batch' = batch
    BY <1>7 DEF WriteRecord
  <2>2. Records' = Records /\ InFlight' = InFlight /\ (Up' <=> Up)
    BY <1>3, <1>4, <2>1 DEF InFlight, Up
  <2>3. UNCHANGED Abstract!vars
    <3>1. (mode \in {"ready", "writing"})' = (mode \in {"ready", "writing"})
      BY <2>1, Zenon
    <3> QED
      BY <2>2, <3>1, Zenon DEF Abstract!vars, Records, InFlight
  <2> QED
    BY <2>3
<1>8. CASE Sync
  <2>1. mode = "writing" /\ mode' = "ready" /\ acked' = acked \o batch
    BY <1>8 DEF Sync
  <2>2. Records' = Records \o InFlight /\ InFlight' = <<>> /\ Up /\ Up'
    BY <1>3, <1>4, <2>1 DEF InFlight, Up
  <2>3. Abstract!Acknowledge
    BY <2>2 DEF Abstract!Acknowledge, Records, InFlight, Up
  <2> QED
    BY <2>3 DEF Abstract!Next
<1>9. CASE Kill \/ PowerLoss
  <2>1. mode \in {"ready", "writing"} /\ mode' = "closed"
    BY <1>9 DEF Kill, PowerLoss, Stop
  <2>2. PICK l \in Len(acked)..Len(Replay(files)) : Replay(files') = SubSeq(Replay(files), 1, l)
    <3>1. CASE Kill
      <4>1. Replay(files') = Replay(files) /\ Replay(files) \in Seq(Record)
        BY <1>1, <3>1, KillCalm, CalmFacts
      <4>2. Replay(files) = SubSeq(Replay(files), 1, Len(Replay(files)))
        BY <4>1, WholePrefix
      <4>3. Len(Replay(files)) \in Len(acked)..Len(Replay(files))
        BY <1>1, <2>1, AckedFacts
      <4> QED
        BY <4>1, <4>2, <4>3
    <3>2. CASE PowerLoss
      BY <1>1, <3>2, PowerCalm
    <3> QED
      BY <1>9, <3>1, <3>2
  <2>3. PICK m \in 0..Len(InFlight) : Replay(files') = acked \o SubSeq(InFlight, 1, m)
    BY <1>1, <2>1, <2>2, CrashLeaves
  <2>4. Records = acked /\ Records' = Replay(files') /\ InFlight' = <<>> /\ ~Up'
    BY <1>3, <1>4, <2>1 DEF InFlight, Up
  <2>5. Records' = Records \o SubSeq(InFlight, 1, m)
    BY <2>3, <2>4
  <2>6. Abstract!Crash
    <3>1. (mode \in {"ready", "writing"})' = FALSE
      BY <2>4 DEF Up
    <3>2. \E n \in 0..Len(InFlight) : Records' = Records \o SubSeq(InFlight, 1, n)
      BY <2>5
    <3> QED
      BY <2>4, <3>1, <3>2, Zenon DEF Abstract!Crash, Records, InFlight
  <2> QED
    BY <2>6 DEF Abstract!Next
<1>10. CASE OpenFails
  BY <1>1, <1>10, OpenFailsCalm
<1> QED
  BY <1>1, <1>5, <1>6, <1>7, <1>8, <1>9, <1>10 DEF Next

\* The refinement: as long as it is calm, every behaviour of the log is one
\* of a DurableLog (log.rs, segment.rs).
THEOREM LogIsDurable == Spec => ImplementsDurableLog
<1>1. Init => Abstract!Init
  <2> SUFFICES ASSUME Init PROVE Abstract!Init
    OBVIOUS
  <2>1. files = <<>> /\ mode = "closed"
    BY DEF Init
  <2>2. Records = <<>>
    <3>1. Replay(files) = <<>> /\ Len(<<>>) = 0 /\ Unacknowledged = 0
      BY <2>1, ReplayEmpty DEF Unacknowledged
    <3>2. SubSeq(<<>>, 1, 0) = <<>>
      BY SubSeqEmpty
    <3> QED
      BY <3>1, <3>2 DEF Records
  <2>3. InFlight = <<>> /\ ~Up
    BY <2>1 DEF InFlight, Up
  <2> QED
    BY <2>2, <2>3 DEF Abstract!Init, Records, InFlight, Up
<1>2. LogInv /\ [Next]_vars => [Calm' => [Abstract!Next]_(Abstract!vars)]_vars
  BY LogStep DEF LogInv
<1> QED
  BY <1>1, <1>2, LogInvariance, PTL DEF Spec, ImplementsDurableLog
=============================================================================
