------------------------------ MODULE TxnProofs ------------------------------
(***************************************************************************)
(* Txn's safety properties, and that Txn implements SnapshotIsolation for  *)
(* clients that never delete, for any set of keys and values and any       *)
(* finite number of concurrent transactions.                               *)
(***************************************************************************)
EXTENDS Txn, InductionProofs, SequenceTheorems, FiniteSetTheorems

-----------------------------------------------------------------------------
(* Version lists.                                                          *)

\* SmallestOf and LargestOf are what their names say.
LEMMA SmallestOfIsSmallest ==
    ASSUME NEW S \in SUBSET Nat, S # {}
    PROVE  SmallestOf(S) \in S /\ \A x \in S : SmallestOf(S) <= x
BY SmallestNat DEF SmallestOf

LEMMA LargestOfIsLargest ==
    ASSUME NEW S \in SUBSET Nat, S # {}, NEW M \in Nat, \A x \in S : x <= M
    PROVE  LargestOf(S) \in S /\ \A x \in S : x <= LargestOf(S)
BY LargestNat DEF LargestOf

-----------------------------------------------------------------------------
(* What Log::open computes.                                                *)

\* Log::open's next_seq lies just above the sequence numbers on disk.
LEMMA NextSeqIsAbove ==
    ASSUME NEW S \in SUBSET Nat, NEW M \in Nat, \A s \in S : s <= M
    PROVE  /\ NextSeq(S) \in Nat
           /\ \A s \in S : s < NextSeq(S)
           /\ NextSeq(S) = 0 \/ NextSeq(S) - 1 \in S
<1>1. CASE S = {}
  BY <1>1 DEF NextSeq
<1>2. CASE S # {}
  <2>1. LargestOf(S) \in S /\ \A s \in S : s <= LargestOf(S)
    BY <1>2, LargestOfIsLargest
  <2>2. LargestOf(S) \in Nat /\ NextSeq(S) = LargestOf(S) + 1
    BY <1>2, <2>1 DEF NextSeq
  <2>3. NextSeq(S) - 1 = LargestOf(S)
    BY <2>2
  <2> QED
    BY <2>1, <2>2, <2>3
<1> QED
  BY <1>1, <1>2

-----------------------------------------------------------------------------
(* Reads of one version list.                                              *)

\* A list is a function on 1..Len, of versions.
LEMMA ListFacts ==
    ASSUME NEW vs \in Seq(Version)
    PROVE  /\ Len(vs) \in Nat /\ DOMAIN vs = 1..Len(vs)
           /\ \A i \in DOMAIN vs : vs[i] \in Version /\ vs[i].seq \in Nat
           /\ vs # <<>> => Len(vs) \in DOMAIN vs
<1>1. Len(vs) \in Nat /\ DOMAIN vs = 1..Len(vs)
  BY LenProperties
<1>2. \A i \in DOMAIN vs : vs[i] \in Version
  BY <1>1, ElementOfSeq
<1>3. \A i \in DOMAIN vs : vs[i].seq \in Nat
  BY <1>2 DEF Version
<1>4. vs # <<>> => Len(vs) # 0
  BY EmptySeq
<1> QED
  BY <1>1, <1>2, <1>3, <1>4

\* The version a snapshot reads is the last of those below it.
LEMMA LastBelow ==
    ASSUME NEW vs \in Seq(Version), NEW s \in Nat, Below(vs, s) # {}
    PROVE  /\ LargestOf(Below(vs, s)) \in Below(vs, s)
           /\ \A i \in Below(vs, s) : i <= LargestOf(Below(vs, s))
<1>1. Below(vs, s) \in SUBSET Nat /\ \A i \in Below(vs, s) : i <= Len(vs)
  BY ListFacts DEF Below
<1> QED
  BY <1>1, ListFacts, LargestOfIsLargest

\* A version numbered s or above does not change what a snapshot at s reads.
LEMMA AppendKeepsGetAt ==
    ASSUME NEW vs \in Seq(Version), NEW v \in Version, NEW s \in Nat, v.seq >= s
    PROVE  GetAt(Append(vs, v), s) = GetAt(vs, s)
<1> DEFINE ws == Append(vs, v)
<1>1. /\ ws \in Seq(Version) /\ Len(ws) = Len(vs) + 1
      /\ \A i \in 1..Len(vs) : ws[i] = vs[i]
      /\ ws[Len(vs) + 1] = v
  BY AppendProperties
<1>2. v.seq \in Nat
  BY DEF Version
<1>3. Below(ws, s) = Below(vs, s)
  <2> HIDE DEF ws
  <2>1. DOMAIN ws = 1..(Len(vs) + 1) /\ DOMAIN vs = 1..Len(vs) /\ Len(vs) \in Nat
    BY <1>1, ListFacts
  <2> QED
    BY <1>1, <1>2, <2>1 DEF Below
<1>4. CASE Below(vs, s) = {}
  BY <1>3, <1>4 DEF GetAt
<1>5. CASE Below(vs, s) # {}
  <2>1. LargestOf(Below(vs, s)) \in 1..Len(vs)
    BY <1>5, LastBelow, ListFacts DEF Below
  <2> QED
    BY <1>1, <1>3, <1>5, <2>1 DEF GetAt
<1> QED
  BY <1>4, <1>5

\* A snapshot above every version reads what get reads.
LEMMA GetAtAboveAll ==
    ASSUME NEW vs \in Seq(Version), NEW s \in Nat, \A i \in DOMAIN vs : vs[i].seq < s
    PROVE  GetAt(vs, s) = Get(vs)
<1>1. Below(vs, s) = DOMAIN vs
  BY DEF Below
<1>2. CASE vs = <<>>
  <2>1. DOMAIN vs = {}
    BY <1>2, ListFacts, EmptySeq
  <2> QED
    BY <1>1, <1>2, <2>1 DEF GetAt, Get
<1>3. CASE vs # <<>>
  <2>1. Len(vs) \in DOMAIN vs /\ \A i \in DOMAIN vs : i <= Len(vs)
    BY <1>3, ListFacts
  <2>2. LargestOf(DOMAIN vs) \in DOMAIN vs /\ Len(vs) <= LargestOf(DOMAIN vs)
    BY <1>1, <2>1, LastBelow
  <2>3. LargestOf(DOMAIN vs) = Len(vs)
    BY <2>1, <2>2, ListFacts
  <2> QED
    BY <1>1, <1>3, <2>1, <2>3 DEF GetAt, Get
<1> QED
  BY <1>2, <1>3

-----------------------------------------------------------------------------
(* What compaction keeps of one version list.                              *)

\* Compaction under a guard at s keeps version s - 1 and all above.
LEMMA KeptFromAnchor ==
    ASSUME NEW vs \in Seq(Version), NEW s \in Nat, OrderedList(vs),
           NEW i \in DOMAIN vs, s <= vs[i].seq + 1
    PROVE  i \in KeptFrom(vs, s)
<1>1. CASE vs[i].seq >= s
  BY <1>1 DEF KeptFrom
<1>2. CASE ~(vs[i].seq >= s)
  <2>1. i \in Below(vs, s)
    BY <1>2, ListFacts DEF Below
  <2> DEFINE m == LargestOf(Below(vs, s))
  <2>2. m \in Below(vs, s) /\ i <= m
    BY <2>1, LastBelow
  <2>3. m \in DOMAIN vs /\ vs[m].seq < s
    BY <2>2 DEF Below
  <2>4. ~(i < m)
    <3> HIDE DEF m
    <3> QED
      BY <2>3, ListFacts DEF OrderedList
  <2>5. i = m
    BY <2>2, <2>3, <2>4, ListFacts
  <2> QED
    BY <2>5 DEF KeptFrom
<1> QED
  BY <1>1, <1>2

\* Compaction under a guard keeps the last version of every key.
LEMMA KeptFromLast ==
    ASSUME NEW vs \in Seq(Version), NEW s \in Nat, vs # <<>>
    PROVE  Len(vs) \in KeptFrom(vs, s)
<1>1. Len(vs) \in DOMAIN vs /\ \A i \in DOMAIN vs : i <= Len(vs)
  BY ListFacts
<1>2. CASE vs[Len(vs)].seq >= s
  BY <1>1, <1>2 DEF KeptFrom
<1>3. CASE ~(vs[Len(vs)].seq >= s)
  <2>1. Len(vs) \in Below(vs, s)
    BY <1>1, <1>3, ListFacts DEF Below
  <2>2. LargestOf(Below(vs, s)) \in DOMAIN vs /\ Len(vs) <= LargestOf(Below(vs, s))
    BY <2>1, LastBelow DEF Below
  <2>3. LargestOf(Below(vs, s)) = Len(vs)
    BY <1>1, <2>2, ListFacts
  <2> QED
    BY <1>1, <2>3 DEF KeptFrom
<1> QED
  BY <1>2, <1>3

-----------------------------------------------------------------------------
(* The initial states.                                                     *)

\* Store::open leaves a state that satisfies the invariant.
LEMMA InitCalm == Init => CalmInv
<1> SUFFICES ASSUME Init PROVE CalmInv
  OBVIOUS
<1> USE DEF Init
<1> DEFINE S == UNION {{index[k][i].seq : i \in DOMAIN index[k]} : k \in Key}
<1>1. /\ index \in [Key -> Seq(Version)]
      /\ ListsOrdered /\ SeqsBounded
  BY RecoveredAssumption DEF ListsOrdered, SeqsBounded
<1>2. S \in SUBSET Nat /\ \A s \in S : s <= MaxSeq
  <2> SUFFICES ASSUME NEW k \in Key, NEW i \in DOMAIN index[k]
               PROVE  index[k][i].seq \in Nat /\ index[k][i].seq <= MaxSeq
    OBVIOUS
  <2> QED
    BY <1>1, ListFacts, MaxSeqAssumption DEF SeqsBounded
<1>3. next_seq \in Nat /\ (next_seq = 0 \/ next_seq - 1 \in S)
  BY <1>2, NextSeqIsAbove, MaxSeqAssumption
<1>4. guards = {}
  BY DEF guards
<1>5. TypeOK
  BY <1>1, <1>3 DEF TypeOK
<1>6. RegistryMatchesGuards
  BY <1>4 DEF RegistryMatchesGuards
<1>7. Anchored(next_seq)
  BY <1>3 DEF Anchored
<1> QED
  BY <1>1, <1>4, <1>5, <1>6, <1>7
     DEF CalmInv, AlwaysInv, SnapshotsNotAhead, SnapshotsAnchored, OverwritesAreSeen, NoLostUpdateEver

-----------------------------------------------------------------------------
(* Commit.                                                                 *)

\* What a commit does to the store: every key it wrote gets one version,
\* numbered from next_seq on, and the last number handed out is one of them.
LEMMA CommitWrites ==
    ASSUME AlwaysInv, NEW t \in Transactions, Commit(t)
    PROVE  /\ next_seq' \in Nat /\ next_seq <= next_seq' /\ next_seq' <= MaxSeq
           /\ \A k \in Key \ WriteSet(t) : index'[k] = index[k]
           /\ \A k \in WriteSet(t) : \E v \in Version :
                 /\ index'[k] = Append(index[k], v) /\ v.value = writes[t][k]
                 /\ next_seq <= v.seq /\ v.seq < next_seq'
           /\ index' \in [Key -> Seq(Version)]
           /\ Anchored(next_seq) => Anchored(next_seq)'
<1> DEFINE W == WriteSet(t)
           n == Cardinality(WriteSet(t))
<1>1. IsFiniteSet(W) /\ n \in Nat /\ W \subseteq Key /\ (n = 0 <=> W = {})
  BY KeyAssumption, FS_Subset, FS_CardinalityType, FS_EmptySet DEF WriteSet
<1>2. next_seq \in Nat /\ index \in [Key -> Seq(Version)]
  BY DEF AlwaysInv, TypeOK
<1>3. PICK ord \in [W -> 0..(n - 1)] :
         BatchOrder(W, ord) /\ ApplyBatch(W, writes[t], ord)
  BY DEF Commit
<1>a. next_seq + n <= IF failures = 0 THEN MaxSeq ELSE MaxSeqAfterFailure
  BY DEF Commit
<1>b. next_seq + n <= MaxSeq
  BY <1>1, <1>2, <1>a, MaxSeqAssumption
<1>4. next_seq' = next_seq + n /\ next_seq + n <= MaxSeq
  BY <1>3, <1>b DEF ApplyBatch
<1>5. index' = [k \in Key |->
                  IF k \in W THEN Append(index[k], [seq |-> next_seq + ord[k], value |-> writes[t][k]])
                  ELSE index[k]]
  BY <1>3 DEF ApplyBatch
<1>6. \A k \in W : writes[t][k] \in Val \cup {None}
  BY DEF AlwaysInv, TypeOK, WriteSet
<1>7. \A k \in W : /\ [seq |-> next_seq + ord[k], value |-> writes[t][k]] \in Version
                   /\ next_seq + ord[k] >= next_seq /\ next_seq + ord[k] < next_seq + n
  BY <1>1, <1>2, <1>3, <1>6 DEF Version
<1>8. \A k \in Key \ W : index'[k] = index[k]
  BY <1>5
<1>9. \A k \in W : \E v \in Version :
         /\ index'[k] = Append(index[k], v) /\ v.value = writes[t][k]
         /\ next_seq <= v.seq /\ v.seq < next_seq'
  <2> TAKE k \in W
  <2> DEFINE v == [seq |-> next_seq + ord[k], value |-> writes[t][k]]
  <2>1. v \in Version /\ v.seq = next_seq + ord[k] /\ v.value = writes[t][k]
    BY <1>7
  <2>2. index'[k] = Append(index[k], v)
    BY <1>1, <1>5
  <2>3. next_seq <= v.seq /\ v.seq < next_seq'
    BY <1>2, <1>4, <1>7, <2>1
  <2> QED
    BY <2>1, <2>2, <2>3
<1>10. index' \in [Key -> Seq(Version)]
  <2>1. \A k \in Key : index'[k] \in Seq(Version)
    <3> TAKE k \in Key
    <3>1. CASE k \in W
      <4>1. PICK v \in Version : index'[k] = Append(index[k], v)
        BY <1>9, <3>1
      <4> QED
        BY <1>2, <4>1, AppendProperties
    <3>2. CASE k \notin W
      BY <1>2, <1>8, <3>2
    <3> QED
      BY <3>1, <3>2
  <2> QED
    BY <1>5, <2>1
<1>11. Anchored(next_seq) => Anchored(next_seq)'
  <2>1. CASE n = 0
    <3>1. index' = index /\ next_seq' = next_seq
      BY <1>1, <1>2, <1>4, <1>5, <2>1
    <3> QED
      BY <3>1 DEF Anchored
  <2>2. CASE n # 0
    <3>1. n - 1 \in 0..(n - 1)
      BY <1>1, <2>2
    <3>2. PICK k \in W : ord[k] = n - 1
      BY <1>3, <3>1 DEF BatchOrder
    <3>3. index'[k] = Append(index[k], [seq |-> next_seq + (n - 1), value |-> writes[t][k]])
      BY <1>1, <1>5, <3>2
    <3> DEFINE v == [seq |-> next_seq + (n - 1), value |-> writes[t][k]]
    <3>4. v \in Version /\ index[k] \in Seq(Version) /\ k \in Key
      BY <1>1, <1>2, <1>7, <3>2
    <3>5. Len(index[k]) + 1 \in DOMAIN index'[k] /\ index'[k][Len(index[k]) + 1] = v
      BY <3>3, <3>4, AppendProperties, ListFacts
    <3>6. v.seq = next_seq' - 1
      BY <1>1, <1>2, <1>4
    <3> QED
      BY <3>4, <3>5, <3>6 DEF Anchored
  <2> QED
    BY <2>1, <2>2
<1> QED
  BY <1>1, <1>2, <1>4, <1>8, <1>9, <1>10, <1>11

\* The same until a compact fails: next_seq stays anchored.
LEMMA CommitEffect ==
    ASSUME CalmInv, NEW t \in Transactions, Commit(t)
    PROVE  /\ next_seq' \in Nat /\ next_seq <= next_seq' /\ next_seq' <= MaxSeq
           /\ \A k \in Key \ WriteSet(t) : index'[k] = index[k]
           /\ \A k \in WriteSet(t) : \E v \in Version :
                 /\ index'[k] = Append(index[k], v) /\ v.value = writes[t][k]
                 /\ next_seq <= v.seq /\ v.seq < next_seq'
           /\ index' \in [Key -> Seq(Version)]
           /\ Anchored(next_seq)'
<1>1. AlwaysInv /\ Anchored(next_seq)
  BY DEF CalmInv, SnapshotsAnchored
<1> QED
  BY <1>1, CommitWrites

\* No version a commit adds is numbered past the bound.
LEMMA CommitBounded ==
    ASSUME AlwaysInv, NEW t \in Transactions, Commit(t)
    PROVE  SeqsBounded'
<1> SUFFICES ASSUME NEW k \in Key
             PROVE  \A i \in DOMAIN index'[k] : index'[k][i].seq < MaxSeq
  BY DEF SeqsBounded
<1>1. /\ index[k] \in Seq(Version) /\ \A i \in DOMAIN index[k] : index[k][i].seq < MaxSeq
      /\ DOMAIN index[k] = 1..Len(index[k]) /\ Len(index[k]) \in Nat
      /\ next_seq' \in Nat /\ next_seq' <= MaxSeq
  BY CommitWrites, ListFacts DEF AlwaysInv, TypeOK, SeqsBounded
<1>2. CASE k \notin WriteSet(t)
  BY <1>1, <1>2, CommitWrites
<1>3. CASE k \in WriteSet(t)
  <2>1. PICK v \in Version : index'[k] = Append(index[k], v) /\ v.seq < next_seq'
    BY <1>3, CommitWrites
  <2>2. v.seq \in Nat
    BY DEF Version
  <2>3. /\ DOMAIN index'[k] = 1..(Len(index[k]) + 1)
        /\ \A i \in 1..Len(index[k]) : index'[k][i] = index[k][i]
        /\ index'[k][Len(index[k]) + 1] = v
    BY <1>1, <2>1, AppendProperties, ListFacts
  <2> QED
    BY <1>1, <2>1, <2>2, <2>3, MaxSeqAssumption
<1> QED
  BY <1>2, <1>3

\* A version list after a commit: what was there is still there.
LEMMA CommitExtends ==
    ASSUME CalmInv, NEW t \in Transactions, Commit(t), NEW k \in Key
    PROVE  /\ DOMAIN index[k] \subseteq DOMAIN index'[k]
           /\ \A i \in DOMAIN index[k] : index'[k][i] = index[k][i]
           /\ \A s \in Nat : LatestAtOrAfter(index[k], s) /\ s <= next_seq
                                => LatestAtOrAfter(index'[k], s)
           /\ k \in WriteSet(t) =>
                 \A s \in Nat : s <= next_seq => LatestAtOrAfter(index'[k], s)
<1>1. index[k] \in Seq(Version) /\ next_seq \in Nat
  BY DEF CalmInv, AlwaysInv, TypeOK
<1>2. CASE k \notin WriteSet(t)
  BY <1>2, CommitEffect
<1>3. CASE k \in WriteSet(t)
  <2>1. PICK v \in Version : index'[k] = Append(index[k], v) /\ next_seq <= v.seq
    BY <1>3, CommitEffect
  <2>2. /\ DOMAIN index[k] = 1..Len(index[k]) /\ Len(index[k]) \in Nat
        /\ v.seq \in Nat
    BY <1>1, ListFacts DEF Version
  <2>3. /\ index'[k] \in Seq(Version) /\ index'[k] # <<>>
        /\ Len(index'[k]) = Len(index[k]) + 1
        /\ \A i \in 1..Len(index[k]) : index'[k][i] = index[k][i]
        /\ index'[k][Len(index[k]) + 1] = v
    BY <1>1, <2>1, AppendProperties
  <2>4. DOMAIN index'[k] = 1..(Len(index[k]) + 1)
    BY <2>3, ListFacts
  <2>5. \A s \in Nat : s <= next_seq => LatestAtOrAfter(index'[k], s)
    BY <1>1, <2>1, <2>2, <2>3 DEF LatestAtOrAfter
  <2> QED
    BY <2>2, <2>3, <2>4, <2>5
<1> QED
  BY <1>2, <1>3

\* Versions stay in commit order: the conflict check has made sure that the
\* last version of a key that is written lies below the snapshot.
LEMMA CommitKeepsOrder ==
    ASSUME CalmInv, NEW t \in Transactions, Commit(t)
    PROVE  ListsOrdered'
<1> SUFFICES ASSUME NEW k \in Key
             PROVE  OrderedList(index'[k])
  BY DEF ListsOrdered
<1>1. index[k] \in Seq(Version) /\ OrderedList(index[k])
  BY DEF CalmInv, AlwaysInv, TypeOK, ListsOrdered
<1>2. CASE k \notin WriteSet(t)
  BY <1>1, <1>2, CommitEffect
<1>3. CASE k \in WriteSet(t)
  <2>1. PICK v \in Version : /\ index'[k] = Append(index[k], v)
                             /\ next_seq <= v.seq /\ v.seq < next_seq'
    BY <1>3, CommitEffect
  <2>2. /\ DOMAIN index[k] = 1..Len(index[k]) /\ Len(index[k]) \in Nat
        /\ v.seq \in Nat /\ \A i \in DOMAIN index[k] : index[k][i].seq \in Nat
    BY <1>1, ListFacts DEF Version
  <2>3. /\ index'[k] \in Seq(Version)
        /\ Len(index'[k]) = Len(index[k]) + 1
        /\ \A i \in 1..Len(index[k]) : index'[k][i] = index[k][i]
        /\ index'[k][Len(index[k]) + 1] = v
    BY <1>1, <2>1, AppendProperties
  <2>4. DOMAIN index'[k] = 1..(Len(index[k]) + 1)
    BY <2>3, ListFacts
  <2>5. next_seq \in Nat /\ next_seq' \in Nat /\ next_seq' <= MaxSeq /\ snap[t] \in Nat
    BY CommitEffect DEF CalmInv, AlwaysInv, TypeOK
  <2>6. snap[t] <= next_seq
    BY DEF CalmInv, AlwaysInv, SnapshotsNotAhead, guards, Commit
  <2>7. ~LatestAtOrAfter(index[k], snap[t])
    BY <1>3 DEF Commit, Stale
  <2>8. \A i \in DOMAIN index[k] : index[k][i].seq < v.seq
    <3> TAKE i \in DOMAIN index[k]
    <3>1. index[k] # <<>> /\ Len(index[k]) \in DOMAIN index[k]
      BY <1>1, <2>2, ListFacts, EmptySeq
    <3>2. index[k][Len(index[k])].seq < snap[t]
      BY <2>2, <2>5, <2>7, <3>1 DEF LatestAtOrAfter
    <3>3. index[k][i].seq <= index[k][Len(index[k])].seq
      BY <1>1, <2>2, <3>1 DEF OrderedList
    <3>4. index[k][i].seq \in Nat /\ index[k][Len(index[k])].seq \in Nat
      BY <2>2, <3>1
    <3>5. v.seq \in Nat /\ next_seq <= v.seq
      BY <2>1, <2>5 DEF Version
    <3> QED
      BY <2>5, <2>6, <3>2, <3>3, <3>4, <3>5
  <2>9. OrderedList(index'[k])
    <3> SUFFICES ASSUME NEW i \in 1..(Len(index[k]) + 1), NEW j \in 1..(Len(index[k]) + 1), i < j
                 PROVE  index'[k][i].seq < index'[k][j].seq
      BY <2>4 DEF OrderedList
    <3>1. i \in DOMAIN index[k] /\ index'[k][i] = index[k][i]
      BY <2>2, <2>3
    <3>2. CASE j = Len(index[k]) + 1
      BY <2>3, <2>8, <3>1, <3>2
    <3>3. CASE j # Len(index[k]) + 1
      <4>1. j \in DOMAIN index[k] /\ index'[k][j] = index[k][j]
        BY <2>2, <2>3, <3>3
      <4> QED
        BY <1>1, <3>1, <4>1 DEF OrderedList
    <3> QED
      BY <3>2, <3>3
  <2> QED
    BY <2>9
<1> QED
  BY <1>2, <1>3

-----------------------------------------------------------------------------
(* Compaction.                                                             *)

\* Whatever it finds, Log::open computes a number.
LEMMA RecomputedType == AlwaysInv => Recomputed \in Nat
<1> SUFFICES ASSUME AlwaysInv PROVE Recomputed \in Nat
  OBVIOUS
<1> DEFINE S == UNION {{index[k][i].seq : i \in Kept(k)} : k \in Key}
<1>1. \A k \in Key : Kept(k) \subseteq DOMAIN index[k]
  BY DEF Kept, KeptUnguarded, KeptFrom
<1>2. \A k \in Key : \A i \in DOMAIN index[k] : index[k][i].seq \in Nat /\ index[k][i].seq <= MaxSeq
  BY ListFacts, MaxSeqAssumption DEF AlwaysInv, TypeOK, SeqsBounded
<1>3. S \in SUBSET Nat /\ \A s \in S : s <= MaxSeq
  BY <1>1, <1>2
<1> QED
  BY <1>3, NextSeqIsAbove, MaxSeqAssumption DEF Recomputed

\* Compaction may move next_seq back, but to a version that is in the index
\* and never below a snapshot that is held.
LEMMA CompactEffect ==
    ASSUME CalmInv, failures = 0, Compact
    PROVE  /\ next_seq' \in Nat
           /\ Anchored(next_seq)'
           /\ \A t \in guards : snap[t] <= next_seq'
           /\ \A k \in Key : \A i \in Kept(k) : index[k][i].seq < next_seq'
<1> DEFINE S == UNION {{index[k][i].seq : i \in Kept(k)} : k \in Key}
<1>1. \A k \in Key : Kept(k) \subseteq DOMAIN index[k]
  BY DEF Kept, KeptUnguarded, KeptFrom
<1>2. \A k \in Key : /\ index[k] \in Seq(Version) /\ OrderedList(index[k])
                     /\ \A i \in DOMAIN index[k] : /\ index[k][i].seq \in Nat
                                                   /\ index[k][i].seq <= MaxSeq
  BY ListFacts, MaxSeqAssumption DEF CalmInv, AlwaysInv, TypeOK, ListsOrdered, SeqsBounded
<1>3. S \in SUBSET Nat /\ \A s \in S : s <= MaxSeq
  BY <1>1, <1>2
<1>a. next_seq' = Recomputed
  BY DEF Compact
<1>4. /\ next_seq' \in Nat
      /\ \A s \in S : s < next_seq'
      /\ next_seq' = 0 \/ next_seq' - 1 \in S
  BY <1>a, <1>3, NextSeqIsAbove, MaxSeqAssumption DEF Recomputed
<1>5. Anchored(next_seq)'
  BY <1>1, <1>4 DEF Anchored, Compact
<1>6. ASSUME NEW t \in guards PROVE snap[t] <= next_seq'
  <2>1. snap[t] \in Nat /\ snap[t] \in DOMAIN held /\ DOMAIN held \in SUBSET Nat
    BY <1>6 DEF CalmInv, AlwaysInv, TypeOK, RegistryMatchesGuards, guards
  <2>2. CASE snap[t] = 0
    BY <1>4, <2>2
  <2>3. CASE snap[t] # 0
    <3>a. PICK k \in Key : \E i \in DOMAIN index[k] : index[k][i].seq = snap[t] - 1
      BY <1>6, <2>3 DEF CalmInv, AlwaysInv, SnapshotsAnchored, Anchored
    <3>1. PICK i \in DOMAIN index[k] : index[k][i].seq = snap[t] - 1
      BY <3>a
    <3> DEFINE oldest == SmallestOf(DOMAIN held)
    <3>2. oldest \in Nat /\ oldest <= snap[t]
      BY <2>1, SmallestOfIsSmallest
    <3>3. oldest <= index[k][i].seq + 1
      BY <2>1, <3>1, <3>2
    <3>4. i \in KeptFrom(index[k], oldest)
      BY <1>2, <3>2, <3>3, KeptFromAnchor
    <3>5. i \in Kept(k)
      BY <2>1, <3>4 DEF Kept
    <3>6. snap[t] - 1 \in S
      BY <3>1, <3>5
    <3>7. snap[t] - 1 < next_seq'
      <4> HIDE DEF S
      <4> QED
        BY <1>4, <3>6
    <3> QED
      BY <1>4, <2>1, <3>7
  <2> QED
    BY <2>2, <2>3
<1>7. \A k \in Key : \A i \in Kept(k) : index[k][i].seq < next_seq'
  BY <1>4
<1> QED
  BY <1>4, <1>5, <1>6, <1>7

-----------------------------------------------------------------------------
(* Every action preserves the invariant.                                   *)

\* What the registry and the bound are about.
LEMMA AlwaysFrame ==
    ASSUME AlwaysInv, UNCHANGED <<index, held, snap>>, guards' = guards
    PROVE  RegistryMatchesGuards' /\ SeqsBounded'
BY DEF AlwaysInv, RegistryMatchesGuards, SeqsBounded

\* What the parts about the store and the registry are made of.
LEMMA StoreFrame ==
    ASSUME CalmInv, UNCHANGED <<index, next_seq, held, snap>>, guards' = guards
    PROVE  /\ RegistryMatchesGuards' /\ ListsOrdered' /\ SeqsBounded'
           /\ SnapshotsNotAhead' /\ SnapshotsAnchored'
<1>1. RegistryMatchesGuards'
  BY AlwaysFrame DEF CalmInv
<1>2. ListsOrdered' /\ SeqsBounded'
  BY AlwaysFrame DEF CalmInv, ListsOrdered
<1>3. SnapshotsNotAhead'
  BY DEF CalmInv, AlwaysInv, SnapshotsNotAhead
<1>4. SnapshotsAnchored'
  BY DEF CalmInv, AlwaysInv, SnapshotsAnchored, Anchored
<1> QED
  BY <1>1, <1>2, <1>3, <1>4

\* begin registers a guard on next_seq.
LEMMA BeginAlways ==
    ASSUME AlwaysInv, NEW t \in Transactions, Begin(t)
    PROVE  AlwaysInv'
<1>1. /\ next_seq \in Nat /\ DOMAIN held \subseteq Nat
      /\ held \in [DOMAIN held -> Nat \ {0}]
      /\ t \notin guards /\ guards' = guards \cup {t}
      /\ snap'[t] = next_seq /\ \A u \in guards : snap'[u] = snap[u]
  BY DEF AlwaysInv, TypeOK, Begin, guards
<1>2. DOMAIN held' = DOMAIN held \cup {next_seq}
  BY DEF Begin, Held
<1>3. TypeOK'
  <2>1. DOMAIN held' \subseteq Nat
    BY <1>1, <1>2
  <2>2. held' \in [DOMAIN held' -> Nat \ {0}]
    <3>1. \A s \in DOMAIN held \cup {next_seq} :
            (IF s \notin DOMAIN held THEN 1
             ELSE IF s = next_seq THEN held[s] + 1 ELSE held[s]) \in Nat \ {0}
      BY <1>1
    <3> QED
      BY <1>2, <3>1 DEF Begin, Held
  <2>3. \A k \in Key : Get(index[k]) \in Val \cup {None}
    <3> TAKE k \in Key
    <3>1. index[k] \in Seq(Version)
      BY DEF AlwaysInv, TypeOK
    <3>2. index[k] # <<>> => index[k][Len(index[k])].value \in Val \cup {None}
      BY <3>1, ListFacts DEF Version
    <3> QED
      BY <3>2 DEF Get
  <2>4. [k \in Key |-> Get(index[k])] \in [Key -> Val \cup {None}]
    BY <2>3
  <2>5. base' \in [Transactions -> [Key -> Val \cup {None}]]
    BY <2>4 DEF AlwaysInv, TypeOK, Begin
  <2>6. /\ index' \in [Key -> Seq(Version)] /\ next_seq' \in Nat
        /\ status' \in [Transactions -> {"idle", "open"} \cup Ended]
        /\ snap' \in [Transactions -> Nat]
        /\ writes' \in [Transactions -> [Key -> Val \cup {None, NoWrite}]]
        /\ overwritten' \in [Transactions -> SUBSET Key]
        /\ failures' \in Nat
    BY DEF AlwaysInv, TypeOK, Begin
  <2> QED
    BY <2>1, <2>2, <2>5, <2>6 DEF TypeOK
<1>4. RegistryMatchesGuards'
  <2> DEFINE G(s) == {u \in guards : snap[u] = s}
             H(s) == {u \in guards' : snap'[u] = s}
  <2>1. /\ DOMAIN held = {snap[u] : u \in guards}
        /\ \A s \in DOMAIN held : held[s] = Cardinality(G(s))
    BY DEF AlwaysInv, RegistryMatchesGuards
  <2>2. DOMAIN held' = {snap'[u] : u \in guards'}
    BY <1>1, <1>2, <2>1
  <2>3. \A s \in DOMAIN held' : held'[s] = Cardinality(H(s))
    <3> TAKE s \in DOMAIN held'
    <3>1. CASE s # next_seq
      <4>1. H(s) = G(s)
        BY <1>1, <3>1
      <4>2. s \in DOMAIN held /\ held'[s] = held[s]
        BY <1>2, <3>1 DEF Begin, Held
      <4> QED
        BY <2>1, <4>1, <4>2
    <3>2. CASE s = next_seq
      <4>1. H(s) = G(s) \cup {t} /\ t \notin G(s)
        BY <1>1, <3>2
      <4>2. IsFiniteSet(G(s)) /\ Cardinality(G(s)) \in Nat
        <5>1. G(s) \subseteq Transactions
          BY DEF guards
        <5> QED
          BY <5>1, TransactionsAssumption, FS_Subset, FS_CardinalityType
      <4>3. Cardinality(H(s)) = Cardinality(G(s)) + 1
        BY <4>1, <4>2, FS_AddElement
      <4>4. CASE s \in DOMAIN held
        BY <2>1, <3>2, <4>3, <4>4 DEF Begin, Held
      <4>5. CASE s \notin DOMAIN held
        <5>1. G(s) = {}
          BY <2>1, <4>5
        <5>2. Cardinality(H(s)) = 1
          BY <4>3, <5>1, FS_EmptySet
        <5> QED
          BY <3>2, <4>5, <5>2 DEF Begin, Held
      <4> QED
        BY <4>4, <4>5
    <3> QED
      BY <3>1, <3>2
  <2> QED
    BY <2>2, <2>3 DEF RegistryMatchesGuards
<1>5. SeqsBounded'
  BY DEF AlwaysInv, SeqsBounded, Begin
<1> QED
  BY <1>3, <1>4, <1>5 DEF AlwaysInv

\* The new snapshot is next_seq, which is anchored.
LEMMA BeginStep ==
    ASSUME CalmInv, NEW t \in Transactions, Begin(t)
    PROVE  CalmInv'
<1>1. /\ guards' = guards \cup {t} /\ next_seq \in Nat
      /\ snap'[t] = next_seq /\ \A u \in guards : snap'[u] = snap[u]
  BY DEF CalmInv, AlwaysInv, TypeOK, Begin, guards
<1>2. AlwaysInv'
  BY BeginAlways DEF CalmInv
<1>5. ListsOrdered'
  BY DEF CalmInv, ListsOrdered, Begin
<1>6. SnapshotsNotAhead' /\ SnapshotsAnchored'
  <2>1. next_seq' = next_seq /\ index' = index
    BY DEF Begin
  <2>2. SnapshotsNotAhead'
    BY <1>1, <2>1 DEF CalmInv, AlwaysInv, SnapshotsNotAhead
  <2>3. \A u \in guards' : snap'[u] = next_seq \/ (u \in guards /\ snap'[u] = snap[u])
    BY <1>1
  <2> QED
    BY <2>1, <2>2, <2>3 DEF CalmInv, AlwaysInv, SnapshotsAnchored, Anchored
<1>7. OverwritesAreSeen' /\ NoLostUpdateEver'
  <2>1. /\ overwritten'[t] = {} /\ status'[t] = "open"
        /\ \A u \in Transactions \ {t} :
              /\ status'[u] = status[u] /\ snap'[u] = snap[u]
              /\ overwritten'[u] = overwritten[u] /\ writes'[u] = writes[u]
    BY DEF CalmInv, AlwaysInv, TypeOK, Begin
  <2>2. index' = index
    BY DEF Begin
  <2>3. OverwritesAreSeen'
    BY <2>1, <2>2 DEF CalmInv, AlwaysInv, OverwritesAreSeen
  <2>4. NoLostUpdateEver'
    BY <2>1 DEF CalmInv, AlwaysInv, NoLostUpdateEver, WriteSet
  <2> QED
    BY <2>3, <2>4
<1> QED
  BY <1>2, <1>5, <1>6, <1>7 DEF CalmInv

\* put and delete touch only the buffer of an open transaction.
LEMMA WriteAlways ==
    ASSUME AlwaysInv, NEW t \in Transactions, NEW k \in Key, NEW v \in Writable, Write(t, k, v)
    PROVE  AlwaysInv'
<1>1. TypeOK'
  BY WritableAssumption DEF AlwaysInv, TypeOK, Write
<1>2. guards' = guards /\ UNCHANGED <<index, held, snap>>
  BY DEF guards, Write
<1> QED
  BY <1>1, <1>2, AlwaysFrame DEF AlwaysInv

\* They change no committed transaction.
LEMMA WriteStep ==
    ASSUME CalmInv, NEW t \in Transactions, NEW k \in Key, NEW v \in Writable, Write(t, k, v)
    PROVE  CalmInv'
<1>1. AlwaysInv'
  BY WriteAlways DEF CalmInv
<1>2. guards' = guards
  BY DEF guards, Write
<1>3. OverwritesAreSeen'
  BY DEF CalmInv, AlwaysInv, OverwritesAreSeen, Write
<1>4. NoLostUpdateEver'
  <2>1. \A u \in Transactions : status'[u] = "committed" => writes'[u] = writes[u]
    BY DEF CalmInv, AlwaysInv, TypeOK, Write
  <2> QED
    BY <2>1 DEF CalmInv, AlwaysInv, NoLostUpdateEver, WriteSet, Write
<1>5. UNCHANGED <<index, next_seq, held, snap>>
  BY DEF Write
<1> QED
  BY <1>1, <1>2, <1>3, <1>4, <1>5, StoreFrame DEF CalmInv

\* commit appends to version lists and leaves the registry alone.
LEMMA CommitAlways ==
    ASSUME AlwaysInv, NEW t \in Transactions, Commit(t)
    PROVE  AlwaysInv'
<1>1. /\ held' = held /\ snap' = snap /\ writes' = writes /\ base' = base
      /\ status[t] = "open" /\ status' = [status EXCEPT ![t] = "committed"]
      /\ overwritten' = [u \in Transactions |->
                           IF u # t /\ status[u] = "open"
                           THEN overwritten[u] \cup WriteSet(t) ELSE overwritten[u]]
  BY DEF Commit
<1>2. /\ status'[t] = "committed"
      /\ \A u \in Transactions \ {t} : status'[u] = status[u]
  BY <1>1 DEF AlwaysInv, TypeOK
<1>3. guards' = guards
  BY <1>1, <1>2 DEF guards
<1>4. TypeOK'
  <2>1. status' \in [Transactions -> {"idle", "open"} \cup Ended]
    BY <1>1 DEF AlwaysInv, TypeOK, Ended
  <2>2. overwritten' \in [Transactions -> SUBSET Key]
    BY <1>1 DEF AlwaysInv, TypeOK, WriteSet
  <2>3. failures' \in Nat
    BY DEF AlwaysInv, TypeOK, Commit
  <2> QED
    BY <1>1, <2>1, <2>2, <2>3, CommitWrites DEF AlwaysInv, TypeOK
<1>5. RegistryMatchesGuards'
  BY <1>1, <1>3 DEF AlwaysInv, RegistryMatchesGuards
<1> QED
  BY <1>4, <1>5, CommitBounded DEF AlwaysInv

\* commit: the conflict check is what keeps NoLostUpdateEver.
LEMMA CommitStep ==
    ASSUME CalmInv, NEW t \in Transactions, Commit(t)
    PROVE  CalmInv'
<1>1. /\ held' = held /\ snap' = snap /\ writes' = writes /\ base' = base
      /\ status[t] = "open" /\ status' = [status EXCEPT ![t] = "committed"]
      /\ overwritten' = [u \in Transactions |->
                           IF u # t /\ status[u] = "open"
                           THEN overwritten[u] \cup WriteSet(t) ELSE overwritten[u]]
  BY DEF Commit
<1>2. /\ status'[t] = "committed"
      /\ \A u \in Transactions \ {t} : status'[u] = status[u]
  BY <1>1 DEF CalmInv, AlwaysInv, TypeOK
<1>3. guards' = guards
  BY <1>1, <1>2 DEF guards
<1>4. AlwaysInv'
  BY CommitAlways DEF CalmInv
<1>6. ListsOrdered'
  BY CommitKeepsOrder
<1>7. \A u \in guards : snap[u] \in Nat /\ snap[u] <= next_seq
  BY DEF CalmInv, AlwaysInv, TypeOK, SnapshotsNotAhead, guards
<1>8. SnapshotsNotAhead'
  <2>1. next_seq \in Nat /\ next_seq' \in Nat /\ next_seq <= next_seq'
    BY CommitEffect DEF CalmInv, AlwaysInv, TypeOK
  <2> QED
    BY <1>1, <1>3, <1>7, <2>1 DEF SnapshotsNotAhead
<1>9. SnapshotsAnchored'
  <2>1. Anchored(next_seq)'
    BY CommitEffect
  <2>2. ASSUME NEW u \in guards, snap[u] # 0
        PROVE  \E k \in Key : \E i \in DOMAIN index'[k] : index'[k][i].seq = snap[u] - 1
    <3>1. PICK k \in Key : \E i \in DOMAIN index[k] : index[k][i].seq = snap[u] - 1
      BY <2>2 DEF CalmInv, AlwaysInv, SnapshotsAnchored, Anchored
    <3>2. PICK i \in DOMAIN index[k] : index[k][i].seq = snap[u] - 1
      BY <3>1
    <3>3. i \in DOMAIN index'[k] /\ index'[k][i] = index[k][i]
      BY CommitExtends
    <3> QED
      BY <3>2, <3>3
  <2> QED
    BY <1>1, <1>3, <2>1, <2>2 DEF SnapshotsAnchored, Anchored
<1>10. OverwritesAreSeen'
  <2> SUFFICES ASSUME NEW u \in Transactions, status'[u] = "open", NEW k \in overwritten'[u]
               PROVE  LatestAtOrAfter(index'[k], snap[u])
    BY <1>1 DEF OverwritesAreSeen
  <2>1. u # t /\ status[u] = "open" /\ u \in guards
    BY <1>2 DEF guards
  <2>2. k \in overwritten[u] \/ k \in WriteSet(t)
    BY <1>1, <2>1
  <2>3. k \in Key
    BY <2>2 DEF CalmInv, AlwaysInv, TypeOK, WriteSet
  <2>4. CASE k \in WriteSet(t)
    BY <1>7, <2>1, <2>3, <2>4, CommitExtends
  <2>5. CASE k \in overwritten[u]
    <3>1. LatestAtOrAfter(index[k], snap[u])
      BY <2>1, <2>5 DEF CalmInv, AlwaysInv, OverwritesAreSeen
    <3> QED
      BY <1>7, <2>1, <2>3, <3>1, CommitExtends
  <2> QED
    BY <2>2, <2>4, <2>5
<1>11. NoLostUpdateEver'
  <2> SUFFICES ASSUME NEW u \in Transactions, status'[u] = "committed"
               PROVE  WriteSet(u) \cap overwritten'[u] = {}
    BY <1>1 DEF NoLostUpdateEver, WriteSet
  <2>1. CASE u = t
    <3>1. \A k \in WriteSet(t) : ~LatestAtOrAfter(index[k], snap[t])
      BY DEF Commit, Stale
    <3>2. \A k \in overwritten[t] : LatestAtOrAfter(index[k], snap[t])
      BY <1>1 DEF CalmInv, AlwaysInv, OverwritesAreSeen
    <3>3. overwritten'[t] = overwritten[t]
      BY <1>1
    <3> QED
      BY <2>1, <3>1, <3>2, <3>3
  <2>2. CASE u # t
    BY <1>1, <1>2, <2>2 DEF CalmInv, AlwaysInv, NoLostUpdateEver
  <2> QED
    BY <2>1, <2>2
<1> QED
  BY <1>4, <1>6, <1>8, <1>9, <1>10, <1>11 DEF CalmInv

\* A commit that fails, or an abort, only changes the transaction's status.
LEMMA EndAlways ==
    ASSUME AlwaysInv, NEW t \in Transactions, Conflict(t) \/ Fail(t) \/ Abort(t)
    PROVE  AlwaysInv'
<1>1. /\ UNCHANGED <<index, next_seq, held, snap, writes, failures, overwritten, base>>
      /\ status[t] = "open"
      /\ \E s \in {"conflicted", "failed", "aborted"} : status' = [status EXCEPT ![t] = s]
  BY DEF Conflict, Fail, Abort
<1>2. /\ status' \in [Transactions -> {"idle", "open"} \cup Ended]
      /\ status'[t] \in {"conflicted", "failed", "aborted"}
      /\ \A u \in Transactions \ {t} : status'[u] = status[u]
  BY <1>1 DEF AlwaysInv, TypeOK, Ended
<1>3. TypeOK'
  BY <1>1, <1>2 DEF AlwaysInv, TypeOK
<1>4. guards' = guards
  BY <1>1, <1>2 DEF guards
<1> QED
  BY <1>1, <1>3, <1>4, AlwaysFrame DEF AlwaysInv

\* It does not make it a committed one.
LEMMA EndStep ==
    ASSUME CalmInv, NEW t \in Transactions, Conflict(t) \/ Fail(t) \/ Abort(t)
    PROVE  CalmInv'
<1>1. /\ UNCHANGED <<index, next_seq, held, snap, writes, overwritten, base>>
      /\ status[t] = "open"
      /\ \E s \in {"conflicted", "failed", "aborted"} : status' = [status EXCEPT ![t] = s]
  BY DEF Conflict, Fail, Abort
<1>2. /\ status' \in [Transactions -> {"idle", "open"} \cup Ended]
      /\ status'[t] \in {"conflicted", "failed", "aborted"}
      /\ \A u \in Transactions \ {t} : status'[u] = status[u]
  BY <1>1 DEF CalmInv, AlwaysInv, TypeOK, Ended
<1>3. AlwaysInv'
  BY EndAlways DEF CalmInv
<1>4. guards' = guards
  BY <1>1, <1>2 DEF guards
<1>5. OverwritesAreSeen'
  BY <1>1, <1>2 DEF CalmInv, AlwaysInv, OverwritesAreSeen
<1>6. NoLostUpdateEver'
  BY <1>1, <1>2 DEF CalmInv, AlwaysInv, NoLostUpdateEver, WriteSet
<1> QED
  BY <1>1, <1>3, <1>4, <1>5, <1>6, StoreFrame DEF CalmInv

\* Dropping a guard takes one from the count of its snapshot, and the entry
\* with the last one.
LEMMA ReleaseAlways ==
    ASSUME AlwaysInv, NEW t \in Transactions, Release(t)
    PROVE  AlwaysInv'
<1>1. /\ DOMAIN held \subseteq Nat /\ held \in [DOMAIN held -> Nat \ {0}]
      /\ t \in guards /\ guards' = guards \ {t}
      /\ \A u \in Transactions \ {t} :
            /\ status'[u] = status[u] /\ snap'[u] = snap[u]
            /\ overwritten'[u] = overwritten[u] /\ writes'[u] = writes[u]
      /\ status'[t] = "idle"
      /\ index' = index /\ next_seq' = next_seq
  BY DEF AlwaysInv, TypeOK, Release, guards, Ended
<1> DEFINE G(s) == {u \in guards : snap[u] = s}
           H(s) == {u \in guards' : snap'[u] = s}
<1>2. /\ DOMAIN held = {snap[u] : u \in guards}
      /\ \A s \in DOMAIN held : held[s] = Cardinality(G(s))
  BY DEF AlwaysInv, RegistryMatchesGuards
<1>3. snap[t] \in DOMAIN held
  BY <1>1, <1>2
<1>4. /\ IsFiniteSet(G(snap[t]) \ {t})
      /\ held[snap[t]] = Cardinality(G(snap[t]) \ {t}) + 1
      /\ Cardinality(G(snap[t]) \ {t}) \in Nat
  <2>1. IsFiniteSet(G(snap[t])) /\ t \in G(snap[t])
    <3>1. G(snap[t]) \subseteq Transactions
      BY DEF guards
    <3> QED
      BY <1>1, <3>1, TransactionsAssumption, FS_Subset
  <2>2. /\ IsFiniteSet(G(snap[t]) \ {t})
        /\ Cardinality(G(snap[t]) \ {t}) = Cardinality(G(snap[t])) - 1
    BY <2>1, FS_RemoveElement
  <2>3. Cardinality(G(snap[t]) \ {t}) \in Nat /\ Cardinality(G(snap[t])) \in Nat
    BY <2>1, <2>2, FS_CardinalityType
  <2> QED
    BY <1>2, <1>3, <2>2, <2>3
<1>5. H(snap[t]) = G(snap[t]) \ {t} /\ \A s : s # snap[t] => H(s) = G(s)
  <2>1. \A u \in guards' : u \in Transactions \ {t} /\ snap'[u] = snap[u]
    BY <1>1 DEF guards
  <2> QED
    BY <1>1, <2>1
<1>6. /\ DOMAIN held' \subseteq DOMAIN held
      /\ \A s \in DOMAIN held : s # snap[t] => s \in DOMAIN held' /\ held'[s] = held[s]
      /\ snap[t] \in DOMAIN held' <=> held[snap[t]] > 1
      /\ held[snap[t]] > 1 => held'[snap[t]] = held[snap[t]] - 1
  <2>1. CASE held[snap[t]] > 1
    <3>1. held' = [held EXCEPT ![snap[t]] = @ - 1]
      BY <1>3, <2>1 DEF Release, Dropped
    <3> QED
      BY <1>1, <1>3, <2>1, <3>1
  <2>2. CASE ~(held[snap[t]] > 1)
    <3>1. held' = [s \in DOMAIN held \ {snap[t]} |-> held[s]]
      BY <2>2 DEF Release, Dropped
    <3> QED
      BY <2>2, <3>1
  <2> QED
    BY <2>1, <2>2
<1>7. TypeOK'
  <2>1. DOMAIN held' \subseteq Nat
    BY <1>1, <1>6
  <2>2. \A s \in DOMAIN held' : held'[s] \in Nat \ {0}
    BY <1>1, <1>4, <1>6
  <2>3. held' = [s \in DOMAIN held' |-> held'[s]]
    BY <1>3 DEF Release, Dropped
  <2>4. held' \in [DOMAIN held' -> Nat \ {0}]
    BY <2>2, <2>3
  <2>5. /\ status' \in [Transactions -> {"idle", "open"} \cup Ended]
        /\ snap' \in [Transactions -> Nat]
        /\ writes' \in [Transactions -> [Key -> Val \cup {None, NoWrite}]]
        /\ overwritten' \in [Transactions -> SUBSET Key]
        /\ base' \in [Transactions -> [Key -> Val \cup {None}]]
        /\ failures' \in Nat
    BY DEF AlwaysInv, TypeOK, Release
  <2> QED
    BY <1>1, <2>1, <2>4, <2>5 DEF AlwaysInv, TypeOK
<1>8. RegistryMatchesGuards'
  <2>1. \A s : s \in DOMAIN held' <=> H(s) # {}
    <3> TAKE s
    <3>1. CASE s # snap[t]
      BY <1>2, <1>5, <1>6, <3>1
    <3>2. CASE s = snap[t]
      <4>1. (G(s) \ {t} = {}) <=> (Cardinality(G(s) \ {t}) = 0)
        BY <1>4, <3>2, FS_EmptySet
      <4>2. held[s] > 1 <=> Cardinality(G(s) \ {t}) # 0
        BY <1>4, <3>2
      <4> QED
        BY <1>5, <1>6, <3>2, <4>1, <4>2
    <3> QED
      BY <3>1, <3>2
  <2>2. DOMAIN held' = {snap'[u] : u \in guards'}
    BY <2>1
  <2>3. \A s \in DOMAIN held' : held'[s] = Cardinality(H(s))
    <3> TAKE s \in DOMAIN held'
    <3>1. CASE s # snap[t]
      BY <1>2, <1>5, <1>6, <3>1
    <3>2. CASE s = snap[t]
      <4>1. held[snap[t]] > 1 /\ held'[s] = held[snap[t]] - 1
        BY <1>6, <3>2
      <4>2. H(s) = G(snap[t]) \ {t}
        BY <1>5, <3>2
      <4> HIDE DEF G, H
      <4> QED
        BY <1>4, <4>1, <4>2
    <3> QED
      BY <3>1, <3>2
  <2> QED
    BY <2>2, <2>3 DEF RegistryMatchesGuards
<1>9. SeqsBounded'
  BY <1>1 DEF AlwaysInv, SeqsBounded
<1> QED
  BY <1>7, <1>8, <1>9 DEF AlwaysInv

\* It disturbs no other transaction.
LEMMA ReleaseStep ==
    ASSUME CalmInv, NEW t \in Transactions, Release(t)
    PROVE  CalmInv'
<1>1. /\ guards' = guards \ {t}
      /\ \A u \in Transactions \ {t} :
            /\ status'[u] = status[u] /\ snap'[u] = snap[u]
            /\ overwritten'[u] = overwritten[u] /\ writes'[u] = writes[u]
      /\ status'[t] = "idle"
      /\ index' = index /\ next_seq' = next_seq
  BY DEF CalmInv, AlwaysInv, TypeOK, Release, guards, Ended
<1>2. AlwaysInv'
  BY ReleaseAlways DEF CalmInv
<1>9. ListsOrdered'
  BY <1>1 DEF CalmInv, ListsOrdered
<1>10. SnapshotsNotAhead' /\ SnapshotsAnchored'
  <2>1. \A u \in guards' : u \in guards /\ snap'[u] = snap[u]
    BY <1>1 DEF guards
  <2> QED
    BY <1>1, <2>1 DEF CalmInv, AlwaysInv, SnapshotsNotAhead, SnapshotsAnchored, Anchored
<1>11. OverwritesAreSeen'
  BY <1>1 DEF CalmInv, AlwaysInv, OverwritesAreSeen
<1>12. NoLostUpdateEver'
  BY <1>1 DEF CalmInv, AlwaysInv, NoLostUpdateEver, WriteSet
<1> QED
  BY <1>2, <1>9, <1>10, <1>11, <1>12 DEF CalmInv

\* compact, and a compact that fails, change nothing but next_seq.
LEMMA CompactAlways ==
    ASSUME AlwaysInv, Compact \/ CompactFails
    PROVE  AlwaysInv'
<1>1. UNCHANGED <<index, held, status, snap, writes, overwritten, base>>
  BY DEF Compact, CompactFails
<1>2. guards' = guards
  BY <1>1 DEF guards
<1>a. AllSeqs \subseteq Nat
  BY ListFacts DEF AlwaysInv, TypeOK, AllSeqs
<1>3. next_seq' \in Nat
  BY <1>a, RecomputedType DEF Compact, CompactFails
<1>4. failures' \in Nat
  BY DEF AlwaysInv, TypeOK, Compact, CompactFails
<1>5. TypeOK'
  BY <1>1, <1>3, <1>4 DEF AlwaysInv, TypeOK
<1> QED
  BY <1>1, <1>2, <1>5, AlwaysFrame DEF AlwaysInv

\* compact leaves the index alone and next_seq at or above every snapshot.
LEMMA CompactStep ==
    ASSUME CalmInv, failures = 0, Compact
    PROVE  CalmInv'
<1>1. UNCHANGED <<index, held, status, snap, writes, overwritten, base>>
  BY DEF Compact
<1>2. guards' = guards
  BY <1>1 DEF guards
<1>3. AlwaysInv'
  BY CompactAlways DEF CalmInv
<1>5. ListsOrdered'
  BY <1>1 DEF CalmInv, ListsOrdered
<1>6. SnapshotsNotAhead'
  BY <1>1, <1>2, CompactEffect DEF SnapshotsNotAhead
<1>7. SnapshotsAnchored'
  BY <1>1, <1>2, CompactEffect DEF CalmInv, AlwaysInv, SnapshotsAnchored, Anchored
<1>8. OverwritesAreSeen' /\ NoLostUpdateEver'
  BY <1>1 DEF CalmInv, AlwaysInv, OverwritesAreSeen, NoLostUpdateEver, WriteSet
<1> QED
  BY <1>3, <1>5, <1>6, <1>7, <1>8 DEF CalmInv

\* A step that changes nothing.
LEMMA StutterAlways ==
    ASSUME AlwaysInv, UNCHANGED vars
    PROVE  AlwaysInv'
<1>1. UNCHANGED <<index, next_seq, held, status, snap, writes, failures, overwritten, base>>
  BY DEF vars
<1>2. guards' = guards /\ TypeOK'
  BY <1>1 DEF guards, AlwaysInv, TypeOK
<1> QED
  BY <1>1, <1>2, AlwaysFrame DEF AlwaysInv

LEMMA StutterStep ==
    ASSUME CalmInv, UNCHANGED vars
    PROVE  CalmInv'
<1>1. UNCHANGED <<index, next_seq, held, status, snap, writes, overwritten, base>>
  BY DEF vars
<1>2. guards' = guards /\ AlwaysInv'
  BY <1>1, StutterAlways DEF guards, CalmInv
<1>3. OverwritesAreSeen' /\ NoLostUpdateEver'
  BY <1>1 DEF CalmInv, OverwritesAreSeen, NoLostUpdateEver, WriteSet
<1> QED
  BY <1>1, <1>2, <1>3, StoreFrame DEF CalmInv

\* What no failure disturbs is preserved by every step.
LEMMA AlwaysStep ==
    ASSUME AlwaysInv, [Next]_vars
    PROVE  AlwaysInv'
<1>1. ASSUME NEW t \in Transactions, Begin(t) PROVE AlwaysInv'
  BY <1>1, BeginAlways
<1>2. ASSUME NEW t \in Transactions, Commit(t) PROVE AlwaysInv'
  BY <1>2, CommitAlways
<1>3. ASSUME NEW t \in Transactions, Conflict(t) \/ Fail(t) \/ Abort(t) PROVE AlwaysInv'
  BY <1>3, EndAlways
<1>4. ASSUME NEW t \in Transactions, Release(t) PROVE AlwaysInv'
  BY <1>4, ReleaseAlways
<1>5. ASSUME NEW t \in Transactions, NEW k \in Key, NEW v \in Writable, Write(t, k, v)
      PROVE  AlwaysInv'
  BY <1>5, WriteAlways
<1>6. ASSUME Compact \/ CompactFails PROVE AlwaysInv'
  BY <1>6, CompactAlways
<1>7. ASSUME UNCHANGED vars PROVE AlwaysInv'
  BY <1>7, StutterAlways
<1> QED
  BY <1>1, <1>2, <1>3, <1>4, <1>5, <1>6, <1>7 DEF Next

\* A step after which no compact has failed comes from a state in which none
\* had, and is not one that fails.
LEMMA StillCalm ==
    ASSUME AlwaysInv, [Next]_vars, failures' = 0
    PROVE  failures = 0 /\ ~CompactFails
<1>1. failures \in Nat
  BY DEF AlwaysInv, TypeOK
<1>2. ~CompactFails
  BY <1>1 DEF CompactFails
<1> QED
  BY <1>2 DEF Next, Begin, Commit, Conflict, Fail, Abort, Release, Write, Compact, vars

\* What holds until a compact fails is preserved by every other step.
LEMMA CalmStep ==
    ASSUME CalmInv, [Next]_vars, failures' = 0
    PROVE  CalmInv'
<1>1. failures = 0 /\ ~CompactFails
  BY StillCalm DEF CalmInv
<1>2. ASSUME NEW t \in Transactions, Begin(t) PROVE CalmInv'
  BY <1>2, BeginStep
<1>3. ASSUME NEW t \in Transactions, Commit(t) PROVE CalmInv'
  BY <1>3, CommitStep
<1>4. ASSUME NEW t \in Transactions, Conflict(t) \/ Fail(t) \/ Abort(t) PROVE CalmInv'
  BY <1>4, EndStep
<1>5. ASSUME NEW t \in Transactions, Release(t) PROVE CalmInv'
  BY <1>5, ReleaseStep
<1>6. ASSUME NEW t \in Transactions, NEW k \in Key, NEW v \in Writable, Write(t, k, v)
      PROVE  CalmInv'
  BY <1>6, WriteStep
<1>7. ASSUME Compact PROVE CalmInv'
  BY <1>1, <1>7, CompactStep
<1>8. ASSUME UNCHANGED vars PROVE CalmInv'
  BY <1>8, StutterStep
<1> QED
  BY <1>1, <1>2, <1>3, <1>4, <1>5, <1>6, <1>7, <1>8 DEF Next

-----------------------------------------------------------------------------
(* Theorems.                                                               *)

\* The inductive invariant holds in every reachable state, those after a
\* compact that failed included.
THEOREM Invariance == Spec => []IInv
<1>1. Init => IInv
  BY InitCalm DEF IInv, CalmInv
<1>2. IInv /\ [Next]_vars => IInv'
  <2> SUFFICES ASSUME IInv, [Next]_vars PROVE IInv'
    OBVIOUS
  <2>1. AlwaysInv'
    BY AlwaysStep DEF IInv
  <2>2. failures' = 0 => CalmInv'
    BY StillCalm, CalmStep DEF IInv
  <2> QED
    BY <2>1, <2>2 DEF IInv
<1> QED
  BY <1>1, <1>2, PTL DEF Spec

\* Type correctness of the transactional store.
THEOREM TypeCorrect == Spec => []TypeOK
<1>1. IInv => TypeOK
  BY DEF IInv, AlwaysInv
<1> QED
  BY <1>1, Invariance, PTL

\* First committer wins: txn.rs commit loses no update until a compact fails.
THEOREM FirstCommitterWins == Spec => []NoLostUpdate
<1>1. IInv => NoLostUpdate
  BY DEF IInv, CalmInv, NoLostUpdate
<1> QED
  BY <1>1, Invariance, PTL

\* The registry of held snapshots and the live guards agree (store.rs).
THEOREM RegistryCorrect == Spec => []RegistryMatchesGuards
<1>1. IInv => RegistryMatchesGuards
  BY DEF IInv, AlwaysInv
<1> QED
  BY <1>1, Invariance, PTL

\* Version lists stay in commit order, compactions included, until one fails
\* (store.rs).
THEOREM CommitOrder == Spec => []VersionsInCommitOrder
<1>1. IInv => VersionsInCommitOrder
  BY DEF IInv, CalmInv, VersionsInCommitOrder
<1> QED
  BY <1>1, Invariance, PTL

\* What one step does to the reads of an open transaction.
LEMMA StepKeepsReads ==
    ASSUME CalmInv, [Next]_vars, ~CompactFails, NEW t \in Transactions, NEW k \in Key,
           status[t] = "open", status'[t] = "open", writes'[t][k] = writes[t][k]
    PROVE  Read(t, k)' = Read(t, k)
<1>1. snap'[t] = snap[t]
  <2>1. CASE Begin(t) \/ Release(t)
    BY <2>1 DEF Begin, Release, Ended
  <2>2. CASE ~(Begin(t) \/ Release(t))
    BY <2>2 DEF CalmInv, AlwaysInv, TypeOK, Next, Begin, Release, Commit, Conflict, Fail, Abort, Write,
                Compact, vars
  <2> QED
    BY <2>1, <2>2
<1>2. GetAt(index'[k], snap[t]) = GetAt(index[k], snap[t])
  <2>1. CASE \E u \in Transactions : Commit(u)
    <3>1. PICK u \in Transactions : Commit(u)
      BY <2>1
    <3>2. CASE k \notin WriteSet(u)
      BY <3>1, <3>2, CommitEffect
    <3>3. CASE k \in WriteSet(u)
      <4>1. PICK v \in Version : index'[k] = Append(index[k], v) /\ next_seq <= v.seq
        BY <3>1, <3>3, CommitEffect
      <4>2. /\ snap[t] <= next_seq /\ snap[t] \in Nat /\ next_seq \in Nat
            /\ index[k] \in Seq(Version) /\ v.seq \in Nat
        BY DEF CalmInv, AlwaysInv, TypeOK, SnapshotsNotAhead, guards, Version
      <4> QED
        BY <4>1, <4>2, AppendKeepsGetAt
    <3> QED
      BY <3>2, <3>3
  <2>2. CASE ~(\E u \in Transactions : Commit(u))
    BY <2>2 DEF Next, Begin, Release, Conflict, Fail, Abort, Write, Compact, vars
  <2> QED
    BY <2>1, <2>2
<1> QED
  BY <1>1, <1>2 DEF Read

\* No step of anybody, compaction included, changes what an open
\* transaction reads (txn.rs begin and get), until a compact fails.
THEOREM StableReads == Spec => ReadsAreStable
<1>1. IInv /\ [Next]_vars =>
        [failures' = 0 =>
          \A t \in Transactions, k \in Key :
            (status[t] = "open" /\ status'[t] = "open" /\ writes'[t][k] = writes[t][k])
               => Read(t, k)' = Read(t, k)]_vars
  <2> SUFFICES ASSUME IInv, [Next]_vars, failures' = 0,
                      NEW t \in Transactions, NEW k \in Key, status[t] = "open",
                      status'[t] = "open", writes'[t][k] = writes[t][k]
               PROVE  Read(t, k)' = Read(t, k)
    OBVIOUS
  <2>1. CalmInv /\ ~CompactFails
    BY StillCalm DEF IInv
  <2> QED
    BY <2>1, StepKeepsReads
<1> QED
  BY <1>1, Invariance, PTL DEF Spec, ReadsAreStable

-----------------------------------------------------------------------------
(* Clients that never delete: the store is snapshot isolated.              *)

\* What get reads of a list is a value, or None when there is no version.
LEMMA GetType ==
    ASSUME NEW vs \in Seq(Version)
    PROVE  Get(vs) \in Val \cup {None}
<1>1. CASE vs = <<>>
  BY <1>1 DEF Get
<1>2. CASE vs # <<>>
  <2>1. vs[Len(vs)] \in Version
    BY <1>2, ListFacts
  <2> QED
    BY <1>2, <2>1 DEF Get, Version
<1> QED
  BY <1>1, <1>2

\* A write is what get reads next.
LEMMA GetAppended ==
    ASSUME NEW vs \in Seq(Version), NEW v \in Version
    PROVE  Get(Append(vs, v)) = v.value
<1>1. /\ Len(Append(vs, v)) = Len(vs) + 1 /\ Append(vs, v)[Len(vs) + 1] = v
      /\ Append(vs, v) # <<>>
  BY AppendProperties
<1> QED
  BY <1>1 DEF Get

\* A snapshot taken now is above every version: it reads what get reads, and
\* nothing is stale for it.
LEMMA NewSnapshotReadsLatest ==
    ASSUME CalmInv, SeqsBelowNext, NEW k \in Key
    PROVE  GetAt(index[k], next_seq) = Get(index[k]) /\ ~LatestAtOrAfter(index[k], next_seq)
<1>1. /\ index[k] \in Seq(Version) /\ next_seq \in Nat
      /\ \A i \in DOMAIN index[k] : index[k][i].seq < next_seq
  BY DEF CalmInv, AlwaysInv, TypeOK, SeqsBelowNext
<1>2. GetAt(index[k], next_seq) = Get(index[k])
  BY <1>1, GetAtAboveAll
<1>3. ~LatestAtOrAfter(index[k], next_seq)
  <2>1. index[k] # <<>> => Len(index[k]) \in DOMAIN index[k] /\ index[k][Len(index[k])].seq \in Nat
    BY <1>1, ListFacts
  <2> QED
    BY <1>1, <2>1 DEF LatestAtOrAfter
<1> QED
  BY <1>2, <1>3

\* A commit adds versions at or above every held snapshot.
LEMMA CommitKeepsSnapshots ==
    ASSUME CalmInv, NEW t \in Transactions, Commit(t), NEW u \in guards, NEW k \in Key
    PROVE  GetAt(index'[k], snap[u]) = GetAt(index[k], snap[u])
<1>1. snap[u] <= next_seq /\ snap[u] \in Nat /\ next_seq \in Nat /\ index[k] \in Seq(Version)
  BY DEF CalmInv, AlwaysInv, TypeOK, SnapshotsNotAhead, guards
<1>2. CASE k \notin WriteSet(t)
  BY <1>2, CommitEffect
<1>3. CASE k \in WriteSet(t)
  <2>1. PICK v \in Version : index'[k] = Append(index[k], v) /\ next_seq <= v.seq
    BY <1>3, CommitEffect
  <2>2. v.seq \in Nat
    BY DEF Version
  <2> QED
    BY <1>1, <2>1, <2>2, AppendKeepsGetAt
<1> QED
  BY <1>2, <1>3

\* What get reads after a commit.
LEMMA CommitInstalls ==
    ASSUME CalmInv, NEW t \in Transactions, Commit(t), NEW k \in Key
    PROVE  /\ Get(index'[k]) = IF k \in WriteSet(t) THEN writes[t][k] ELSE Get(index[k])
           /\ k \in WriteSet(t) => index'[k] # <<>>
<1>1. index[k] \in Seq(Version)
  BY DEF CalmInv, AlwaysInv, TypeOK
<1>2. CASE k \notin WriteSet(t)
  BY <1>2, CommitEffect
<1>3. CASE k \in WriteSet(t)
  <2>1. PICK v \in Version : index'[k] = Append(index[k], v) /\ v.value = writes[t][k]
    BY <1>3, CommitEffect
  <2> QED
    BY <1>1, <1>3, <2>1, GetAppended, AppendProperties
<1> QED
  BY <1>2, <1>3

-----------------------------------------------------------------------------
(* The invariant, action by action.                                        *)

\* Store::open leaves no tombstone and computes next_seq above every version.
LEMMA InitPutsInv ==
    ASSUME PutsOnly, Init
    PROVE  PutsInv
<1> USE DEF Init
<1> DEFINE S == UNION {{index[k][i].seq : i \in DOMAIN index[k]} : k \in Key}
<1>1. index \in [Key -> Seq(Version)] /\ SeqsBounded
  BY RecoveredAssumption DEF SeqsBounded
<1>2. S \in SUBSET Nat /\ \A s \in S : s <= MaxSeq
  <2> SUFFICES ASSUME NEW k \in Key, NEW i \in DOMAIN index[k]
               PROVE  index[k][i].seq \in Nat /\ index[k][i].seq <= MaxSeq
    OBVIOUS
  <2> QED
    BY <1>1, ListFacts, MaxSeqAssumption DEF SeqsBounded
<1>3. \A s \in S : s < next_seq
  BY <1>2, NextSeqIsAbove, MaxSeqAssumption
<1>4. \A k \in Key : \A i \in DOMAIN index[k] : index[k][i].seq < next_seq
  BY <1>3
<1>5. SeqsBelowNext
  <2>1. \A k \in Key : index[k] # <<>> => Get(index[k]) # None
    BY DEF PutsOnly
  <2>2. \A t \in Transactions, k \in Key : writes[t][k] # None
    BY WritableAssumption
  <2> QED
    BY <1>4, <2>1, <2>2 DEF SeqsBelowNext
<1> QED
  BY <1>5 DEF PutsInv, StaleMeansOverwritten, IdleIsClean, SnapshotsFaithful, ConflictsJustified

\* begin: the new snapshot is the state of the store.
LEMMA BeginPuts ==
    ASSUME CalmInv, PutsInv, NEW t \in Transactions, Begin(t)
    PROVE  PutsInv'
<1>1. /\ status'[t] = "open" /\ snap'[t] = next_seq /\ overwritten'[t] = {}
      /\ base'[t] = [k \in Key |-> Get(index[k])]
      /\ writes'[t] = [k \in Key |-> NoWrite]
      /\ index' = index /\ next_seq' = next_seq
      /\ \A u \in Transactions \ {t} :
            /\ status'[u] = status[u] /\ snap'[u] = snap[u] /\ base'[u] = base[u]
            /\ overwritten'[u] = overwritten[u] /\ writes'[u] = writes[u]
  BY DEF CalmInv, AlwaysInv, TypeOK, Begin
<1>2. \A k \in Key : /\ GetAt(index[k], next_seq) = Get(index[k])
                     /\ ~LatestAtOrAfter(index[k], next_seq)
  BY NewSnapshotReadsLatest DEF PutsInv
<1>3. SeqsBelowNext'
  <2>1. \A u \in Transactions, k \in Key : writes'[u][k] # None
    BY <1>1, WritableAssumption DEF PutsInv, SeqsBelowNext
  <2> QED
    BY <1>1, <2>1 DEF PutsInv, SeqsBelowNext
<1>4. StaleMeansOverwritten'
  BY <1>1, <1>2 DEF PutsInv, StaleMeansOverwritten
<1>5. IdleIsClean'
  BY <1>1 DEF PutsInv, IdleIsClean
<1>6. SnapshotsFaithful'
  BY <1>1, <1>2 DEF PutsInv, SnapshotsFaithful
<1>7. ConflictsJustified'
  <2>1. \A u \in Transactions \ {t} : WriteSet(u)' = WriteSet(u)
    BY <1>1 DEF WriteSet
  <2> QED
    BY <1>1, <2>1 DEF PutsInv, ConflictsJustified
<1> QED
  BY <1>3, <1>4, <1>5, <1>6, <1>7 DEF PutsInv

\* put buffers a value.
LEMMA WritePuts ==
    ASSUME PutsOnly, CalmInv, PutsInv, NEW t \in Transactions, NEW k \in Key,
           NEW v \in Writable, Write(t, k, v)
    PROVE  PutsInv'
<1>1. /\ UNCHANGED <<index, next_seq, held, status, snap, overwritten, base>>
      /\ status[t] = "open"
      /\ \A u \in Transactions \ {t} : writes'[u] = writes[u]
      /\ \A j \in Key : writes'[t][j] = IF j = k THEN v ELSE writes[t][j]
  BY DEF CalmInv, AlwaysInv, TypeOK, Write
<1>2. SeqsBelowNext'
  <2>1. \A u \in Transactions, j \in Key : writes'[u][j] # None
    BY <1>1 DEF PutsInv, SeqsBelowNext, PutsOnly
  <2> QED
    BY <1>1, <2>1 DEF PutsInv, SeqsBelowNext
<1>3. StaleMeansOverwritten' /\ SnapshotsFaithful'
  BY <1>1 DEF PutsInv, StaleMeansOverwritten, SnapshotsFaithful
<1>4. IdleIsClean'
  BY <1>1 DEF PutsInv, IdleIsClean
<1>5. ConflictsJustified'
  <2>1. \A u \in Transactions : status'[u] = "conflicted" => WriteSet(u)' = WriteSet(u)
    BY <1>1 DEF WriteSet
  <2> QED
    BY <1>1, <2>1 DEF PutsInv, ConflictsJustified
<1> QED
  BY <1>2, <1>3, <1>4, <1>5 DEF PutsInv

\* commit numbers its versions from next_seq on, and next_seq passes them.
LEMMA CommitPuts ==
    ASSUME CalmInv, PutsInv, NEW t \in Transactions, Commit(t)
    PROVE  PutsInv'
<1>1. /\ snap' = snap /\ writes' = writes /\ base' = base
      /\ status[t] = "open" /\ status'[t] = "committed"
      /\ overwritten'[t] = overwritten[t]
      /\ \A u \in Transactions \ {t} :
            /\ status'[u] = status[u]
            /\ overwritten'[u] = IF status[u] = "open" THEN overwritten[u] \cup WriteSet(t)
                                 ELSE overwritten[u]
  BY DEF CalmInv, AlwaysInv, TypeOK, Commit
<1>2. SeqsBelowNext'
  <2>1. \A k \in Key : index'[k] # <<>> => Get(index'[k]) # None
    <3> SUFFICES ASSUME NEW k \in Key, index'[k] # <<>> PROVE Get(index'[k]) # None
      OBVIOUS
    <3>1. CASE k \in WriteSet(t)
      BY <3>1, CommitInstalls DEF PutsInv, SeqsBelowNext
    <3>2. CASE k \notin WriteSet(t)
      BY <3>2, CommitEffect DEF PutsInv, SeqsBelowNext
    <3> QED
      BY <3>1, <3>2
  <2>2. ASSUME NEW k \in Key, NEW i \in DOMAIN index'[k]
        PROVE  index'[k][i].seq < next_seq'
    <3>1. /\ next_seq \in Nat /\ next_seq' \in Nat /\ next_seq <= next_seq'
          /\ index[k] \in Seq(Version)
          /\ \A j \in DOMAIN index[k] : index[k][j].seq \in Nat /\ index[k][j].seq < next_seq
      BY CommitEffect, ListFacts DEF CalmInv, AlwaysInv, TypeOK, PutsInv, SeqsBelowNext
    <3>2. CASE k \notin WriteSet(t)
      <4>1. index'[k] = index[k]
        BY <3>2, CommitEffect
      <4> QED
        BY <2>2, <3>1, <4>1
    <3>3. CASE k \in WriteSet(t)
      <4>1. PICK v \in Version : index'[k] = Append(index[k], v) /\ v.seq < next_seq'
        BY <3>3, CommitEffect
      <4>2. /\ Append(index[k], v) \in Seq(Version)
            /\ Len(Append(index[k], v)) = Len(index[k]) + 1
            /\ \A j \in 1..Len(index[k]) : Append(index[k], v)[j] = index[k][j]
            /\ Append(index[k], v)[Len(index[k]) + 1] = v
        BY <3>1, AppendProperties
      <4>3. i \in 1..(Len(index[k]) + 1) /\ Len(index[k]) \in Nat /\ DOMAIN index[k] = 1..Len(index[k])
        BY <2>2, <3>1, <4>1, <4>2, ListFacts
      <4>4. CASE i = Len(index[k]) + 1
        BY <4>1, <4>2, <4>4
      <4>5. CASE i # Len(index[k]) + 1
        <5>1. i \in DOMAIN index[k] /\ index'[k][i] = index[k][i]
          BY <4>1, <4>2, <4>3, <4>5
        <5> QED
          BY <3>1, <5>1
      <4> QED
        BY <4>4, <4>5
    <3> QED
      BY <3>2, <3>3
  <2> QED
    BY <1>1, <2>1, <2>2 DEF PutsInv, SeqsBelowNext
<1>3. StaleMeansOverwritten'
  <2> SUFFICES ASSUME NEW u \in Transactions, NEW k \in Key, status'[u] = "open",
                      LatestAtOrAfter(index'[k], snap[u])
               PROVE  k \in overwritten'[u]
    BY <1>1 DEF StaleMeansOverwritten
  <2>1. u # t /\ status[u] = "open"
    BY <1>1
  <2>2. CASE k \in WriteSet(t)
    BY <1>1, <2>1, <2>2
  <2>3. CASE k \notin WriteSet(t)
    <3>1. index'[k] = index[k]
      BY <2>3, CommitEffect
    <3>2. k \in overwritten[u]
      BY <2>1, <3>1 DEF PutsInv, StaleMeansOverwritten
    <3> QED
      BY <1>1, <2>1, <3>2
  <2> QED
    BY <2>2, <2>3
<1>4. IdleIsClean'
  BY <1>1 DEF PutsInv, IdleIsClean
<1>5. SnapshotsFaithful'
  <2>1. \A u \in Transactions, k \in Key : status[u] = "open" =>
           GetAt(index'[k], snap[u]) = GetAt(index[k], snap[u])
    BY CommitKeepsSnapshots DEF guards
  <2> QED
    BY <1>1, <2>1 DEF PutsInv, SnapshotsFaithful
<1>6. ConflictsJustified'
  BY <1>1 DEF PutsInv, ConflictsJustified, WriteSet
<1> QED
  BY <1>2, <1>3, <1>4, <1>5, <1>6 DEF PutsInv

\* A refused commit or an abort: a conflict is one with a later commit.
LEMMA EndPuts ==
    ASSUME CalmInv, PutsInv, NEW t \in Transactions, Conflict(t) \/ Fail(t) \/ Abort(t)
    PROVE  PutsInv'
<1>1. /\ UNCHANGED <<index, next_seq, held, snap, writes, overwritten, base>>
      /\ status[t] = "open" /\ status'[t] \in {"conflicted", "failed", "aborted"}
      /\ \A u \in Transactions \ {t} : status'[u] = status[u]
  BY DEF CalmInv, AlwaysInv, TypeOK, Conflict, Fail, Abort
<1>2. SeqsBelowNext' /\ StaleMeansOverwritten' /\ IdleIsClean' /\ SnapshotsFaithful'
  BY <1>1 DEF PutsInv, SeqsBelowNext, StaleMeansOverwritten, IdleIsClean, SnapshotsFaithful
<1>3. ConflictsJustified'
  <2>1. status'[t] = "conflicted" => \E k \in WriteSet(t) : LatestAtOrAfter(index[k], snap[t])
    BY <1>1 DEF CalmInv, AlwaysInv, TypeOK, Conflict, Fail, Abort, Stale
  <2>2. status'[t] = "conflicted" => WriteSet(t) \cap overwritten[t] # {}
    BY <1>1, <2>1 DEF PutsInv, StaleMeansOverwritten, WriteSet
  <2>3. \A u \in Transactions : WriteSet(u)' = WriteSet(u)
    BY <1>1 DEF WriteSet
  <2> QED
    BY <1>1, <2>2, <2>3 DEF PutsInv, ConflictsJustified
<1> QED
  BY <1>2, <1>3 DEF PutsInv

\* Dropping the guard resets the transaction.
LEMMA ReleasePuts ==
    ASSUME CalmInv, PutsInv, NEW t \in Transactions, Release(t)
    PROVE  PutsInv'
<1>1. /\ index' = index /\ next_seq' = next_seq
      /\ status'[t] = "idle" /\ overwritten'[t] = {}
      /\ writes'[t] = [k \in Key |-> NoWrite] /\ base'[t] = [k \in Key |-> None]
      /\ \A u \in Transactions \ {t} :
            /\ status'[u] = status[u] /\ snap'[u] = snap[u] /\ base'[u] = base[u]
            /\ overwritten'[u] = overwritten[u] /\ writes'[u] = writes[u]
  BY DEF CalmInv, AlwaysInv, TypeOK, Release
<1>2. SeqsBelowNext'
  <2>1. \A u \in Transactions, k \in Key : writes'[u][k] # None
    BY <1>1, WritableAssumption DEF PutsInv, SeqsBelowNext
  <2> QED
    BY <1>1, <2>1 DEF PutsInv, SeqsBelowNext
<1>3. StaleMeansOverwritten' /\ IdleIsClean' /\ SnapshotsFaithful'
  BY <1>1 DEF PutsInv, StaleMeansOverwritten, IdleIsClean, SnapshotsFaithful
<1>4. ConflictsJustified'
  <2>1. \A u \in Transactions \ {t} : WriteSet(u)' = WriteSet(u)
    BY <1>1 DEF WriteSet
  <2> QED
    BY <1>1, <2>1 DEF PutsInv, ConflictsJustified
<1> QED
  BY <1>2, <1>3, <1>4 DEF PutsInv

\* compact keeps the last version of every key, so next_seq stays above all.
LEMMA CompactPuts ==
    ASSUME CalmInv, failures = 0, PutsInv, Compact
    PROVE  PutsInv'
<1>1. UNCHANGED <<index, held, status, snap, writes, overwritten, base>>
  BY DEF Compact
<1>2. \A k \in Key : \A i \in DOMAIN index[k] : index[k][i].seq < next_seq'
  <2> SUFFICES ASSUME NEW k \in Key, NEW i \in DOMAIN index[k]
               PROVE  index[k][i].seq < next_seq'
    OBVIOUS
  <2>1. /\ index[k] \in Seq(Version) /\ OrderedList(index[k])
        /\ Len(index[k]) \in Nat /\ DOMAIN index[k] = 1..Len(index[k])
        /\ \A j \in DOMAIN index[k] : index[k][j].seq \in Nat
        /\ next_seq' \in Nat
    BY CompactEffect, ListFacts DEF CalmInv, AlwaysInv, TypeOK, ListsOrdered
  <2>2. index[k] # <<>> /\ Len(index[k]) \in DOMAIN index[k]
    BY <2>1, EmptySeq, ListFacts
  <2>3. Len(index[k]) \in Kept(k)
    <3>1. CASE DOMAIN held = {}
      <4>1. index[k][Len(index[k])].value # None
        BY <2>2 DEF PutsInv, SeqsBelowNext, Get
      <4> QED
        BY <2>2, <3>1, <4>1 DEF Kept, KeptUnguarded
    <3>2. CASE DOMAIN held # {}
      <4>1. SmallestOf(DOMAIN held) \in Nat
        BY <3>2, SmallestOfIsSmallest DEF CalmInv, AlwaysInv, TypeOK
      <4> QED
        BY <2>1, <2>2, <3>2, <4>1, KeptFromLast DEF Kept
    <3> QED
      BY <3>1, <3>2
  <2>4. index[k][Len(index[k])].seq < next_seq'
    BY <2>3, CompactEffect
  <2>5. index[k][i].seq <= index[k][Len(index[k])].seq
    BY <2>1, <2>2 DEF OrderedList
  <2> QED
    BY <2>1, <2>2, <2>4, <2>5
<1>3. SeqsBelowNext'
  BY <1>1, <1>2 DEF PutsInv, SeqsBelowNext
<1>4. StaleMeansOverwritten' /\ IdleIsClean' /\ SnapshotsFaithful'
  BY <1>1 DEF PutsInv, StaleMeansOverwritten, IdleIsClean, SnapshotsFaithful
<1>5. ConflictsJustified'
  BY <1>1 DEF PutsInv, ConflictsJustified, WriteSet
<1> QED
  BY <1>3, <1>4, <1>5 DEF PutsInv

\* A step that changes nothing.
LEMMA StutterPuts ==
    ASSUME PutsInv, UNCHANGED vars
    PROVE  PutsInv'
<1>1. UNCHANGED <<index, next_seq, held, status, snap, writes, overwritten, base>>
  BY DEF vars
<1>2. SeqsBelowNext' /\ StaleMeansOverwritten' /\ IdleIsClean' /\ SnapshotsFaithful'
  BY <1>1 DEF PutsInv, SeqsBelowNext, StaleMeansOverwritten, IdleIsClean, SnapshotsFaithful
<1>3. ConflictsJustified'
  BY <1>1 DEF PutsInv, ConflictsJustified, WriteSet
<1> QED
  BY <1>2, <1>3 DEF PutsInv

\* The invariant of clients that never delete, until a compact fails.
THEOREM PutsInvariance ==
    ASSUME PutsOnly
    PROVE  Spec => [](IInv /\ (failures = 0 => PutsInv))
<1>1. Init => IInv /\ (failures = 0 => PutsInv)
  BY InitCalm, InitPutsInv DEF IInv, CalmInv
<1>2. IInv /\ (failures = 0 => PutsInv) /\ [Next]_vars => (failures = 0 => PutsInv)'
  <2> SUFFICES ASSUME IInv, failures = 0 => PutsInv, [Next]_vars, failures' = 0
               PROVE  PutsInv'
    OBVIOUS
  <2>a. failures = 0 /\ ~CompactFails /\ CalmInv /\ PutsInv
    BY StillCalm DEF IInv
  <2>1. ASSUME NEW t \in Transactions, Begin(t) PROVE PutsInv'
    BY <2>a, <2>1, BeginPuts
  <2>2. ASSUME NEW t \in Transactions, Commit(t) PROVE PutsInv'
    BY <2>a, <2>2, CommitPuts
  <2>3. ASSUME NEW t \in Transactions, Conflict(t) \/ Fail(t) \/ Abort(t) PROVE PutsInv'
    BY <2>a, <2>3, EndPuts
  <2>4. ASSUME NEW t \in Transactions, Release(t) PROVE PutsInv'
    BY <2>a, <2>4, ReleasePuts
  <2>5. ASSUME NEW t \in Transactions, NEW k \in Key, NEW v \in Writable, Write(t, k, v)
        PROVE  PutsInv'
    BY <2>a, <2>5, WritePuts
  <2>6. ASSUME Compact PROVE PutsInv'
    BY <2>a, <2>6, CompactPuts
  <2>7. ASSUME UNCHANGED vars PROVE PutsInv'
    BY <2>a, <2>7, StutterPuts
  <2> QED
    BY <2>a, <2>1, <2>2, <2>3, <2>4, <2>5, <2>6, <2>7 DEF Next
<1> QED
  BY <1>1, <1>2, Invariance, PTL DEF Spec

\* "The transaction sees exactly the state as of this call" (txn.rs begin)
\* is so for clients that never delete, until a compact fails.
THEOREM SnapshotAtBegin ==
    ASSUME PutsOnly
    PROVE  Spec => []SnapshotIsStateAtBegin
<1>1. (failures = 0 => PutsInv) => SnapshotIsStateAtBegin
  BY DEF PutsInv, SnapshotIsStateAtBegin
<1> QED
  BY <1>1, PutsInvariance, PTL

\* So is what txn.rs commit says of a conflict: another transaction committed
\* a key this one wrote after this one's snapshot was taken.
THEOREM ConflictsAreReal ==
    ASSUME PutsOnly
    PROVE  Spec => []ConflictIsReal
<1>1. (failures = 0 => PutsInv) => ConflictIsReal
  BY DEF PutsInv, ConflictIsReal
<1> QED
  BY <1>1, PutsInvariance, PTL
-----------------------------------------------------------------------------
(* The refinement, step by step.                                           *)

\* The copy of a transaction, open or not, is what it found at begin.
LEMMA CopyIsBase == CalmInv /\ PutsInv => copy = base
<1> SUFFICES ASSUME CalmInv, PutsInv PROVE copy = base
  OBVIOUS
<1>1. \A t \in Transactions : base[t] = [k \in Key |-> base[t][k]]
  BY DEF CalmInv, AlwaysInv, TypeOK
<1>2. ASSUME NEW t \in Transactions, status[t] = "open"
      PROVE  [k \in Key |-> GetAt(index[k], snap[t])] = base[t]
  <2>1. \A k \in Key : GetAt(index[k], snap[t]) = base[t][k]
    BY <1>2 DEF PutsInv, SnapshotsFaithful
  <2> QED
    BY <1>1, <2>1
<1>3. base = [t \in Transactions |-> base[t]]
  BY DEF CalmInv, AlwaysInv, TypeOK
<1> QED
  BY <1>2, <1>3 DEF copy

\* Store::open leaves an initial state of the abstract store.
LEMMA InitRefines == Init => SI!Init
<1> SUFFICES ASSUME Init PROVE SI!Init
  OBVIOUS
<1>1. index \in [Key -> Seq(Version)]
  BY RecoveredAssumption DEF Init
<1>2. db \in [Key -> Val \cup {None}]
  BY <1>1, GetType DEF db
<1>3. copy = [t \in Transactions |-> [k \in Key |-> None]]
  BY DEF Init, copy
<1> QED
  BY <1>2, <1>3 DEF Init, SI!Init, SI!Nothing

\* begin is the abstract begin.
LEMMA BeginRefines ==
    ASSUME CalmInv, PutsInv, (CalmInv /\ PutsInv)', NEW t \in Transactions, Begin(t)
    PROVE  SI!Begin(t)
<1>1. db' = db
  BY DEF Begin, db
<1>2. copy' = [copy EXCEPT ![t] = db]
  <2>1. copy = base
    BY CopyIsBase
  <2>2. (copy = base)'
    BY CopyIsBase, PTL
  <2> QED
    BY <2>1, <2>2 DEF Begin, db
<1>3. writes' = writes /\ overwritten' = overwritten
  <2>1. /\ writes[t] = [k \in Key |-> NoWrite] /\ overwritten[t] = {}
    BY DEF PutsInv, IdleIsClean, Begin
  <2> QED
    BY <2>1 DEF CalmInv, AlwaysInv, TypeOK, Begin
<1>4. status[t] = "idle" /\ status' = [status EXCEPT ![t] = "open"]
  BY DEF Begin
<1> QED
  BY <1>1, <1>2, <1>3, <1>4 DEF SI!Begin

\* put is the abstract write.
LEMMA WriteRefines ==
    ASSUME CalmInv, PutsInv, NEW t \in Transactions, NEW k \in Key, NEW v \in Writable,
           Write(t, k, v)
    PROVE  SI!Write(t)
<1>1. db' = db /\ copy' = copy
  BY DEF Write, db, copy
<1>2. v \in Val \cup {None}
  BY WritableAssumption
<1> QED
  BY <1>1, <1>2 DEF Write, SI!Write

\* commit is the abstract commit: the check on sequence numbers lets through
\* exactly what the abstract check on keys does.
LEMMA CommitRefines ==
    ASSUME CalmInv, PutsInv, (CalmInv /\ PutsInv)', NEW t \in Transactions, Commit(t)
    PROVE  SI!Commit(t)
<1>1. WriteSet(t) \cap overwritten[t] = {}
  BY DEF CalmInv, AlwaysInv, OverwritesAreSeen, Commit, Stale
<1>2. db' = [k \in Key |-> IF k \in WriteSet(t) THEN writes[t][k] ELSE db[k]]
  BY CommitInstalls DEF db
<1>3. copy' = copy
  <2>1. copy = base
    BY CopyIsBase
  <2>2. (copy = base)'
    BY CopyIsBase, PTL
  <2> QED
    BY <2>1, <2>2 DEF Commit
<1>4. SI!WriteSet(t) = WriteSet(t)
  BY DEF SI!WriteSet, WriteSet
<1>5. /\ status[t] = "open" /\ status' = [status EXCEPT ![t] = "committed"]
      /\ writes' = writes
      /\ overwritten' = [u \in Transactions |->
                           IF u # t /\ status[u] = "open"
                           THEN overwritten[u] \cup WriteSet(t) ELSE overwritten[u]]
  BY DEF Commit
<1> QED
  BY <1>1, <1>2, <1>3, <1>4, <1>5 DEF SI!Commit

\* A commit is refused for a conflict only where the abstract one is.
LEMMA RefuseRefines ==
    ASSUME CalmInv, PutsInv, (CalmInv /\ PutsInv)', NEW t \in Transactions,
           Conflict(t) \/ Fail(t) \/ Abort(t)
    PROVE  SI!Refuse(t)
<1>1. UNCHANGED <<index, writes, overwritten, base>> /\ status[t] = "open"
  BY DEF Conflict, Fail, Abort
<1>2. db' = db
  BY <1>1 DEF db
<1>3. copy' = copy
  <2>1. copy = base
    BY CopyIsBase
  <2>2. (copy = base)'
    BY CopyIsBase, PTL
  <2> QED
    BY <1>1, <2>1, <2>2
<1>4. SI!WriteSet(t) = WriteSet(t)
  BY DEF SI!WriteSet, WriteSet
<1>5. Conflict(t) => WriteSet(t) \cap overwritten[t] # {}
  BY DEF Conflict, Stale, PutsInv, StaleMeansOverwritten, WriteSet
<1>6. \/ WriteSet(t) \cap overwritten[t] # {} /\ status' = [status EXCEPT ![t] = "conflicted"]
      \/ status' = [status EXCEPT ![t] = "failed"]
      \/ status' = [status EXCEPT ![t] = "aborted"]
  BY <1>5 DEF Conflict, Fail, Abort
<1> QED
  BY <1>1, <1>2, <1>3, <1>4, <1>6 DEF SI!Refuse

\* Dropping the guard forgets the transaction.
LEMMA ReleaseRefines ==
    ASSUME CalmInv, PutsInv, (CalmInv /\ PutsInv)', NEW t \in Transactions, Release(t)
    PROVE  SI!Forget(t)
<1>1. db' = db
  BY DEF Release, db
<1>2. copy' = [copy EXCEPT ![t] = [k \in Key |-> None]]
  <2>1. copy = base
    BY CopyIsBase
  <2>2. (copy = base)'
    BY CopyIsBase, PTL
  <2> QED
    BY <2>1, <2>2 DEF Release
<1>3. status[t] \notin {"idle", "open"}
  BY DEF Release, Ended
<1>4. /\ status' = [status EXCEPT ![t] = "idle"]
      /\ writes' = [writes EXCEPT ![t] = [k \in Key |-> NoWrite]]
      /\ overwritten' = [overwritten EXCEPT ![t] = {}]
  BY DEF Release
<1> QED
  BY <1>1, <1>2, <1>3, <1>4 DEF SI!Forget, SI!Nothing

\* compact, like a step that changes nothing, is not seen at all.
LEMMA CompactRefines ==
    ASSUME Compact \/ UNCHANGED vars
    PROVE  UNCHANGED SI!vars
<1>1. UNCHANGED <<index, status, snap, writes, overwritten, base>>
  BY DEF Compact, vars
<1>2. db' = db /\ copy' = copy
  BY <1>1 DEF db, copy
<1> QED
  BY <1>1, <1>2 DEF SI!vars

\* TransactionalStore implements SnapshotIsolation for clients that never
\* delete: threads, sequence numbers, version lists and compactions cannot
\* be told from transactions on copies of one map, until a compact fails.
THEOREM StoreIsSnapshotIsolated ==
    ASSUME PutsOnly
    PROVE  Spec => ImplementsSnapshotIsolation
<1> DEFINE Inv == IInv /\ (failures = 0 => PutsInv)
<1>1. Inv /\ Inv' /\ [Next]_vars => [failures' = 0 => [SI!Next]_(SI!vars)]_vars
  <2> SUFFICES ASSUME Inv, Inv', [Next]_vars, failures' = 0
               PROVE  [SI!Next]_(SI!vars)
    OBVIOUS
  <2>a. ~CompactFails /\ CalmInv /\ PutsInv /\ (CalmInv /\ PutsInv)'
    BY StillCalm DEF IInv
  <2>1. ASSUME NEW t \in Transactions, Begin(t) PROVE SI!Next
    BY <2>a, <2>1, BeginRefines DEF SI!Next
  <2>2. ASSUME NEW t \in Transactions, Commit(t) PROVE SI!Next
    BY <2>a, <2>2, CommitRefines DEF SI!Next
  <2>3. ASSUME NEW t \in Transactions, Conflict(t) \/ Fail(t) \/ Abort(t) PROVE SI!Next
    BY <2>a, <2>3, RefuseRefines DEF SI!Next
  <2>4. ASSUME NEW t \in Transactions, Release(t) PROVE SI!Next
    BY <2>a, <2>4, ReleaseRefines DEF SI!Next
  <2>5. ASSUME NEW t \in Transactions, NEW k \in Key, NEW v \in Writable, Write(t, k, v)
        PROVE  SI!Next
    BY <2>a, <2>5, WriteRefines DEF SI!Next
  <2>6. ASSUME Compact \/ UNCHANGED vars PROVE UNCHANGED SI!vars
    BY <2>6, CompactRefines
  <2> QED
    BY <2>a, <2>1, <2>2, <2>3, <2>4, <2>5, <2>6 DEF Next
<1>2. Spec => []Inv
  BY PutsInvariance
<1> QED
  BY <1>1, <1>2, InitRefines, PTL DEF Spec, ImplementsSnapshotIsolation
=============================================================================
