----------------------------- MODULE BTreeProofs -----------------------------
(***************************************************************************)
(* The B+Tree is balanced: its pages are well-formed and every path from   *)
(* the root to a leaf has the same length, for any keys, values and page   *)
(* sizes, and through every error.  It is a map: get returns what a key    *)
(* was last set to.  And a copy of its pages that is behind in some leaves *)
(* is a tree, and a map of newer and older values: a disk is such a copy.  *)
(***************************************************************************)
EXTENDS BTree, InductionProofs

-----------------------------------------------------------------------------
(* Sequences.                                                              *)

\* The elements from m to n.
LEMMA SliceFacts ==
    ASSUME NEW S, NEW s \in Seq(S), NEW m \in Nat, m >= 1, NEW n \in 0..Len(s)
    PROVE  /\ SubSeq(s, m, n) \in Seq(S)
           /\ Len(SubSeq(s, m, n)) = IF m <= n THEN n - m + 1 ELSE 0
           /\ \A i \in 1..(n - m + 1) : SubSeq(s, m, n)[i] = s[m + i - 1]
<1>1. Len(s) \in Nat /\ \A i \in 1..Len(s) : s[i] \in S
  BY LenProperties, ElementOfSeq
<1>2. m \in Int /\ n \in Int /\ \A i \in m..n : i \in 1..Len(s)
  BY <1>1
<1>3. \A i \in m..n : s[i] \in S
  BY <1>1, <1>2
<1> QED
  BY <1>2, <1>3, SubSeqProperties

LEMMA InsertAtFacts ==
    ASSUME NEW S, NEW s \in Seq(S), NEW i \in 1..Len(s) + 1, NEW e \in S
    PROVE  /\ InsertAt(s, i, e) \in Seq(S) /\ Len(InsertAt(s, i, e)) = Len(s) + 1
           /\ \A j \in 1..Len(s) + 1 : InsertAt(s, i, e)[j] =
                  IF j < i THEN s[j] ELSE IF j = i THEN e ELSE s[j - 1]
<1>1. Len(s) \in Nat /\ i \in Nat /\ i >= 1 /\ i - 1 \in 0..Len(s) /\ Len(s) \in 0..Len(s)
  BY LenProperties
<1>2. PICK a, b, c, d, t : /\ a = SubSeq(s, 1, i - 1) /\ b = <<e>> /\ c = SubSeq(s, i, Len(s))
                           /\ d = a \o b /\ t = d \o c
  OBVIOUS
<1>3. a \in Seq(S) /\ Len(a) = i - 1 /\ \A j \in 1..(i - 1) : a[j] = s[j]
  BY <1>1, <1>2, PrefixFacts
<1>4. b \in Seq(S) /\ Len(b) = 1 /\ b[1] = e
  BY <1>2
<1>5. /\ c \in Seq(S) /\ Len(c) = (IF i <= Len(s) THEN Len(s) - i + 1 ELSE 0)
      /\ \A j \in 1..(Len(s) - i + 1) : c[j] = s[i + j - 1]
  BY <1>1, <1>2, SliceFacts
<1>6. Len(c) = Len(s) - i + 1
  BY <1>1, <1>5
<1>7. /\ d \in Seq(S) /\ Len(d) = Len(a) + Len(b)
      /\ \A j \in 1..(Len(a) + Len(b)) : d[j] = IF j <= Len(a) THEN a[j] ELSE b[j - Len(a)]
  BY <1>2, <1>3, <1>4, ConcatProperties
<1>8. Len(d) = i /\ d[i] = e /\ \A j \in 1..(i - 1) : d[j] = s[j]
  <2>1. Len(a) + Len(b) = i /\ i - Len(a) = 1 /\ ~(i <= Len(a))
    BY <1>1, <1>3, <1>4
  <2>2. d[i] = e
    BY <1>1, <1>4, <1>7, <2>1
  <2>3. \A j \in 1..(i - 1) : j \in 1..(Len(a) + Len(b)) /\ j <= Len(a)
    BY <1>1, <1>3, <2>1
  <2>4. \A j \in 1..(i - 1) : d[j] = s[j]
    BY <1>3, <1>7, <2>3
  <2> QED
    BY <1>7, <2>1, <2>2, <2>4
<1>9. /\ t \in Seq(S) /\ Len(t) = Len(d) + Len(c)
      /\ \A j \in 1..(Len(d) + Len(c)) : t[j] = IF j <= Len(d) THEN d[j] ELSE c[j - Len(d)]
  <2>1. d \in Seq(S) /\ c \in Seq(S) /\ t = d \o c
    BY <1>2, <1>5, <1>7
  <2> QED
    BY <2>1, ConcatProperties
<1>10. Len(d) + Len(c) = Len(s) + 1
  BY <1>1, <1>6, <1>8
<1>11. \A j \in 1..Len(s) + 1 : t[j] = IF j < i THEN s[j] ELSE IF j = i THEN e ELSE s[j - 1]
  <2> TAKE j \in 1..Len(s) + 1
  <2>1. CASE j < i
    <3>1. j \in 1..(i - 1) /\ j <= i
      BY <1>1, <2>1
    <3> QED
      BY <1>8, <1>9, <1>10, <2>1, <3>1
  <2>2. CASE j = i
    BY <1>1, <1>8, <1>9, <1>10, <2>2
  <2>3. CASE j > i
    <3>1. j - i \in 1..(Len(s) - i + 1) /\ ~(j <= i) /\ i + (j - i) - 1 = j - 1 /\ ~(j < i) /\ j # i
      BY <1>1, <2>3
    <3>2. c[j - i] = s[j - 1]
      BY <1>5, <3>1
    <3>3. t[j] = c[j - i]
      BY <1>8, <1>9, <1>10, <3>1
    <3> QED
      BY <3>1, <3>2, <3>3
  <2> QED
    BY <1>1, <2>1, <2>2, <2>3
<1>12. t = InsertAt(s, i, e)
  BY <1>2 DEF InsertAt
<1> QED
  BY <1>9, <1>10, <1>11, <1>12

LEMMA RemoveAtFacts ==
    ASSUME NEW S, NEW s \in Seq(S), NEW i \in 1..Len(s)
    PROVE  /\ RemoveAt(s, i) \in Seq(S) /\ Len(RemoveAt(s, i)) = Len(s) - 1
           /\ \A j \in 1..(Len(s) - 1) : RemoveAt(s, i)[j] = IF j < i THEN s[j] ELSE s[j + 1]
<1>1. /\ Len(s) \in Nat /\ i \in Nat /\ i - 1 \in 0..Len(s) /\ Len(s) \in 0..Len(s)
      /\ i + 1 \in Nat /\ i + 1 >= 1
  BY LenProperties
<1>2. PICK a, c, t : a = SubSeq(s, 1, i - 1) /\ c = SubSeq(s, i + 1, Len(s)) /\ t = a \o c
  OBVIOUS
<1>3. a \in Seq(S) /\ Len(a) = i - 1 /\ \A j \in 1..(i - 1) : a[j] = s[j]
  BY <1>1, <1>2, PrefixFacts
<1>4. /\ c \in Seq(S) /\ Len(c) = (IF i + 1 <= Len(s) THEN Len(s) - (i + 1) + 1 ELSE 0)
      /\ \A j \in 1..(Len(s) - (i + 1) + 1) : c[j] = s[i + 1 + j - 1]
  BY <1>1, <1>2, SliceFacts
<1>5. Len(c) = Len(s) - i /\ Len(a) + Len(c) = Len(s) - 1
  BY <1>1, <1>3, <1>4
<1>6. /\ t \in Seq(S) /\ Len(t) = Len(a) + Len(c)
      /\ \A j \in 1..(Len(a) + Len(c)) : t[j] = IF j <= Len(a) THEN a[j] ELSE c[j - Len(a)]
  <2>1. a \in Seq(S) /\ c \in Seq(S) /\ t = a \o c
    BY <1>2, <1>3, <1>4
  <2> QED
    BY <2>1, ConcatProperties
<1>7. \A j \in 1..(Len(s) - 1) : t[j] = IF j < i THEN s[j] ELSE s[j + 1]
  <2> TAKE j \in 1..(Len(s) - 1)
  <2>1. CASE j < i
    <3>1. j \in 1..(i - 1) /\ j <= i - 1
      BY <1>1, <2>1
    <3> QED
      BY <1>3, <1>5, <1>6, <2>1, <3>1
  <2>2. CASE ~(j < i)
    <3>1. /\ j - (i - 1) \in 1..(Len(s) - (i + 1) + 1) /\ ~(j <= i - 1)
          /\ i + 1 + (j - (i - 1)) - 1 = j + 1
      BY <1>1, <2>2
    <3>2. c[j - (i - 1)] = s[j + 1]
      BY <1>4, <3>1
    <3>3. t[j] = c[j - (i - 1)]
      BY <1>3, <1>5, <1>6, <3>1
    <3> QED
      BY <2>2, <3>2, <3>3
  <2> QED
    BY <2>1, <2>2
<1>8. t = RemoveAt(s, i)
  BY <1>2 DEF RemoveAt
<1> QED
  BY <1>5, <1>6, <1>7, <1>8

LEMMA FrontFacts ==
    ASSUME NEW S, NEW s \in Seq(S), s # <<>>
    PROVE  /\ Len(s) \in Nat /\ Len(s) >= 1 /\ Len(s) \in 1..Len(s) /\ Last(s) = s[Len(s)]
           /\ Last(s) \in S
           /\ Front(s) \in Seq(S) /\ Len(Front(s)) = Len(s) - 1
           /\ \A i \in 1..(Len(s) - 1) : Front(s)[i] = s[i]
<1>1. Len(s) \in Nat /\ Len(s) >= 1 /\ Len(s) \in 1..Len(s) /\ Len(s) - 1 \in 0..Len(s)
  BY EmptySeq, LenProperties
<1>2. Last(s) = s[Len(s)] /\ Front(s) = SubSeq(s, 1, Len(s) - 1)
  BY DEF Last, Front
<1> QED
  BY <1>1, <1>2, PrefixFacts, ElementOfSeq

-----------------------------------------------------------------------------
(* Largest and smallest numbers.                                           *)

LEMMA MaxIs ==
    ASSUME NEW S \in SUBSET Nat, S # {}, NEW M \in Nat, \A x \in S : x <= M
    PROVE  Max(S) \in S /\ \A x \in S : x <= Max(S)
<1>1. PICK x \in S : \A y \in S : y <= x
  BY LargestNat
<1>2. \A y \in S : x >= y
  BY <1>1
<1>3. Max(S) \in S /\ \A y \in S : Max(S) >= y
  BY <1>2, Zenon DEF Max
<1>4. PICK m \in Nat : m = Max(S)
  BY <1>3
<1>5. \A y \in S : y <= m
  BY <1>3, <1>4
<1> QED
  BY <1>3, <1>4, <1>5

LEMMA MinIs ==
    ASSUME NEW S \in SUBSET Nat, S # {}
    PROVE  Min(S) \in S
<1>1. PICK x \in S : \A y \in S : x <= y
  BY SmallestNat
<1> QED
  BY <1>1, Zenon DEF Min

-----------------------------------------------------------------------------
(* Pages.                                                                  *)

LEMMA LeafFacts ==
    ASSUME NEW entries \in Seq(LeafEntry), NEW next \in PageId \cup {NoSlot}
    PROVE  /\ Leaf(entries, next) \in Page
           /\ IsLeaf(Leaf(entries, next)) /\ ~IsInternal(Leaf(entries, next))
           /\ Leaf(entries, next).entries = entries
BY DEF Leaf, Page, IsLeaf, IsInternal

LEMMA InternalFacts ==
    ASSUME NEW entries \in Seq(ChildEntry)
    PROVE  /\ Internal(entries) \in Page
           /\ IsInternal(Internal(entries)) /\ ~IsLeaf(Internal(entries))
           /\ Internal(entries).entries = entries
BY DEF Internal, Page, IsLeaf, IsInternal

LEMMA MetaFacts ==
    ASSUME NEW root \in PageId
    PROVE  /\ Meta(root) \in Page /\ ~IsLeaf(Meta(root)) /\ ~IsInternal(Meta(root))
           /\ Meta(root).entries # <<>> /\ Meta(root).entries[1].child = root
<1>1. Leftmost(root) \in ChildEntry /\ Leftmost(root).child = root
  BY DEF Leftmost, InternalEntry, ChildEntry
<1>2. PICK es : es = <<Leftmost(root)>>
  OBVIOUS
<1>3. es \in Seq(ChildEntry) /\ es # <<>> /\ es[1] = Leftmost(root)
  BY <1>1, <1>2
<1>4. Meta(root) = [type |-> "meta", entries |-> es, next |-> NoSlot]
  BY <1>2 DEF Meta
<1>5. Meta(root).entries = es /\ Meta(root).type = "meta"
  BY <1>4
<1>6. Meta(root) \in Page
  BY <1>3, <1>4 DEF Page
<1> QED
  BY <1>1, <1>3, <1>5, <1>6 DEF IsLeaf, IsInternal

LEMMA BlankFacts ==
    Blank \in Page /\ ~IsLeaf(Blank) /\ ~IsInternal(Blank) /\ Blank.entries = <<>>
BY DEF Blank, Page, IsLeaf, IsInternal

LEMMA PageFacts ==
    ASSUME NEW page \in Page
    PROVE  /\ IsLeaf(page) => page.entries \in Seq(LeafEntry) /\ page.next \in PageId \cup {NoSlot}
           /\ IsInternal(page) => page.entries \in Seq(ChildEntry)
           /\ ~(IsLeaf(page) /\ IsInternal(page))
BY DEF Page, Blank, IsLeaf, IsInternal

-----------------------------------------------------------------------------
(* The entries of a leaf.                                                  *)

LEMMA PositionFacts ==
    ASSUME NEW entries \in Seq(LeafEntry), NEW k \in Key
    PROVE  Position(entries, k) \in 1..Len(entries) + 1
<1>1. Len(entries) \in Nat /\ DOMAIN entries = 1..Len(entries)
  BY LenProperties
<1>2. PICK S : S = {0} \cup {i \in DOMAIN entries : entries[i].key < k}
  OBVIOUS
<1>3. S \in SUBSET Nat /\ S # {} /\ \A x \in S : x <= Len(entries)
  <2>1. 0 \in S /\ \A x \in S : x = 0 \/ x \in 1..Len(entries)
    BY <1>1, <1>2, Zenon
  <2> QED
    BY <1>1, <2>1
<1>4. PICK m \in S : m = Max(S)
  BY <1>1, <1>3, MaxIs
<1>5. m \in 0..Len(entries)
  BY <1>1, <1>3
<1>6. Position(entries, k) = 1 + m
  BY <1>2, <1>4 DEF Position
<1> QED
  BY <1>1, <1>5, <1>6

LEMMA UpsertFacts ==
    ASSUME NEW entries \in Seq(LeafEntry), NEW k \in Key, NEW v \in Val
    PROVE  Upsert(entries, k, v) \in Seq(LeafEntry) /\ Upsert(entries, k, v) # <<>>
<1>1. PICK i \in 1..Len(entries) + 1 : i = Position(entries, k)
  BY PositionFacts
<1>2. PICK e \in LeafEntry : e = Entry(k, v)
  BY DEF Entry, LeafEntry
<1>3. Len(entries) \in Nat /\ DOMAIN entries = 1..Len(entries)
  BY LenProperties
<1>4. CASE Found(entries, k)
  <2>1. i \in 1..Len(entries)
    BY <1>1, <1>3, <1>4 DEF Found
  <2>2. PICK t : t = [entries EXCEPT ![i] = e]
    OBVIOUS
  <2>3. t \in Seq(LeafEntry) /\ Len(t) = Len(entries)
    BY <2>1, <2>2, ExceptSeq
  <2>4. t # <<>>
    BY <1>3, <2>1, <2>3, EmptySeq
  <2>5. Upsert(entries, k, v) = t
    BY <1>1, <1>2, <1>4, <2>2 DEF Upsert
  <2> QED
    BY <2>3, <2>4, <2>5
<1>5. CASE ~Found(entries, k)
  <2>1. PICK t : t = InsertAt(entries, i, e)
    OBVIOUS
  <2>2. t \in Seq(LeafEntry) /\ Len(t) = Len(entries) + 1
    BY <2>1, InsertAtFacts
  <2>3. t # <<>>
    BY <1>3, <2>2, EmptySeq
  <2>4. Upsert(entries, k, v) = t
    BY <1>1, <1>2, <1>5, <2>1 DEF Upsert
  <2> QED
    BY <2>2, <2>3, <2>4
<1> QED
  BY <1>4, <1>5

LEMMA HalvesFacts ==
    ASSUME NEW entries \in Seq(LeafEntry), entries # <<>>
    PROVE  /\ Halves(entries).left \in Seq(LeafEntry) /\ Halves(entries).right \in Seq(LeafEntry)
           /\ Halves(entries).right[1].key \in Key
<1>1. Len(entries) \in Nat /\ Len(entries) >= 1
  BY EmptySeq, LenProperties
<1>2. PICK mid \in Nat : mid = Len(entries) \div 2
  BY <1>1
<1>3. mid \in 0..Len(entries) /\ mid + 1 \in 1..Len(entries) /\ mid + 1 \in Nat /\ mid + 1 >= 1
      /\ Len(entries) \in 0..Len(entries) /\ 1 \in 1..(Len(entries) - (mid + 1) + 1)
      /\ mid + 1 + 1 - 1 = mid + 1
  BY <1>1, <1>2
<1>4. PICK left, right : left = SubSeq(entries, 1, mid) /\ right = SubSeq(entries, mid + 1, Len(entries))
  OBVIOUS
<1>5. left \in Seq(LeafEntry)
  BY <1>3, <1>4, PrefixFacts
<1>6. right \in Seq(LeafEntry) /\ right[1] = entries[mid + 1]
  BY <1>3, <1>4, SliceFacts
<1>7. entries[mid + 1] \in LeafEntry
  BY <1>3, ElementOfSeq
<1>8. Halves(entries) = [left |-> left, right |-> right]
  BY <1>2, <1>4 DEF Halves
<1>9. Halves(entries).left = left /\ Halves(entries).right = right
  BY <1>8
<1>10. right[1].key \in Key
  BY <1>6, <1>7 DEF LeafEntry
<1> QED
  BY <1>5, <1>6, <1>9, <1>10

LEMMA DeletedFacts ==
    ASSUME NEW entries \in Seq(LeafEntry), NEW k \in Key, Found(entries, k)
    PROVE  RemoveAt(entries, Position(entries, k)) \in Seq(LeafEntry)
<1>1. Position(entries, k) \in 1..Len(entries)
  <2>1. DOMAIN entries = 1..Len(entries)
    BY LenProperties
  <2> QED
    BY <2>1 DEF Found
<1> QED
  BY <1>1, RemoveAtFacts

-----------------------------------------------------------------------------
(* The entries of an internal page.                                        *)

\* OneAbove of a sequence, entry by entry.
LEMMA OneAboveFacts ==
    ASSUME NEW entries \in Seq(ChildEntry), NEW h, NEW level, NEW nodes
    PROVE  OneAbove(entries, h, level, nodes) <=>
               /\ Len(entries) >= 1
               /\ \A i \in 1..Len(entries) :
                     /\ entries[i].child \in nodes
                     /\ h = level[entries[i].child] + 1
                     /\ i > 1 => entries[i].key \in Key
<1>1. Len(entries) \in Nat /\ DOMAIN entries = 1..Len(entries)
  BY LenProperties
<1>2. entries # <<>> <=> Len(entries) >= 1
  BY <1>1, EmptySeq
<1> QED
  BY <1>1, <1>2 DEF OneAbove

\* It stays when there are more nodes.
LEMMA OneAboveStays ==
    ASSUME NEW entries, NEW h, NEW level, NEW nodes, NEW level2, NEW nodes2,
           OneAbove(entries, h, level, nodes),
           nodes \subseteq nodes2, \A id \in nodes : level2[id] = level[id]
    PROVE  OneAbove(entries, h, level2, nodes2)
BY DEF OneAbove

LEMMA RouteFacts ==
    ASSUME NEW entries \in Seq(ChildEntry), Len(entries) >= 1, NEW k
    PROVE  RouteIndex(entries, k) \in 1..Len(entries)
<1>1. PICK n \in Nat : n = Len(entries) /\ n >= 1
  BY LenProperties
<1>2. PICK S : S = {1} \cup {i \in 2..Len(entries) : \A j \in 2..i : entries[j].key <= k}
  OBVIOUS
<1>3. 1 \in S /\ \A x \in S : x = 1 \/ x \in 2..n
  BY <1>1, <1>2, Zenon
<1>4. S \in SUBSET Nat /\ S # {} /\ \A x \in S : x <= n
  BY <1>1, <1>3
<1>5. PICK m \in S : m = Max(S)
  BY <1>4, MaxIs
<1>6. m \in 1..n
  BY <1>1, <1>3
<1>7. RouteIndex(entries, k) = m
  BY <1>2, <1>5 DEF RouteIndex
<1> QED
  BY <1>1, <1>6, <1>7

LEMMA RouteIsBelow ==
    ASSUME NEW entries \in Seq(ChildEntry), NEW h, NEW level, NEW nodes,
           OneAbove(entries, h, level, nodes), NEW k
    PROVE  Route(entries, k) \in nodes /\ h = level[Route(entries, k)] + 1
<1>1. RouteIndex(entries, k) \in 1..Len(entries)
  BY OneAboveFacts, RouteFacts
<1> QED
  BY <1>1, OneAboveFacts DEF Route

LEMMA WithChildFacts ==
    ASSUME NEW entries \in Seq(ChildEntry), NEW h, NEW level, NEW nodes,
           OneAbove(entries, h, level, nodes), nodes \subseteq PageId,
           NEW sep \in Key, NEW child \in nodes, h = level[child] + 1
    PROVE  /\ WithChild(entries, sep, child) \in Seq(ChildEntry)
           /\ OneAbove(WithChild(entries, sep, child), h, level, nodes)
<1>1. PICK n \in Nat : n = Len(entries) /\ n >= 1
  BY LenProperties, OneAboveFacts
<1>2. PICK S : S = {i \in 2..Len(entries) : entries[i].key > sep}
  OBVIOUS
<1>3. PICK at : at = IF S = {} THEN Len(entries) + 1 ELSE Min(S)
  OBVIOUS
<1>4. at \in 2..n + 1
  <2>1. CASE S = {}
    BY <1>1, <1>3, <2>1
  <2>2. CASE S # {}
    <3>1. \A x \in S : x \in 2..n
      BY <1>1, <1>2, Zenon
    <3>2. S \in SUBSET Nat
      BY <1>1, <3>1
    <3>3. PICK m \in S : m = Min(S)
      BY <2>2, <3>2, MinIs
    <3> QED
      BY <1>1, <1>3, <2>2, <3>1, <3>3
  <2> QED
    BY <2>1, <2>2
<1>5. PICK e : e = InternalEntry(sep, child)
  OBVIOUS
<1>6. e \in ChildEntry /\ e.key = sep /\ e.child = child
  BY <1>5 DEF InternalEntry, ChildEntry
<1>7. PICK t : t = InsertAt(entries, at, e)
  OBVIOUS
<1>8. /\ t \in Seq(ChildEntry) /\ Len(t) = n + 1
      /\ \A j \in 1..n + 1 : t[j] = IF j < at THEN entries[j] ELSE IF j = at THEN e ELSE entries[j - 1]
  <2>1. at \in 1..Len(entries) + 1 /\ e \in ChildEntry
    BY <1>1, <1>4, <1>6
  <2>2. /\ t \in Seq(ChildEntry) /\ Len(t) = Len(entries) + 1
        /\ \A j \in 1..Len(entries) + 1 :
              t[j] = IF j < at THEN entries[j] ELSE IF j = at THEN e ELSE entries[j - 1]
    BY <1>7, <2>1, InsertAtFacts
  <2> QED
    BY ONLY <1>1, <2>2
<1>9. \A j \in 1..Len(t) : t[j].child \in nodes /\ h = level[t[j].child] + 1
                           /\ (j > 1 => t[j].key \in Key)
  <2> TAKE j \in 1..Len(t)
  <2>0. j \in 1..n + 1
    BY <1>8
  <2>1. CASE j < at
    <3>1. j \in 1..n
      BY <1>4, <2>0, <2>1
    <3>2. t[j] = entries[j]
      BY <1>8, <2>0, <2>1
    <3> QED
      BY <1>1, <3>1, <3>2, OneAboveFacts
  <2>2. CASE j = at
    <3>1. t[j] = e
      BY <1>4, <1>8, <2>0, <2>2
    <3> QED
      BY <1>6, <3>1
  <2>3. CASE j > at
    <3>1. j - 1 \in 1..n /\ j - 1 > 1 /\ ~(j < at) /\ j # at
      BY <1>4, <2>0, <2>3
    <3>2. t[j] = entries[j - 1]
      BY <1>8, <2>0, <3>1
    <3> QED
      BY <1>1, <3>1, <3>2, OneAboveFacts
  <2> QED
    BY <1>4, <2>0, <2>1, <2>2, <2>3
<1>10. Len(t) >= 1
  BY <1>8
<1>11. WithChild(entries, sep, child) = t
  BY <1>2, <1>3, <1>5, <1>7 DEF WithChild
<1>12. OneAbove(t, h, level, nodes)
  BY <1>8, <1>9, <1>10, OneAboveFacts
<1> QED
  BY <1>8, <1>11, <1>12

\* A leftmost entry in front of the rest of a page.
LEMMA LeftmostFacts ==
    ASSUME NEW entries \in Seq(ChildEntry), NEW h, NEW level, NEW nodes,
           OneAbove(entries, h, level, nodes), nodes \subseteq PageId,
           NEW i \in 1..Len(entries), NEW t, NEW rest,
           rest = SubSeq(entries, i + 1, Len(entries)),
           t = <<Leftmost(entries[i].child)>> \o rest
    PROVE  t \in Seq(ChildEntry) /\ OneAbove(t, h, level, nodes)
<1>1. PICK n \in Nat : n = Len(entries) /\ i \in 1..n
  BY LenProperties
<1>2. PICK e : e = Leftmost(entries[i].child)
  OBVIOUS
<1>3. entries[i].child \in nodes /\ h = level[entries[i].child] + 1
  BY OneAboveFacts
<1>4. e \in ChildEntry /\ e.child = entries[i].child
  BY <1>2, <1>3 DEF Leftmost, InternalEntry, ChildEntry
<1>5. PICK first : first = <<e>>
  OBVIOUS
<1>6. first \in Seq(ChildEntry) /\ Len(first) = 1 /\ first[1] = e
  BY <1>4, <1>5
<1>7. /\ rest \in Seq(ChildEntry) /\ Len(rest) = (IF i + 1 <= n THEN n - (i + 1) + 1 ELSE 0)
      /\ \A j \in 1..(n - (i + 1) + 1) : rest[j] = entries[i + 1 + j - 1]
  <2>1. i + 1 \in Nat /\ i + 1 >= 1 /\ n \in 0..Len(entries)
    BY <1>1
  <2>2. rest = SubSeq(entries, i + 1, n)
    BY <1>1
  <2> QED
    BY <2>1, <2>2, SliceFacts
<1>8. Len(rest) = n - i
  BY <1>1, <1>7
<1>9. /\ t \in Seq(ChildEntry) /\ Len(t) = Len(first) + Len(rest)
      /\ \A j \in 1..(Len(first) + Len(rest)) :
            t[j] = IF j <= Len(first) THEN first[j] ELSE rest[j - Len(first)]
  <2>1. first \in Seq(ChildEntry) /\ rest \in Seq(ChildEntry) /\ t = first \o rest
    BY <1>2, <1>5, <1>6, <1>7
  <2> QED
    BY <2>1, ConcatProperties
<1>10. Len(first) + Len(rest) = n - i + 1
  BY <1>1, <1>6, <1>8
<1>11. \A j \in 1..Len(t) : t[j].child \in nodes /\ h = level[t[j].child] + 1
                            /\ (j > 1 => t[j].key \in Key)
  <2> TAKE j \in 1..Len(t)
  <2>0. j \in 1..(n - i + 1)
    BY <1>9, <1>10
  <2>1. CASE j = 1
    <3>1. t[j] = e
      BY <1>6, <1>9, <2>1
    <3>2. ~(j > 1)
      BY <2>1
    <3> QED
      BY <1>3, <1>4, <3>1, <3>2
  <2>2. CASE j # 1
    <3>1. /\ j - 1 \in 1..(n - (i + 1) + 1) /\ ~(j <= 1) /\ i + 1 + (j - 1) - 1 = i + j - 1
          /\ i + j - 1 \in 1..n /\ i + j - 1 > 1
      BY <1>1, <2>0, <2>2
    <3>2. rest[j - 1] = entries[i + j - 1]
      BY <1>7, <3>1
    <3>3. t[j] = rest[j - 1]
      BY <1>6, <1>9, <3>1
    <3>4. t[j] = entries[i + j - 1]
      BY <3>2, <3>3
    <3> QED
      BY <1>1, <3>1, <3>4, OneAboveFacts
  <2> QED
    BY <2>1, <2>2
<1>12. Len(t) >= 1
  BY <1>1, <1>9, <1>10
<1> QED
  BY <1>9, <1>11, <1>12, OneAboveFacts

LEMMA SplitAroundFacts ==
    ASSUME NEW entries \in Seq(ChildEntry), NEW h, NEW level, NEW nodes,
           OneAbove(entries, h, level, nodes), nodes \subseteq PageId, Len(entries) > 2
    PROVE  /\ SplitAround(entries).left \in Seq(ChildEntry)
           /\ OneAbove(SplitAround(entries).left, h, level, nodes)
           /\ SplitAround(entries).right \in Seq(ChildEntry)
           /\ OneAbove(SplitAround(entries).right, h, level, nodes)
           /\ SplitAround(entries).promoted \in Key
<1>1. PICK n \in Nat : n = Len(entries) /\ n > 2
  BY LenProperties
<1>2. PICK S : S = {Len(entries) \div 2, 1}
  OBVIOUS
<1>3. PICK mid \in S : mid = Max(S)
  <2>1. S \in SUBSET Nat /\ S # {} /\ \A x \in S : x <= n
    BY <1>1, <1>2
  <2> QED
    BY <2>1, MaxIs
<1>4. /\ mid \in Nat /\ mid >= 1 /\ mid + 1 \in 1..n /\ mid + 1 > 1 /\ mid \in 0..n
      /\ mid + 1 + 1 = mid + 2
  BY <1>1, <1>2
<1>5. PICK left, rest, right : /\ left = SubSeq(entries, 1, mid)
                               /\ rest = SubSeq(entries, mid + 1 + 1, Len(entries))
                               /\ right = <<Leftmost(entries[mid + 1].child)>> \o rest
  OBVIOUS
<1>6. left \in Seq(ChildEntry) /\ Len(left) = mid /\ \A i \in 1..mid : left[i] = entries[i]
  BY <1>1, <1>4, <1>5, PrefixFacts
<1>7. OneAbove(left, h, level, nodes)
  <2>1. \A i \in 1..mid : i \in 1..Len(entries)
    BY <1>1, <1>4
  <2>2. \A i \in 1..Len(left) : left[i].child \in nodes /\ h = level[left[i].child] + 1
                                /\ (i > 1 => left[i].key \in Key)
    BY <1>6, <2>1, OneAboveFacts
  <2> QED
    BY <1>4, <1>6, <2>2, OneAboveFacts
<1>8. right \in Seq(ChildEntry) /\ OneAbove(right, h, level, nodes)
  <2>1. mid + 1 \in 1..Len(entries)
    BY <1>1, <1>4
  <2> QED
    BY <1>5, <2>1, LeftmostFacts
<1>9. entries[mid + 1].key \in Key
  BY <1>1, <1>4, OneAboveFacts
<1>10. SplitAround(entries) = [left |-> left, promoted |-> entries[mid + 1].key, right |-> right]
  BY <1>2, <1>3, <1>4, <1>5 DEF SplitAround
<1>11. /\ SplitAround(entries).left = left /\ SplitAround(entries).right = right
       /\ SplitAround(entries).promoted = entries[mid + 1].key
  BY <1>10
<1> QED
  BY <1>6, <1>7, <1>8, <1>9, <1>11

LEMMA WithoutChildFacts ==
    ASSUME NEW entries \in Seq(ChildEntry), NEW h, NEW level, NEW nodes,
           OneAbove(entries, h, level, nodes), nodes \subseteq PageId,
           Len(entries) # 1, NEW i \in 1..Len(entries)
    PROVE  /\ WithoutChild(entries, i) \in Seq(ChildEntry)
           /\ OneAbove(WithoutChild(entries, i), h, level, nodes)
<1>1. PICK n \in Nat : n = Len(entries) /\ n >= 2
  <2>1. PICK m \in Nat : m = Len(entries) /\ m >= 1
    BY LenProperties, OneAboveFacts
  <2>2. m # 1
    BY <2>1
  <2>3. m >= 2
    BY <2>1, <2>2
  <2> QED
    BY <2>1, <2>3
<1>2. CASE i = 1
  <2>1. PICK rest, t : /\ rest = SubSeq(entries, 2 + 1, Len(entries))
                       /\ t = <<Leftmost(entries[2].child)>> \o rest
    OBVIOUS
  <2>2. 2 \in 1..Len(entries)
    BY <1>1
  <2>3. t \in Seq(ChildEntry) /\ OneAbove(t, h, level, nodes)
    BY <2>1, <2>2, LeftmostFacts
  <2>4. 2 + 1 = 3
    OBVIOUS
  <2>5. WithoutChild(entries, i) = t
    BY <1>2, <2>1, <2>4 DEF WithoutChild
  <2> QED
    BY <2>3, <2>5
<1>3. CASE i # 1
  <2>1. PICK t : t = RemoveAt(entries, i)
    OBVIOUS
  <2>2. /\ t \in Seq(ChildEntry) /\ Len(t) = n - 1
        /\ \A j \in 1..(n - 1) : t[j] = IF j < i THEN entries[j] ELSE entries[j + 1]
    BY <1>1, <2>1, RemoveAtFacts
  <2>3. \A j \in 1..Len(t) : t[j].child \in nodes /\ h = level[t[j].child] + 1
                             /\ (j > 1 => t[j].key \in Key)
    <3> TAKE j \in 1..Len(t)
    <3>1. j \in 1..(n - 1) /\ j \in 1..n /\ j + 1 \in 1..n /\ j + 1 > 1
      BY <1>1, <2>2
    <3>2. CASE j < i
      <4>1. t[j] = entries[j]
        BY <2>2, <3>1, <3>2
      <4> QED
        BY <1>1, <3>1, <4>1, OneAboveFacts
    <3>3. CASE ~(j < i)
      <4>1. t[j] = entries[j + 1]
        BY <2>2, <3>1, <3>3
      <4> QED
        BY <1>1, <3>1, <4>1, OneAboveFacts
    <3> QED
      BY <3>2, <3>3
  <2>4. Len(t) >= 1
    BY <1>1, <2>2
  <2>5. WithoutChild(entries, i) = t
    BY <1>3, <2>1 DEF WithoutChild
  <2> QED
    BY <2>2, <2>3, <2>4, <2>5, OneAboveFacts
<1> QED
  BY <1>2, <1>3

-----------------------------------------------------------------------------
(* The way down.                                                           *)

\* Every internal page routes k to a page one level below it.
RoutesDown(store, k, level) ==
    \A id \in PageId : IsInternal(store[id]) =>
        /\ Route(store[id].entries, k) \in PageId
        /\ level[id] = level[Route(store[id].entries, k)] + 1

\* The recursion of PathTo, with d for what it has computed.
DownFrom(d, store, k, id) ==
    IF IsInternal(store[id]) THEN <<id>> \o d[Route(store[id].entries, k)] ELSE <<id>>
Down(d, store, k) == [id \in PageId |-> DownFrom(d, store, k, id)]

LEMMA LevelsAreBounded ==
    ASSUME NEW level \in [PageId -> Nat]
    PROVE  \E M \in Nat : \A id \in PageId : level[id] < M
<1>1. MaxPage \in Nat
  BY BoundsAssumption
<1>2. PICK n \in Nat : n = MaxPage + 1
  BY <1>1
<1>3. PICK f : f = [i \in 1..n |-> level[i - 1]]
  OBVIOUS
<1>4. \A i \in 1..n : i - 1 \in PageId
  BY <1>1, <1>2 DEF PageId
<1>5. \A i \in 1..n : level[i - 1] \in Nat
  BY <1>4
<1>6. f \in [1..n -> Nat]
  BY <1>3, <1>5
<1>7. PICK M \in Nat : \A i \in 1..n : f[i] <= M
  BY <1>6, BoundedNat
<1>8. \A id \in PageId : level[id] < M + 1
  <2> TAKE id \in PageId
  <2>1. id + 1 \in 1..n /\ (id + 1) - 1 = id
    BY <1>1, <1>2 DEF PageId
  <2>2. level[id] <= M
    BY <1>3, <1>7, <2>1
  <2>3. level[id] \in Nat
    OBVIOUS
  <2> QED
    BY <2>2, <2>3
<1>9. M + 1 \in Nat
  OBVIOUS
<1> QED
  BY <1>8, <1>9

LEMMA DownSolved ==
    ASSUME NEW store, NEW k, NEW level \in [PageId -> Nat], RoutesDown(store, k, level)
    PROVE  \E d : d = Down(d, store, k)
<1> DEFINE Solves(d, n) == \A id \in PageId : level[id] < n => d[id] = DownFrom(d, store, k, id)
           Bad == {n \in Nat : ~\E d : Solves(d, n)}
<1>1. 0 \notin Bad
  <2>1. \A id \in PageId : ~(level[id] < 0)
    OBVIOUS
  <2>2. Solves(<<>>, 0)
    BY <2>1
  <2> HIDE DEF Solves
  <2> QED
    BY <2>2
<1>2. ASSUME NEW n \in Bad, \A x \in Bad : n <= x PROVE FALSE
  <2>1. n \in Nat /\ n # 0
    BY <1>1, <1>2
  <2>2. n - 1 \in Nat /\ ~(n <= n - 1)
    BY <2>1
  <2>3. n - 1 \notin Bad
    BY <1>2, <2>2, Zenon
  <2>4. PICK d : Solves(d, n - 1)
    BY <2>2, <2>3, Zenon
  <2>5. PICK e : e = Down(d, store, k)
    OBVIOUS
  <2>6. \A id \in PageId : e[id] = DownFrom(d, store, k, id)
    BY <2>5 DEF Down
  <2>7. Solves(e, n)
    <3> SUFFICES ASSUME NEW id \in PageId, level[id] < n
                 PROVE  DownFrom(d, store, k, id) = DownFrom(e, store, k, id)
      BY <2>6
    <3>1. CASE ~IsInternal(store[id])
      BY <3>1 DEF DownFrom
    <3>2. CASE IsInternal(store[id])
      <4>1. PICK c \in PageId : c = Route(store[id].entries, k) /\ level[id] = level[c] + 1
        BY <3>2 DEF RoutesDown
      <4>2. level[c] \in Nat
        OBVIOUS
      <4>3. level[c] < n - 1
        BY <2>1, <4>1, <4>2
      <4>4. d[c] = e[c]
        BY <2>4, <2>6, <4>3
      <4> QED
        BY <4>1, <4>4 DEF DownFrom
    <3> QED
      BY <3>1, <3>2
  <2> HIDE DEF Solves
  <2>8. n \in {m \in Nat : ~\E g : Solves(g, m)}
    BY <1>2
  <2> QED
    BY <2>7, <2>8
<1>3. Bad = {}
  <2>1. Bad \in SUBSET Nat
    BY Zenon
  <2> HIDE DEF Bad
  <2> QED
    BY <1>2, <2>1, SmallestNat
<1>4. PICK M \in Nat : \A id \in PageId : level[id] < M
  BY LevelsAreBounded
<1>5. PICK d : Solves(d, M)
  BY <1>3, Zenon
<1>6. \A id \in PageId : d[id] = DownFrom(d, store, k, id)
  BY <1>4, <1>5
<1>7. PICK e : e = Down(d, store, k)
  OBVIOUS
<1>8. \A id \in PageId : e[id] = d[id]
  BY <1>6, <1>7 DEF Down
<1>9. \A id \in PageId : DownFrom(e, store, k, id) = DownFrom(d, store, k, id)
  BY <1>8 DEF DownFrom, RoutesDown
<1>10. e = Down(e, store, k)
  BY <1>7, <1>9 DEF Down
<1> QED
  BY <1>10

\* A path from id goes down a level at a time, and ends where it has to.
GoesDown(path, id, store, level) ==
    /\ path \in Seq(PageId) /\ Len(path) >= 1 /\ path[1] = id
    /\ \A i \in 1..Len(path) : level[path[i]] = level[id] + 1 - i
    /\ \A i \in 1..(Len(path) - 1) : IsInternal(store[path[i]])

LEMMA PathGoesDown ==
    ASSUME NEW store, NEW k, NEW level \in [PageId -> Nat], RoutesDown(store, k, level),
           NEW d, d = Down(d, store, k)
    PROVE  \A id \in PageId : GoesDown(d[id], id, store, level)
<1> DEFINE Bad == {n \in Nat : \E id \in PageId : level[id] = n /\ ~GoesDown(d[id], id, store, level)}
<1>1. ASSUME NEW n \in Bad, \A x \in Bad : n <= x PROVE FALSE
  <2>1. PICK id \in PageId : level[id] = n /\ ~GoesDown(d[id], id, store, level)
    BY <1>1
  <2>2. d[id] = DownFrom(d, store, k, id)
    BY DEF Down
  <2>3. CASE ~IsInternal(store[id])
    <3>1. d[id] = <<id>>
      BY <2>2, <2>3 DEF DownFrom
    <3>2. PICK p : p = <<id>>
      OBVIOUS
    <3>3. p \in Seq(PageId) /\ Len(p) = 1 /\ p[1] = id
      BY <3>2
    <3>4. level[id] \in Nat /\ \A i \in 1..1 : i = 1
      OBVIOUS
    <3>5. \A i \in 1..Len(p) : level[p[i]] = level[id] + 1 - i
      BY <3>3, <3>4
    <3>6. \A i \in 1..(Len(p) - 1) : FALSE
      BY <3>3
    <3>7. GoesDown(p, id, store, level)
      BY <3>3, <3>5, <3>6 DEF GoesDown
    <3> QED
      BY <2>1, <3>1, <3>2, <3>7
  <2>4. CASE IsInternal(store[id])
    <3>1. PICK c \in PageId : c = Route(store[id].entries, k) /\ level[id] = level[c] + 1
      BY <2>4 DEF RoutesDown
    <3>2. level[c] \in Nat /\ ~(n <= level[c])
      BY <2>1, <3>1
    <3>3. level[c] \notin Bad
      BY <1>1, <3>2, Zenon
    <3>4. GoesDown(d[c], c, store, level)
      BY <3>2, <3>3, Zenon
    <3>5. PICK p, q, r : p = d[c] /\ q = <<id>> /\ r = q \o p
      OBVIOUS
    <3>6. /\ p \in Seq(PageId) /\ Len(p) >= 1 /\ p[1] = c
          /\ \A i \in 1..Len(p) : level[p[i]] = level[c] + 1 - i
          /\ \A i \in 1..(Len(p) - 1) : IsInternal(store[p[i]])
      BY <3>4, <3>5 DEF GoesDown
    <3>7. q \in Seq(PageId) /\ Len(q) = 1 /\ q[1] = id
      BY <3>5
    <3>8. PICK m \in Nat : m = Len(p)
      BY <3>6, LenProperties
    <3>9. /\ r \in Seq(PageId) /\ Len(r) = Len(q) + Len(p)
          /\ \A i \in 1..(Len(q) + Len(p)) : r[i] = IF i <= Len(q) THEN q[i] ELSE p[i - Len(q)]
      <4>1. p \in Seq(PageId) /\ q \in Seq(PageId) /\ r = q \o p
        BY <3>5, <3>6, <3>7
      <4> QED
        BY <4>1, ConcatProperties
    <3>10. Len(r) = m + 1 /\ m >= 1
      BY <3>6, <3>7, <3>8, <3>9
    <3>11. r[1] = id
      BY <3>7, <3>8, <3>9, <3>10
    <3>12. \A i \in 2..m + 1 : r[i] = p[i - 1]
      <4> TAKE i \in 2..m + 1
      <4>1. i \in 1..(1 + m) /\ ~(i <= 1)
        BY <3>8
      <4> QED
        BY <3>7, <3>8, <3>9, <4>1
    <3>13. \A i \in 1..Len(r) : level[r[i]] = level[id] + 1 - i
      <4> TAKE i \in 1..Len(r)
      <4>1. CASE i = 1
        <5>1. level[id] \in Nat
          OBVIOUS
        <5> QED
          BY <3>11, <4>1, <5>1
      <4>2. CASE i # 1
        <5>1. i \in 2..m + 1 /\ i - 1 \in 1..m /\ i \in Nat
          BY <3>10, <4>2
        <5>2. level[r[i]] = level[c] + 1 - (i - 1)
          BY <3>6, <3>8, <3>12, <5>1
        <5> QED
          BY <3>1, <3>2, <5>1, <5>2
      <4> QED
        BY <4>1, <4>2
    <3>14. \A i \in 1..(Len(r) - 1) : IsInternal(store[r[i]])
      <4> TAKE i \in 1..(Len(r) - 1)
      <4>1. CASE i = 1
        BY <2>4, <3>11, <4>1
      <4>2. CASE i # 1
        <5>1. i \in 2..m + 1 /\ i - 1 \in 1..(m - 1)
          BY <3>10, <4>2
        <5> QED
          BY <3>6, <3>8, <3>12, <5>1
      <4> QED
        BY <4>1, <4>2
    <3>15. Len(r) >= 1
      BY <3>10
    <3>16. GoesDown(r, id, store, level)
      BY <3>9, <3>11, <3>13, <3>14, <3>15 DEF GoesDown
    <3>17. d[id] = r
      BY <2>2, <2>4, <3>1, <3>5 DEF DownFrom
    <3> QED
      BY <2>1, <3>16, <3>17
  <2> QED
    BY <2>3, <2>4
<1>2. Bad = {}
  <2>1. Bad \in SUBSET Nat
    BY Zenon
  <2> HIDE DEF Bad
  <2> QED
    BY <1>1, <2>1, SmallestNat
<1>3. \A id \in PageId : level[id] \in Nat
  OBVIOUS
<1> QED
  BY <1>2, <1>3, Zenon

LEMMA PathToGoesDown ==
    ASSUME NEW store, NEW k, NEW level \in [PageId -> Nat], RoutesDown(store, k, level),
           Root(store) \in PageId
    PROVE  GoesDown(PathTo(store, k), Root(store), store, level)
<1> DEFINE down == CHOOSE d : d = Down(d, store, k)
<1>1. down = Down(down, store, k)
  BY DownSolved, Zenon
<1>2. PathTo(store, k) = down[Root(store)]
  BY DEF PathTo, Down, DownFrom
<1> HIDE DEF down
<1> QED
  BY <1>1, <1>2, PathGoesDown

-----------------------------------------------------------------------------
(* The invariant at given levels, and what it says of the pages.           *)

CallOK ==
    \/ call \in {Idle, [op |-> "closed"]}
    \/ /\ call.op = "insert" /\ call.path \in Seq(PageId)
       /\ call.sep \in Key /\ call.child \in PageId
    \/ call.op = "delete" /\ call.path \in Seq(PageId) /\ call.key \in Key

StateOK ==
    /\ dirty \subseteq PageId
    /\ next_id \in 1..MaxPage + 1
    /\ errors \in 0..MaxErrors
    /\ dict \in [Key -> Val \cup {None}]

LEMMA TypeParts == TypeOK <=> pages \in [PageId -> Page] /\ StateOK /\ CallOK
BY Zenon DEF TypeOK, StateOK, CallOK

TreeAt(level) ==
    /\ level \in [PageId -> Nat]
    /\ TypeOK /\ RootIsNode /\ Levelled(level) /\ OnItsWayUp(level)

LEMMA TreeInvAt == TreeInv <=> \E level : TreeAt(level)
BY Zenon DEF TreeInv, TreeAt

LEMMA IdFacts == MaxPage \in Nat /\ PageId = 0..MaxPage /\ 0 \in PageId /\ META_PAGE_ID = 0
BY BoundsAssumption DEF PageId, META_PAGE_ID

LEMMA NodeFacts ==
    ASSUME TypeOK, RootIsNode
    PROVE  /\ Nodes \subseteq PageId /\ 0 \notin Nodes /\ next_id \notin Nodes
           /\ \A id \in Nodes : IsLeaf(pages[id]) \/ IsInternal(pages[id])
           /\ \A id \in PageId : IsLeaf(pages[id]) \/ IsInternal(pages[id]) => id \in Nodes
           /\ call.op # "closed" => pages[0] = Meta(Root(pages)) /\ Root(pages) \in Nodes
           /\ ~IsLeaf(pages[0]) /\ ~IsInternal(pages[0])
<1>1. next_id \in 1..MaxPage + 1
  BY TypeParts DEF StateOK
<1>2. Nodes \subseteq PageId /\ 0 \notin Nodes /\ next_id \notin Nodes
  BY <1>1, IdFacts DEF Nodes
<1>3. \A id \in Nodes : IsLeaf(pages[id]) \/ IsInternal(pages[id])
  BY DEF Nodes
<1>4. call.op # "closed" => pages[0] = Meta(Root(pages)) /\ Root(pages) \in Nodes
  BY IdFacts DEF RootIsNode
<1>5. ~IsLeaf(pages[0]) /\ ~IsInternal(pages[0])
  <2>1. CASE pages[0] = Blank
    BY <2>1, BlankFacts
  <2>2. CASE pages[0] = Meta(Root(pages)) /\ Root(pages) \in Nodes
    BY <1>2, <2>2, MetaFacts
  <2> QED
    BY <2>1, <2>2, IdFacts DEF RootIsNode
<1>6. ASSUME NEW id \in PageId, IsLeaf(pages[id]) \/ IsInternal(pages[id]) PROVE id \in Nodes
  <2>1. id # 0
    BY <1>5, <1>6
  <2>2. id \notin next_id..MaxPage
    BY <1>6, BlankFacts DEF RootIsNode
  <2>3. id \in 1..next_id - 1
    BY <1>1, <2>1, <2>2, IdFacts
  <2> QED
    BY <1>6, <2>3 DEF Nodes
<1> QED
  BY <1>2, <1>3, <1>4, <1>5, <1>6

LEMMA InternalPage ==
    ASSUME NEW level, TreeAt(level), NEW id \in PageId, IsInternal(pages[id])
    PROVE  /\ id \in Nodes /\ id # 0 /\ pages[id].entries \in Seq(ChildEntry)
           /\ OneAbove(pages[id].entries, level[id], level, Nodes)
           /\ Nodes \subseteq PageId
<1>1. pages[id] \in Page
  BY TypeParts DEF TreeAt
<1>2. pages[id].entries \in Seq(ChildEntry)
  BY <1>1, PageFacts
<1>3. OneAbove(pages[id].entries, level[id], level, Nodes)
  BY DEF TreeAt, Levelled, InPlace
<1> QED
  BY <1>2, <1>3, NodeFacts DEF TreeAt

LEMMA TreeRoutesDown ==
    ASSUME NEW level, TreeAt(level), NEW k
    PROVE  RoutesDown(pages, k, level)
<1> SUFFICES ASSUME NEW id \in PageId, IsInternal(pages[id])
             PROVE  /\ Route(pages[id].entries, k) \in PageId
                    /\ level[id] = level[Route(pages[id].entries, k)] + 1
  BY DEF RoutesDown
<1>1. PICK entries \in Seq(ChildEntry) : entries = pages[id].entries
  BY InternalPage
<1>2. PICK h : h = level[id]
  OBVIOUS
<1>3. OneAbove(entries, h, level, Nodes) /\ Nodes \subseteq PageId
  BY <1>1, <1>2, InternalPage
<1>4. Route(entries, k) \in Nodes /\ h = level[Route(entries, k)] + 1
  BY <1>3, RouteIsBelow
<1> QED
  BY <1>1, <1>2, <1>3, <1>4

\* A descent ends in a leaf, and has been down every level.
LEMMA DescentFacts ==
    ASSUME NEW level, TreeAt(level), call = Idle, NEW k, NEW path \in Descent(k)
    PROVE  /\ Last(path) \in Nodes /\ IsLeaf(pages[Last(path)])
           /\ pages[Last(path)].entries \in Seq(LeafEntry) /\ pages[Last(path)].next \in PageId
           /\ Front(path) \in Seq(PageId) /\ level[Last(path)] = 0
           /\ level[Root(pages)] = Len(Front(path))
           /\ \A i \in 1..Len(Front(path)) : /\ IsInternal(pages[Front(path)[i]])
                                             /\ level[Front(path)[i]] = Len(Front(path)) + 1 - i
           /\ Front(path) # <<>> => IsInternal(pages[Root(pages)])
<1>1. path = PathTo(pages, k) /\ IsLeaf(pages[Last(path)]) /\ pages[Last(path)].next # NoSlot
  BY DEF Descent
<1>2. level \in [PageId -> Nat] /\ call.op # "closed" /\ pages \in [PageId -> Page]
  BY TypeParts DEF TreeAt, Idle
<1>3. Root(pages) \in Nodes /\ Nodes \subseteq PageId
  BY <1>2, NodeFacts DEF TreeAt
<1>4. PICK root \in PageId : root = Root(pages)
  BY <1>3
<1>5. GoesDown(path, root, pages, level)
  BY <1>1, <1>2, <1>4, TreeRoutesDown, PathToGoesDown
<1>6. PICK n \in Nat : n = Len(path)
  BY <1>5, LenProperties DEF GoesDown
<1>7. /\ path \in Seq(PageId) /\ n >= 1 /\ path[1] = root
      /\ \A i \in 1..n : level[path[i]] = level[root] + 1 - i
      /\ \A i \in 1..(n - 1) : IsInternal(pages[path[i]])
  BY <1>5, <1>6 DEF GoesDown
<1>8. path # <<>>
  BY <1>6, <1>7, EmptySeq
<1>9. PICK up, leaf : up = Front(path) /\ leaf = Last(path)
  OBVIOUS
<1>10. /\ leaf \in PageId /\ leaf = path[n] /\ up \in Seq(PageId) /\ Len(up) = n - 1
       /\ \A i \in 1..(n - 1) : up[i] = path[i]
  BY <1>6, <1>7, <1>8, <1>9, FrontFacts
<1>11. leaf \in Nodes /\ level[leaf] = 0
  BY <1>1, <1>9, <1>10, NodeFacts DEF TreeAt, Levelled, InPlace
<1>12. level[root] = n - 1
  <2>1. n \in 1..n
    BY <1>7
  <2>2. level[leaf] = level[root] + 1 - n /\ level[root] \in Nat
    BY <1>2, <1>7, <1>10, <2>1
  <2> QED
    BY <1>11, <2>2
<1>13. \A i \in 1..(n - 1) : IsInternal(pages[up[i]]) /\ level[up[i]] = n - 1 + 1 - i
  <2> TAKE i \in 1..(n - 1)
  <2>1. i \in 1..n
    OBVIOUS
  <2> QED
    BY <1>7, <1>10, <1>12, <2>1
<1>14. up # <<>> => IsInternal(pages[root])
  <2> SUFFICES ASSUME up # <<>> PROVE IsInternal(pages[root])
    OBVIOUS
  <2>1. Len(up) # 0
    BY <1>10, EmptySeq
  <2>2. 1 \in 1..(n - 1)
    BY <1>10, <2>1
  <2> QED
    BY <1>7, <2>2
<1>15. pages[leaf].entries \in Seq(LeafEntry) /\ pages[leaf].next \in PageId
  <2>1. pages[leaf] \in Page
    BY <1>2, <1>10
  <2> QED
    BY <1>1, <1>9, <2>1, PageFacts
<1> QED
  BY <1>1, <1>4, <1>9, <1>10, <1>11, <1>12, <1>13, <1>14, <1>15

-----------------------------------------------------------------------------
(* A step rewrites some nodes, builds new ones, and may move the root.     *)

LEMMA RewriteFacts ==
    ASSUME TypeOK, NEW a \in PageId, NEW p \in Page, Rewrite(a, p)
    PROVE  /\ pages' \in [PageId -> Page] /\ dirty' \subseteq PageId /\ pages'[a] = p
           /\ \A id \in PageId \ {a} : pages'[id] = pages[id]
BY DEF TypeOK, Rewrite

LEMMA RewriteBothFacts ==
    ASSUME TypeOK, NEW a \in PageId, NEW p \in Page, NEW b \in PageId, NEW q \in Page, a # b,
           RewriteBoth(a, p, b, q)
    PROVE  /\ pages' \in [PageId -> Page] /\ dirty' \subseteq PageId
           /\ pages'[a] = p /\ pages'[b] = q
           /\ \A id \in PageId \ {a, b} : pages'[id] = pages[id]
BY DEF TypeOK, RewriteBoth

LEMMA AllocateFacts ==
    ASSUME TypeOK, RootIsNode, Allocate
    PROVE  /\ next_id \in PageId /\ next_id # 0 /\ next_id \notin Nodes
           /\ next_id' = next_id + 1 /\ next_id' \in 1..MaxPage + 1
<1>1. next_id \in 1..MaxPage + 1
  BY TypeParts DEF StateOK
<1> QED
  BY <1>1, IdFacts, NodeFacts DEF Allocate

LEMMA WiderRange ==
    ASSUME NEW n \in Nat, NEW m \in Nat, n <= m, NEW i \in 1..n - 1
    PROVE  i \in 1..m - 1
OBVIOUS

\* The pages of C are nodes after the step; all others but the meta page are
\* as they were.
Rebuilds(C) ==
    /\ pages' \in [PageId -> Page]
    /\ next_id' \in 1..MaxPage + 1 /\ next_id' \in {next_id, next_id + 1}
    /\ C \subseteq PageId \ {0} /\ C \subseteq Nodes \cup {next_id}
    /\ next_id \in C => next_id' = next_id + 1
    /\ \A id \in PageId \ C : id # 0 => pages'[id] = pages[id]
    /\ \A id \in C : IsLeaf(pages'[id]) \/ IsInternal(pages'[id])

LEMMA NodesStay ==
    ASSUME TypeOK, RootIsNode, NEW C, Rebuilds(C)
    PROVE  /\ Nodes \subseteq Nodes' /\ C \subseteq Nodes'
           /\ \A id \in next_id'..MaxPage : pages'[id] = Blank
<1>1. next_id \in 1..MaxPage + 1 /\ next_id \in Nat
  BY TypeParts DEF StateOK
<1>2. next_id' \in Nat /\ next_id <= next_id' /\ next_id' \in 1..MaxPage + 1
  BY <1>1 DEF Rebuilds
<1>3. ASSUME NEW id \in C PROVE id \in Nodes'
  <2>1. id \in PageId /\ id # 0 /\ (id \in Nodes \/ id = next_id)
    BY <1>3 DEF Rebuilds
  <2>2. id \in 1..next_id' - 1
    <3>1. CASE id \in Nodes
      <4>1. id \in 1..next_id - 1
        BY <3>1 DEF Nodes
      <4> QED
        BY ONLY <1>1, <1>2, <4>1, WiderRange
    <3>2. CASE id = next_id
      <4>1. next_id' = next_id + 1
        BY <1>3, <3>2 DEF Rebuilds
      <4> QED
        BY <1>1, <3>2, <4>1
    <3> QED
      BY <2>1, <3>1, <3>2
  <2>3. IsLeaf(pages'[id]) \/ IsInternal(pages'[id])
    BY <1>3 DEF Rebuilds
  <2> QED
    BY <2>2, <2>3 DEF Nodes, IsLeaf, IsInternal
<1>4. ASSUME NEW id \in Nodes PROVE id \in Nodes'
  <2>1. CASE id \in C
    BY <1>3, <2>1
  <2>2. CASE id \notin C
    <3>1. id \in PageId /\ id # 0 /\ (IsLeaf(pages[id]) \/ IsInternal(pages[id]))
      BY <1>4, NodeFacts
    <3>2. pages'[id] = pages[id]
      BY <2>2, <3>1 DEF Rebuilds
    <3>3. id \in 1..next_id - 1
      BY <1>4 DEF Nodes
    <3>4. id \in 1..next_id' - 1
      BY ONLY <1>1, <1>2, <3>3, WiderRange
    <3> QED
      BY <3>1, <3>2, <3>4 DEF Nodes, IsLeaf, IsInternal
  <2> QED
    BY <2>1, <2>2
<1>5. ASSUME NEW id \in next_id'..MaxPage PROVE pages'[id] = Blank
  <2>1. id \in next_id..MaxPage /\ id \in PageId /\ id # 0
    BY <1>1, <1>2, IdFacts
  <2>2. id \notin Nodes
    <3>1. id \notin 1..next_id - 1
      BY <1>1, <2>1, IdFacts
    <3> QED
      BY <3>1 DEF Nodes
  <2>3. id = next_id => next_id' = next_id
    <3>1. next_id' = next_id + 1 => id # next_id
      BY <1>1
    <3> QED
      BY <3>1 DEF Rebuilds
  <2>4. id \notin C
    <3>1. next_id' = next_id => next_id \notin C
      BY <1>1 DEF Rebuilds
    <3> QED
      BY <2>2, <2>3, <3>1 DEF Rebuilds
  <2> QED
    BY <2>1, <2>4 DEF Rebuilds, RootIsNode
<1> QED
  BY <1>3, <1>4, <1>5

\* The root stays what it was, or becomes another node.
Rooted ==
    \/ call.op # "closed" /\ pages'[0] = pages[0]
    \/ \E root \in Nodes' : pages'[0] = Meta(root)

LEMMA RootStays ==
    ASSUME TypeOK, RootIsNode, NEW C, Rebuilds(C), Rooted
    PROVE  /\ RootIsNode' /\ ~IsLeaf(pages'[0]) /\ ~IsInternal(pages'[0])
           /\ pages'[0] = pages[0] => Root(pages)' = Root(pages)
           /\ \A root \in PageId : pages'[0] = Meta(root) => Root(pages)' = root
<1>1. Root(pages)' = pages'[0].entries[1].child /\ Root(pages) = pages[0].entries[1].child
  BY IdFacts DEF Root
<1>2. \A root \in PageId : pages'[0] = Meta(root) => Root(pages)' = root
  BY <1>1, MetaFacts
<1>3. PICK root \in Nodes' : pages'[0] = Meta(root)
  BY NodesStay, NodeFacts DEF Rooted
<1>4. root \in PageId
  <2>1. root \in 1..next_id' - 1 /\ next_id' \in 1..MaxPage + 1
    BY <1>3 DEF Nodes, Rebuilds
  <2>2. PICK n \in 1..MaxPage + 1 : n = next_id'
    BY <2>1
  <2>3. root \in 1..n - 1
    BY <2>1, <2>2
  <2>4. root \in 0..MaxPage
    BY ONLY <2>3, IdFacts
  <2> QED
    BY <2>4, IdFacts
<1>5. Root(pages)' = root
  BY <1>2, <1>3, <1>4
<1>6. RootIsNode'
  <2>1. \A id \in next_id'..MaxPage : pages'[id] = Blank
    BY NodesStay
  <2>2. pages'[0] = Meta(Root(pages)') /\ Root(pages)' \in Nodes'
    BY <1>3, <1>5
  <2>3. pages'[META_PAGE_ID] = pages'[0]
    BY IdFacts
  <2> QED
    BY <2>1, <2>2, <2>3 DEF RootIsNode, Meta, Leftmost, InternalEntry
<1>7. ~IsLeaf(pages'[0]) /\ ~IsInternal(pages'[0])
  BY <1>3, <1>4, MetaFacts
<1> QED
  BY <1>1, <1>2, <1>6, <1>7

\* The pages of a step are where they belong if the ones it rewrites are.
LEMMA LevelsStay ==
    ASSUME NEW level, TreeAt(level), NEW C, Rebuilds(C), Rooted,
           NEW level2, \A id \in Nodes : level2[id] = level[id],
           \A id \in C : InPlace(pages'[id], id, level2, Nodes')
    PROVE  Levelled(level2)'
<1>1. ASSUME NEW id \in PageId PROVE InPlace(pages'[id], id, level2, Nodes')
  <2>1. CASE id \in C
    BY <2>1
  <2>2. CASE id = 0
    BY <2>2, RootStays DEF InPlace, TreeAt
  <2>3. CASE id \notin C /\ id # 0
    <3>1. pages'[id] = pages[id]
      BY <2>3 DEF Rebuilds
    <3>2. PICK page : page = pages[id]
      OBVIOUS
    <3>3. IsLeaf(page) \/ IsInternal(page) => level2[id] = level[id]
      BY <3>2, NodeFacts DEF TreeAt
    <3>4. InPlace(page, id, level, Nodes)
      BY <3>2 DEF TreeAt, Levelled
    <3>5. IsLeaf(page) => level2[id] = 0
      BY <3>3, <3>4 DEF InPlace
    <3>6. IsInternal(page) => OneAbove(page.entries, level2[id], level2, Nodes')
      <4> SUFFICES ASSUME IsInternal(page) PROVE OneAbove(page.entries, level2[id], level2, Nodes')
        OBVIOUS
      <4>1. PICK entries, h, nodes, nodes2 : /\ entries = page.entries /\ h = level[id]
                                             /\ nodes = Nodes /\ nodes2 = Nodes'
        OBVIOUS
      <4>2. OneAbove(entries, h, level, nodes)
        BY <3>4, <4>1 DEF InPlace
      <4>3. nodes \subseteq nodes2 /\ \A n \in nodes : level2[n] = level[n]
        BY <4>1, NodesStay DEF TreeAt
      <4>4. OneAbove(entries, h, level2, nodes2)
        BY <4>2, <4>3, OneAboveStays
      <4> QED
        BY <3>3, <4>1, <4>4
    <3> QED
      BY <3>1, <3>2, <3>5, <3>6 DEF InPlace
  <2> QED
    BY <2>1, <2>2, <2>3
<1>2. PICK s, nodes : s = pages' /\ nodes = Nodes'
  OBVIOUS
<1>3. \A id \in PageId : InPlace(s[id], id, level2, nodes)
  BY <1>1, <1>2
<1> QED
  BY <1>2, <1>3 DEF Levelled, InPlace, OneAbove, IsLeaf, IsInternal

LEMMA Assembled ==
    ASSUME NEW level, TreeAt(level), NEW C, Rebuilds(C), Rooted,
           NEW level2 \in [PageId -> Nat], \A id \in Nodes : level2[id] = level[id],
           \A id \in C : InPlace(pages'[id], id, level2, Nodes'),
           StateOK', CallOK', OnItsWayUp(level2)'
    PROVE  TreeInv'
<1>1. TypeOK'
  <2>1. (TypeOK <=> pages \in [PageId -> Page] /\ StateOK /\ CallOK)'
    BY TypeParts, PTL
  <2>2. pages' \in [PageId -> Page]
    BY DEF Rebuilds
  <2> QED
    BY <2>1, <2>2
<1>2. RootIsNode'
  BY RootStays DEF TreeAt
<1>3. Levelled(level2)'
  BY LevelsStay
<1> QED
  BY <1>1, <1>2, <1>3, Zenon DEF TreeInv

LEMMA IdleFacts ==
    ASSUME call' = Idle, NEW level
    PROVE  CallOK' /\ OnItsWayUp(level)'
<1>1. call'.op = "idle"
  BY DEF Idle
<1> QED
  BY <1>1, Zenon DEF CallOK, OnItsWayUp

LEMMA LeafInPlace ==
    ASSUME NEW page, IsLeaf(page), ~IsInternal(page), NEW id, NEW level, level[id] = 0, NEW nodes
    PROVE  InPlace(page, id, level, nodes)
BY DEF InPlace

LEMMA InternalInPlace ==
    ASSUME NEW entries \in Seq(ChildEntry), NEW id, NEW level, NEW nodes,
           OneAbove(entries, level[id], level, nodes)
    PROVE  InPlace(Internal(entries), id, level, nodes)
BY InternalFacts DEF InPlace

LEMMA ErrorFacts ==
    ASSUME TypeOK, Error
    PROVE  call' = Idle /\ errors' \in 0..MaxErrors
BY BoundsAssumption DEF TypeOK, Error

\* The levels with h for a new page.
Raised(level, n, h) == [level EXCEPT ![n] = h]

LEMMA RaisedFacts ==
    ASSUME NEW level \in [PageId -> Nat], NEW n \in PageId, NEW h \in Nat
    PROVE  /\ Raised(level, n, h) \in [PageId -> Nat] /\ Raised(level, n, h)[n] = h
           /\ \A id \in PageId \ {n} : Raised(level, n, h)[id] = level[id]
BY DEF Raised

DictOK == dict \in [Key -> Val \cup {None}]

\* A call that rewrites the leaf it came to.
LEMMA LeafRewritten ==
    ASSUME NEW level, TreeAt(level), call = Idle, NEW k, NEW path \in Descent(k),
           NEW entries \in Seq(LeafEntry), Rewrite(Last(path), Leaf(entries, pages[Last(path)].next)),
           UNCHANGED <<next_id, errors>>, DictOK',
           CallOK', OnItsWayUp(level)'
    PROVE  TreeInv'
<1>1. PICK id : id = Last(path)
  OBVIOUS
<1>2. PICK page : page = Leaf(entries, pages[id].next)
  OBVIOUS
<1>3. id \in Nodes /\ id \in PageId /\ id # 0 /\ pages[id].next \in PageId /\ level[id] = 0
  BY <1>1, DescentFacts, NodeFacts DEF TreeAt
<1>4. page \in Page /\ IsLeaf(page) /\ ~IsInternal(page)
  BY <1>2, <1>3, LeafFacts
<1>5. /\ pages' \in [PageId -> Page] /\ dirty' \subseteq PageId /\ pages'[id] = page
      /\ \A x \in PageId \ {id} : pages'[x] = pages[x]
  BY <1>1, <1>2, <1>3, <1>4, RewriteFacts DEF TreeAt
<1>6. StateOK /\ next_id \notin Nodes /\ call.op # "closed"
  BY TypeParts, NodeFacts DEF TreeAt, Idle
<1>7. PICK C : C = {id}
  OBVIOUS
<1>8. Rebuilds(C)
  BY <1>3, <1>4, <1>5, <1>6, <1>7 DEF Rebuilds, StateOK
<1>9. Rooted
  BY <1>3, <1>5, <1>6, IdFacts DEF Rooted
<1>10. \A x \in C : InPlace(pages'[x], x, level, Nodes')
  <2>1. \A nodes : InPlace(page, id, level, nodes)
    BY <1>3, <1>4, LeafInPlace
  <2> QED
    BY <1>5, <1>7, <2>1, Zenon
<1>11. StateOK'
  BY <1>5, <1>6 DEF StateOK, DictOK
<1>12. level \in [PageId -> Nat]
  BY DEF TreeAt
<1> QED
  BY <1>8, <1>9, <1>10, <1>11, <1>12, Assembled

LEMMA InsertInLeafStep ==
    ASSUME TreeInv, NEW k \in Key, NEW v \in Val, InsertInLeaf(k, v), DictOK'
    PROVE  TreeInv'
<1>1. PICK level : TreeAt(level)
  BY TreeInvAt
<1>2. PICK path \in Descent(k) :
         /\ call = Idle
         /\ Rewrite(Last(path), Leaf(Upsert(pages[Last(path)].entries, k, v), pages[Last(path)].next))
         /\ UNCHANGED <<next_id, call, errors>>
  BY DEF InsertInLeaf
<1>3. pages[Last(path)].entries \in Seq(LeafEntry)
  BY <1>1, <1>2, DescentFacts
<1>4. PICK entries \in Seq(LeafEntry) : entries = Upsert(pages[Last(path)].entries, k, v)
  BY <1>3, UpsertFacts
<1>5. CallOK' /\ OnItsWayUp(level)'
  BY <1>2, IdleFacts
<1>6. UNCHANGED <<next_id, errors>>
  BY <1>2
<1>7. Rewrite(Last(path), Leaf(entries, pages[Last(path)].next))
  BY <1>2, <1>4
<1> QED
  BY <1>1, <1>2, <1>5, <1>6, <1>7, LeafRewritten

LEMMA DeleteFromLeafStep ==
    ASSUME TreeInv, NEW k \in Key, DeleteFromLeaf(k), DictOK'
    PROVE  TreeInv'
<1>1. PICK level : TreeAt(level)
  BY TreeInvAt
<1>2. PICK path \in Descent(k) :
         LET id == Last(path)
             entries == RemoveAt(pages[id].entries, Position(pages[id].entries, k))
         IN  /\ call = Idle
             /\ Found(pages[id].entries, k)
             /\ Rewrite(id, Leaf(entries, pages[id].next))
             /\ call' = AfterDelete(Front(path), entries, k)
             /\ UNCHANGED <<next_id, errors>>
  BY DEF DeleteFromLeaf
<1>3. PICK id : id = Last(path)
  OBVIOUS
<1>4. pages[id].entries \in Seq(LeafEntry)
  BY <1>1, <1>2, <1>3, DescentFacts
<1>5. PICK entries \in Seq(LeafEntry) :
         entries = RemoveAt(pages[id].entries, Position(pages[id].entries, k))
  BY <1>2, <1>3, <1>4, DeletedFacts
<1>6. PICK up : up = Front(path)
  OBVIOUS
<1>7. /\ up \in Seq(PageId) /\ \A i \in 1..Len(up) : IsInternal(pages[up[i]])
      /\ up # <<>> => IsInternal(pages[Root(pages)])
      /\ id \in Nodes /\ IsLeaf(pages[id])
  BY <1>1, <1>2, <1>3, <1>6, DescentFacts
<1>8. call' = AfterDelete(up, entries, k) /\ Rewrite(id, Leaf(entries, pages[id].next))
      /\ UNCHANGED <<next_id, errors>> /\ call = Idle
  BY <1>2, <1>3, <1>5, <1>6
<1>9. CASE call' = Idle
  <2>1. CallOK' /\ OnItsWayUp(level)'
    BY <1>9, IdleFacts
  <2> QED
    BY <1>1, <1>3, <1>8, <2>1, LeafRewritten
<1>10. CASE call' # Idle
  <2>1. call' = [op |-> "delete", path |-> up, key |-> k] /\ up # <<>>
    BY <1>8, <1>10 DEF AfterDelete, Unlinking
  <2>2. call'.op = "delete" /\ call'.path = up /\ call'.key = k
    BY <2>1
  <2>3. CallOK'
    BY <1>7, <2>2, Zenon DEF CallOK
  <2>4. DOMAIN up = 1..Len(up) /\ \A i \in 1..Len(up) : up[i] \in PageId
    BY <1>7, LenProperties, ElementOfSeq
  <2>5. id \in PageId /\ id # 0 /\ Nodes \subseteq PageId /\ Root(pages) \in Nodes
    BY <1>1, <1>7, <1>8, NodeFacts DEF TreeAt, Idle
  <2>6. \A x \in PageId \ {id} : pages'[x] = pages[x]
    BY <1>1, <1>8, <2>5 DEF Rewrite, TreeAt, TypeOK
  <2>7. \A x \in PageId : IsInternal(pages[x]) => x # id
    BY <1>1, <1>7, <2>5, PageFacts DEF TreeAt, TypeOK
  <2>8. \A x \in PageId : IsInternal(pages[x]) => IsInternal(pages'[x])
    BY <2>6, <2>7
  <2>9. Root(pages') = Root(pages)
    BY <2>5, <2>6, IdFacts DEF Root
  <2>10. IsInternal(pages'[Root(pages')])
    BY <1>7, <2>1, <2>5, <2>8, <2>9
  <2>11. \A i \in DOMAIN up : IsInternal(pages'[up[i]])
    BY <1>7, <2>4, <2>8
  <2>12. OnItsWayUp(level)'
    BY <2>2, <2>10, <2>11 DEF OnItsWayUp, IsInternal, Root
  <2> QED
    BY <1>1, <1>3, <1>8, <2>3, <2>12, LeafRewritten
<1> QED
  BY <1>9, <1>10

-----------------------------------------------------------------------------
(* Leaves that split, and calls that give up.                              *)

\* A call that rewrites the leaf it came to and builds another.
TwoLeaves(id, n) ==
    /\ pages' \in [PageId -> Page] /\ dirty' \subseteq PageId
    /\ IsLeaf(pages'[id]) /\ ~IsInternal(pages'[id])
    /\ IsLeaf(pages'[n]) /\ ~IsInternal(pages'[n])
    /\ \A x \in PageId \ {id, n} : pages'[x] = pages[x]

LEMMA TwoLeavesRebuild ==
    ASSUME NEW level, TreeAt(level), call = Idle, NEW id \in Nodes, IsLeaf(pages[id]),
           Allocate, NEW n, n = next_id, TwoLeaves(id, n)
    PROVE  /\ Rebuilds({id, n}) /\ Rooted /\ Root(pages)' = Root(pages)
           /\ Nodes \subseteq Nodes' /\ n \in Nodes'
           /\ \A x \in PageId : IsInternal(pages[x]) => IsInternal(pages'[x])
<1>1. id \in PageId /\ id # 0 /\ ~IsInternal(pages[id])
  BY NodeFacts, PageFacts DEF TreeAt, TypeOK
<1>2. /\ n \in PageId /\ n # 0 /\ n \notin Nodes
      /\ next_id' = next_id + 1 /\ next_id' \in 1..MaxPage + 1
  BY AllocateFacts DEF TreeAt
<1>3. Rebuilds({id, n})
  BY <1>1, <1>2 DEF Rebuilds, TwoLeaves
<1>4. pages'[0] = pages[0]
  BY <1>1, <1>2, IdFacts DEF TwoLeaves
<1>5. Rooted
  BY <1>4 DEF Rooted, Idle
<1>6. Root(pages)' = Root(pages)
  BY <1>3, <1>4, <1>5, RootStays DEF TreeAt
<1>7. Nodes \subseteq Nodes' /\ n \in Nodes'
  BY <1>3, NodesStay DEF TreeAt
<1>8. ASSUME NEW x \in PageId, IsInternal(pages[x]) PROVE IsInternal(pages'[x])
  <2>1. x # id
    BY <1>1, <1>8
  <2>2. x # n
    BY <1>2, <1>8, NodeFacts DEF TreeAt
  <2> QED
    BY <1>8, <2>1, <2>2 DEF TwoLeaves
<1> QED
  BY <1>3, <1>5, <1>6, <1>7, <1>8

LEMMA TwoLeavesStep ==
    ASSUME NEW level, TreeAt(level), call = Idle, NEW id \in Nodes, IsLeaf(pages[id]), level[id] = 0,
           Allocate, NEW n, n = next_id, TwoLeaves(id, n),
           errors' \in 0..MaxErrors, DictOK',
           NEW level2, level2 = Raised(level, n, 0), CallOK', OnItsWayUp(level2)'
    PROVE  TreeInv'
<1>1. Rebuilds({id, n}) /\ Rooted
  BY TwoLeavesRebuild
<1>2. /\ n \in PageId /\ n \notin Nodes
      /\ next_id' = next_id + 1 /\ next_id' \in 1..MaxPage + 1
  BY AllocateFacts DEF TreeAt
<1>3. /\ level2 \in [PageId -> Nat] /\ level2[n] = 0 /\ Nodes \subseteq PageId
      /\ \A x \in Nodes : level2[x] = level[x]
  <2>1. level \in [PageId -> Nat] /\ Nodes \subseteq PageId
    BY NodeFacts DEF TreeAt
  <2>2. /\ level2 \in [PageId -> Nat] /\ level2[n] = 0
        /\ \A x \in PageId \ {n} : level2[x] = level[x]
    BY <1>2, <2>1, RaisedFacts
  <2> QED
    BY <1>2, <2>1, <2>2
<1>4. StateOK'
  BY <1>2 DEF StateOK, DictOK, TwoLeaves
<1>5. PICK C : C = {id, n}
  OBVIOUS
<1>6. \A x \in C : InPlace(pages'[x], x, level2, Nodes')
  <2>1. PICK p, q : p = pages'[id] /\ q = pages'[n]
    OBVIOUS
  <2>2. IsLeaf(p) /\ ~IsInternal(p) /\ IsLeaf(q) /\ ~IsInternal(q)
    BY <2>1 DEF TwoLeaves
  <2>3. level2[id] = 0
    BY <1>3
  <2>4. \A nodes : InPlace(p, id, level2, nodes) /\ InPlace(q, n, level2, nodes)
    BY <1>3, <2>2, <2>3, LeafInPlace
  <2> QED
    BY <1>5, <2>1, <2>4, Zenon
<1>7. Rebuilds(C)
  BY <1>1, <1>5
<1> QED
  BY <1>1, <1>3, <1>4, <1>6, <1>7, Assembled

LEMMA SplitLeafStep ==
    ASSUME TreeInv, NEW k \in Key, NEW v \in Val, SplitLeaf(k, v), DictOK'
    PROVE  TreeInv'
<1>1. PICK level : TreeAt(level)
  BY TreeInvAt
<1>2. PICK path \in Descent(k) :
         LET id == Last(path)
             halves == Halves(Upsert(pages[id].entries, k, v))
         IN  /\ call = Idle
             /\ Allocate
             /\ Linked(id, next_id, halves)
             /\ call' = Ascending(Front(path), halves.right[1].key, next_id)
             /\ UNCHANGED errors
  BY DEF SplitLeaf
<1>3. PICK id, n, up : id = Last(path) /\ n = next_id /\ up = Front(path)
  OBVIOUS
<1>4. /\ id \in Nodes /\ IsLeaf(pages[id]) /\ level[id] = 0
      /\ pages[id].entries \in Seq(LeafEntry) /\ pages[id].next \in PageId
      /\ up \in Seq(PageId) /\ level[Root(pages)] = Len(up)
      /\ \A i \in 1..Len(up) : IsInternal(pages[up[i]]) /\ level[up[i]] = Len(up) + 1 - i
  BY <1>1, <1>2, <1>3, DescentFacts
<1>5. PICK halves : halves = Halves(Upsert(pages[id].entries, k, v))
  OBVIOUS
<1>6. halves.left \in Seq(LeafEntry) /\ halves.right \in Seq(LeafEntry) /\ halves.right[1].key \in Key
  BY <1>4, <1>5, UpsertFacts, HalvesFacts
<1>7. /\ call = Idle /\ Allocate /\ errors' = errors
      /\ RewriteBoth(id, Leaf(halves.left, n), n, Leaf(halves.right, pages[id].next))
      /\ call' = Ascending(up, halves.right[1].key, n)
  BY <1>2, <1>3, <1>5 DEF Linked
<1>8. n \in PageId /\ n # 0 /\ n \notin Nodes /\ id \in PageId /\ id # n
  BY <1>1, <1>3, <1>4, <1>7, AllocateFacts, NodeFacts DEF TreeAt
<1>9. PICK p, q : p = Leaf(halves.left, n) /\ q = Leaf(halves.right, pages[id].next)
  OBVIOUS
<1>10. /\ p \in Page /\ IsLeaf(p) /\ ~IsInternal(p)
       /\ q \in Page /\ IsLeaf(q) /\ ~IsInternal(q)
  BY <1>4, <1>6, <1>8, <1>9, LeafFacts
<1>11. TwoLeaves(id, n)
  <2>1. RewriteBoth(id, p, n, q)
    BY <1>7, <1>9
  <2>2. /\ pages' \in [PageId -> Page] /\ dirty' \subseteq PageId
        /\ pages'[id] = p /\ pages'[n] = q
        /\ \A x \in PageId \ {id, n} : pages'[x] = pages[x]
    BY <1>1, <1>8, <1>10, <2>1, RewriteBothFacts DEF TreeAt
  <2> QED
    BY <1>10, <2>2 DEF TwoLeaves
<1>12. /\ Nodes \subseteq Nodes' /\ n \in Nodes' /\ Root(pages)' = Root(pages)
       /\ \A x \in PageId : IsInternal(pages[x]) => IsInternal(pages'[x])
  BY <1>1, <1>3, <1>4, <1>7, <1>11, TwoLeavesRebuild
<1>13. PICK level2 : level2 = Raised(level, n, 0)
  OBVIOUS
<1>14. level2[n] = 0 /\ \A x \in PageId \ {n} : level2[x] = level[x]
  BY <1>1, <1>8, <1>13, RaisedFacts DEF TreeAt
<1>15. /\ call'.op = "insert" /\ call'.path = up /\ call'.child = n
       /\ call'.sep = halves.right[1].key
  BY <1>7 DEF Ascending
<1>16. CallOK'
  BY <1>4, <1>6, <1>8, <1>15, Zenon DEF CallOK
<1>17. OnItsWayUp(level2)'
  <2>1. DOMAIN up = 1..Len(up) /\ Len(up) \in Nat /\ \A i \in 1..Len(up) : up[i] \in PageId
    BY <1>4, LenProperties, ElementOfSeq
  <2>2. \A i \in DOMAIN up : IsInternal(pages'[up[i]])
    BY <1>4, <1>12, <2>1
  <2>3. PICK root : root = Root(pages)
    OBVIOUS
  <2>4. root \in PageId /\ root # n
    BY <1>1, <1>7, <1>8, <2>3, NodeFacts DEF TreeAt, Idle
  <2>5. level2[Root(pages')] = 0 + Len(up)
    BY <1>4, <1>12, <1>14, <2>1, <2>3, <2>4
  <2>6. \A i \in DOMAIN up : level2[up[i]] = 0 + Len(up) + 1 - i
    <3> TAKE i \in DOMAIN up
    <3>1. up[i] \in PageId /\ up[i] # n
      BY <1>1, <1>4, <1>8, <2>1, NodeFacts DEF TreeAt
    <3> QED
      BY <1>4, <1>14, <2>1, <3>1
  <2>7. call'.op # "delete"
    BY <1>15
  <2>8. \A i \in DOMAIN call'.path : IsInternal(pages'[call'.path[i]])
    BY <1>15, <2>2
  <2>9. call'.child \in Nodes'
    BY <1>12, <1>15
  <2>10. level2[Root(pages')] = level2[call'.child] + Len(call'.path)
    BY <1>14, <1>15, <2>5
  <2>11. \A i \in DOMAIN call'.path :
            level2[call'.path[i]] = level2[call'.child] + Len(call'.path) + 1 - i
    BY <1>14, <1>15, <2>6
  <2> QED
    BY <2>7, <2>8, <2>9, <2>10, <2>11, Zenon DEF OnItsWayUp
<1>18. errors' \in 0..MaxErrors
  BY <1>1, <1>7 DEF TreeAt, TypeOK
<1> QED
  BY <1>1, <1>3, <1>4, <1>7, <1>11, <1>13, <1>16, <1>17, <1>18, TwoLeavesStep

LEMMA RightRefusedStep ==
    ASSUME TreeInv, NEW k \in Key, NEW v \in Val, RightRefused(k, v), DictOK'
    PROVE  TreeInv'
<1>1. PICK level : TreeAt(level)
  BY TreeInvAt
<1>2. PICK path \in Descent(k) :
         LET id == Last(path)
             halves == Halves(Upsert(pages[id].entries, k, v))
         IN  /\ call = Idle
             /\ Allocate
             /\ pages' = [pages EXCEPT ![next_id] = BareLeaf, ![id] = Leaf(halves.left, next_id)]
             /\ dirty' = dirty \cup {next_id}
             /\ Error
  BY DEF RightRefused
<1>3. PICK id, n : id = Last(path) /\ n = next_id
  OBVIOUS
<1>4. /\ id \in Nodes /\ IsLeaf(pages[id]) /\ level[id] = 0
      /\ pages[id].entries \in Seq(LeafEntry)
  BY <1>1, <1>2, <1>3, DescentFacts
<1>5. PICK left : left = Halves(Upsert(pages[id].entries, k, v)).left
  OBVIOUS
<1>6. left \in Seq(LeafEntry)
  BY <1>4, <1>5, UpsertFacts, HalvesFacts
<1>7. PICK p, q : p = Leaf(left, n) /\ q = BareLeaf
  OBVIOUS
<1>8. call = Idle /\ Allocate /\ Error
  BY <1>2
<1>9. n \in PageId /\ n # 0 /\ n \notin Nodes /\ id \in PageId /\ id # n
  BY <1>1, <1>3, <1>4, <1>8, AllocateFacts, NodeFacts DEF TreeAt
<1>10. /\ p \in Page /\ IsLeaf(p) /\ ~IsInternal(p)
       /\ q \in Page /\ IsLeaf(q) /\ ~IsInternal(q)
  BY <1>6, <1>7, <1>9, LeafFacts, EmptySeq DEF BareLeaf
<1>11. TwoLeaves(id, n)
  <2>1. pages' = [pages EXCEPT ![n] = q, ![id] = p] /\ dirty' = dirty \cup {n}
    BY <1>2, <1>3, <1>5, <1>7
  <2>2. pages \in [PageId -> Page] /\ dirty \subseteq PageId
    BY <1>1 DEF TreeAt, TypeOK
  <2>3. /\ pages' \in [PageId -> Page] /\ dirty' \subseteq PageId
        /\ pages'[id] = p /\ pages'[n] = q
        /\ \A x \in PageId \ {id, n} : pages'[x] = pages[x]
    BY <1>9, <1>10, <2>1, <2>2
  <2> QED
    BY <1>10, <2>3 DEF TwoLeaves
<1>12. PICK level2 : level2 = Raised(level, n, 0)
  OBVIOUS
<1>13. call' = Idle /\ errors' \in 0..MaxErrors
  BY <1>1, <1>8, ErrorFacts DEF TreeAt
<1>14. CallOK' /\ OnItsWayUp(level2)'
  BY <1>13, IdleFacts
<1> QED
  BY <1>1, <1>3, <1>4, <1>8, <1>11, <1>12, <1>13, <1>14, TwoLeavesStep

LEMMA LeftRefusedStep ==
    ASSUME TreeInv, NEW k \in Key, NEW v \in Val, LeftRefused(k, v), DictOK'
    PROVE  TreeInv'
<1>1. PICK level : TreeAt(level)
  BY TreeInvAt
<1>2. call = Idle /\ Allocate /\ Rewrite(next_id, BareLeaf) /\ Error
  BY DEF LeftRefused
<1>3. PICK n, page, C : n = next_id /\ page = BareLeaf /\ C = {n}
  OBVIOUS
<1>4. page \in Page /\ IsLeaf(page) /\ ~IsInternal(page)
  BY <1>3, LeafFacts, EmptySeq DEF BareLeaf
<1>5. /\ n \in PageId /\ n # 0 /\ n \notin Nodes
      /\ next_id' = next_id + 1 /\ next_id' \in 1..MaxPage + 1
  BY <1>1, <1>2, <1>3, AllocateFacts DEF TreeAt
<1>6. /\ pages' \in [PageId -> Page] /\ dirty' \subseteq PageId /\ pages'[n] = page
      /\ \A x \in PageId \ {n} : pages'[x] = pages[x]
  BY <1>1, <1>2, <1>3, <1>4, <1>5, RewriteFacts DEF TreeAt
<1>7. Rebuilds(C)
  BY <1>3, <1>4, <1>5, <1>6 DEF Rebuilds
<1>8. Rooted
  BY <1>2, <1>5, <1>6, IdFacts DEF Rooted, Idle
<1>9. PICK level2 : level2 = Raised(level, n, 0)
  OBVIOUS
<1>10. /\ level2 \in [PageId -> Nat] /\ level2[n] = 0
       /\ \A x \in PageId \ {n} : level2[x] = level[x]
  BY <1>1, <1>5, <1>9, RaisedFacts DEF TreeAt
<1>11. \A x \in Nodes : level2[x] = level[x]
  BY <1>1, <1>5, <1>10, NodeFacts DEF TreeAt
<1>12. \A x \in C : InPlace(pages'[x], x, level2, Nodes')
  <2>1. \A nodes : InPlace(page, n, level2, nodes)
    BY <1>4, <1>10, LeafInPlace
  <2> QED
    BY <1>3, <1>6, <2>1, Zenon
<1>13. call' = Idle /\ errors' \in 0..MaxErrors
  BY <1>1, <1>2, ErrorFacts DEF TreeAt
<1>14. CallOK' /\ OnItsWayUp(level2)'
  BY <1>13, IdleFacts
<1>15. StateOK'
  BY <1>5, <1>6, <1>13 DEF StateOK, DictOK
<1> QED
  BY <1>1, <1>7, <1>8, <1>10, <1>11, <1>12, <1>14, <1>15, Assembled

\* A call that gives up with the pages as they were.
LEMMA GivesUp ==
    ASSUME TreeInv, UNCHANGED <<pages, dirty>>, Allocate \/ UNCHANGED next_id, Error, DictOK',
           call.op # "closed"
    PROVE  TreeInv'
<1>1. PICK level : TreeAt(level)
  BY TreeInvAt
<1>2. call' = Idle /\ errors' \in 0..MaxErrors
  BY <1>1, ErrorFacts DEF TreeAt
<1>3. StateOK /\ next_id' \in 1..MaxPage + 1 /\ next_id' \in {next_id, next_id + 1}
  BY <1>1, TypeParts, AllocateFacts DEF TreeAt, StateOK
<1>4. StateOK'
  BY <1>2, <1>3 DEF StateOK, DictOK
<1>5. PICK C : C = {}
  OBVIOUS
<1>6. Rebuilds(C) /\ Rooted
  BY <1>1, <1>3, <1>5, TypeParts DEF Rebuilds, Rooted, TreeAt
<1>7. CallOK' /\ OnItsWayUp(level)'
  BY <1>2, IdleFacts
<1>8. level \in [PageId -> Nat] /\ \A x \in C : InPlace(pages'[x], x, level, Nodes')
  BY <1>1, <1>5 DEF TreeAt
<1> QED
  BY <1>1, <1>4, <1>6, <1>7, <1>8, Assembled

LEMMA SplitFailsStep ==
    ASSUME TreeInv, NEW k \in Key, NEW v \in Val, SplitFails(k, v), DictOK'
    PROVE  TreeInv'
<1>1. call = Idle /\ Allocate /\ Error /\ UNCHANGED <<pages, dirty>>
  BY DEF SplitFails, IoError
<1> QED
  BY <1>1, GivesUp DEF Idle

LEMMA FetchFailsStep ==
    ASSUME TreeInv, FetchFails, DictOK'
    PROVE  TreeInv'
<1>1. call.op # "closed" /\ Error /\ UNCHANGED <<pages, dirty>> /\ UNCHANGED next_id
  BY DEF FetchFails, IoError
<1> QED
  BY <1>1, GivesUp

-----------------------------------------------------------------------------
(* Parents.                                                                *)

LEMMA InternalPlaced ==
    ASSUME NEW level, TreeAt(level), NEW C, Rebuilds(C),
           NEW level2, \A x \in Nodes : level2[x] = level[x],
           NEW entries \in Seq(ChildEntry), NEW h, OneAbove(entries, h, level, Nodes),
           NEW id, level2[id] = h
    PROVE  InPlace(Internal(entries), id, level2, Nodes')
<1>1. PICK nodes, nodes2 : nodes = Nodes /\ nodes2 = Nodes'
  OBVIOUS
<1>2. nodes \subseteq nodes2 /\ \A x \in nodes : level2[x] = level[x]
  BY <1>1, NodesStay DEF TreeAt
<1>3. OneAbove(entries, h, level2, nodes2)
  BY <1>1, <1>2, OneAboveStays
<1> QED
  BY <1>1, <1>3, InternalInPlace

\* A parent is rewritten, and the call is over.
LEMMA ParentRewritten ==
    ASSUME NEW level, TreeAt(level), call.op # "closed",
           NEW id \in PageId, IsInternal(pages[id]),
           NEW entries \in Seq(ChildEntry), NEW h, h = level[id], OneAbove(entries, h, level, Nodes),
           pages' = [pages EXCEPT ![id] = Internal(entries)], dirty' \subseteq PageId,
           Allocate \/ UNCHANGED next_id, call' = Idle, errors' \in 0..MaxErrors, DictOK'
    PROVE  TreeInv'
<1>1. PICK page, C : page = Internal(entries) /\ C = {id}
  OBVIOUS
<1>2. page \in Page /\ IsInternal(page)
  BY <1>1, InternalFacts
<1>3. id \in Nodes /\ id # 0
  BY InternalPage
<1>4. next_id' \in 1..MaxPage + 1 /\ next_id' \in {next_id, next_id + 1} /\ next_id \notin Nodes
  BY TypeParts, AllocateFacts, NodeFacts DEF TreeAt, StateOK
<1>5. pages \in [PageId -> Page]
  BY TypeParts DEF TreeAt
<1>6. /\ pages' \in [PageId -> Page] /\ pages'[id] = page
      /\ \A x \in PageId \ {id} : pages'[x] = pages[x]
  BY <1>1, <1>2, <1>5
<1>7. Rebuilds(C)
  BY <1>1, <1>2, <1>3, <1>4, <1>6 DEF Rebuilds
<1>8. Rooted
  BY <1>3, <1>6, IdFacts DEF Rooted
<1>9. InPlace(page, id, level, Nodes')
  BY <1>1, <1>7, InternalPlaced
<1>10. \A x \in C : InPlace(pages'[x], x, level, Nodes')
  BY <1>1, <1>6, <1>9, Zenon
<1>11. StateOK'
  BY <1>4 DEF StateOK, DictOK
<1>12. CallOK' /\ OnItsWayUp(level)' /\ level \in [PageId -> Nat]
  BY IdleFacts DEF TreeAt
<1> QED
  BY <1>7, <1>8, <1>10, <1>11, <1>12, Assembled

\* What an insert finds in the parent it comes back to.
LEMMA ParentFacts ==
    ASSUME NEW level, TreeAt(level), call.op = "insert", call.path # <<>>,
           NEW id, id = Last(call.path),
           NEW entries, entries = WithChild(pages[id].entries, call.sep, call.child)
    PROVE  /\ id \in PageId /\ IsInternal(pages[id]) /\ entries \in Seq(ChildEntry)
           /\ OneAbove(entries, level[id], level, Nodes)
           /\ call.child \in Nodes
           /\ level[id] = level[call.child] + 1
           /\ level[Root(pages)] = level[id] + Len(Front(call.path))
           /\ Front(call.path) \in Seq(PageId)
           /\ \A i \in 1..Len(Front(call.path)) :
                 /\ IsInternal(pages[Front(call.path)[i]])
                 /\ level[Front(call.path)[i]] = level[id] + Len(Front(call.path)) + 1 - i
<1>1. call.path \in Seq(PageId) /\ call.sep \in Key
  BY DEF TreeAt, TypeOK, Idle
<1>2. PICK path, up, child, sep : /\ path = call.path /\ up = Front(path)
                                  /\ child = call.child /\ sep = call.sep
  OBVIOUS
<1>3. PICK n \in Nat : n = Len(path) /\ n >= 1 /\ n \in 1..n
  BY <1>1, <1>2, FrontFacts
<1>4. /\ id \in PageId /\ id = path[n] /\ up \in Seq(PageId) /\ Len(up) = n - 1
      /\ \A i \in 1..(n - 1) : up[i] = path[i]
  BY <1>1, <1>2, <1>3, FrontFacts
<1>5. DOMAIN path = 1..n
  BY <1>1, <1>2, <1>3, LenProperties
<1>6. /\ \A i \in 1..n : IsInternal(pages[path[i]])
      /\ child \in Nodes
      /\ level[Root(pages)] = level[child] + n
      /\ \A i \in 1..n : level[path[i]] = level[child] + n + 1 - i
  BY <1>2, <1>3, <1>5 DEF TreeAt, OnItsWayUp
<1>7. level[child] \in Nat
  BY <1>6, NodeFacts DEF TreeAt
<1>8. IsInternal(pages[id]) /\ level[id] = level[child] + 1
  <2>1. level[id] = level[child] + n + 1 - n
    BY <1>3, <1>4, <1>6
  <2> QED
    BY <1>3, <1>4, <1>6, <1>7, <2>1
<1>9. level[Root(pages)] = level[id] + Len(up)
  BY <1>4, <1>6, <1>7, <1>8
<1>10. \A i \in 1..Len(up) : IsInternal(pages[up[i]]) /\ level[up[i]] = level[id] + Len(up) + 1 - i
  <2> TAKE i \in 1..Len(up)
  <2>1. i \in 1..(n - 1) /\ i \in 1..n
    BY <1>4
  <2>2. level[path[i]] = level[child] + n + 1 - i
    BY <1>6, <2>1
  <2>3. level[child] + n + 1 - i = (level[child] + 1) + (n - 1) + 1 - i
    BY <1>7, <2>1
  <2> QED
    BY <1>4, <1>6, <1>8, <2>1, <2>2, <2>3
<1>11. PICK h, nodes, old : h = level[id] /\ nodes = Nodes /\ old = pages[id].entries
  OBVIOUS
<1>12. old \in Seq(ChildEntry) /\ OneAbove(old, h, level, nodes) /\ nodes \subseteq PageId
  BY <1>4, <1>8, <1>11, InternalPage
<1>13. WithChild(old, sep, child) \in Seq(ChildEntry) /\ OneAbove(WithChild(old, sep, child), h, level, nodes)
  <2>1. sep \in Key /\ child \in nodes /\ h = level[child] + 1
    BY <1>1, <1>2, <1>6, <1>8, <1>11
  <2> QED
    BY <1>12, <2>1, WithChildFacts
<1>14. entries = WithChild(old, sep, child)
  BY <1>2, <1>11
<1> QED
  BY <1>2, <1>4, <1>6, <1>8, <1>9, <1>10, <1>11, <1>13, <1>14

LEMMA ParentSplit ==
    ASSUME NEW level, TreeAt(level), call.op = "insert", call.path # <<>>,
           NEW id, id = Last(call.path),
           NEW entries, entries = WithChild(pages[id].entries, call.sep, call.child),
           Len(entries) > MaxEntries, NEW halves, halves = SplitAround(entries)
    PROVE  /\ halves.left \in Seq(ChildEntry) /\ OneAbove(halves.left, level[id], level, Nodes)
           /\ halves.right \in Seq(ChildEntry) /\ OneAbove(halves.right, level[id], level, Nodes)
           /\ halves.promoted \in Key
<1>1. PICK h, nodes : h = level[id] /\ nodes = Nodes
  OBVIOUS
<1>2. entries \in Seq(ChildEntry) /\ OneAbove(entries, h, level, nodes) /\ nodes \subseteq PageId
  BY <1>1, ParentFacts, NodeFacts DEF TreeAt
<1>3. Len(entries) > 2
  <2>1. Len(entries) \in Nat
    BY <1>2, LenProperties
  <2> QED
    BY <2>1, SpaceAssumption
<1> QED
  BY <1>1, <1>2, <1>3, SplitAroundFacts

LEMMA AscendSplits ==
    ASSUME NEW level, TreeAt(level), call.op = "insert", call.path # <<>>,
           NEW id, id = Last(call.path),
           NEW entries, entries = WithChild(pages[id].entries, call.sep, call.child),
           Len(entries) > MaxEntries, NEW halves, halves = SplitAround(entries),
           Allocate,
           RewriteBoth(id, Internal(halves.left), next_id, Internal(halves.right)),
           call' = Told(halves), UNCHANGED errors, DictOK'
    PROVE  TreeInv'
<1>1. PICK n, up, h : n = next_id /\ up = Front(call.path) /\ h = level[id]
  OBVIOUS
<1>2. /\ id \in PageId /\ IsInternal(pages[id]) /\ up \in Seq(PageId)
      /\ level[Root(pages)] = h + Len(up)
      /\ \A i \in 1..Len(up) : IsInternal(pages[up[i]]) /\ level[up[i]] = h + Len(up) + 1 - i
  BY <1>1, ParentFacts
<1>3. PICK left, right : left = halves.left /\ right = halves.right
  OBVIOUS
<1>4. /\ left \in Seq(ChildEntry) /\ OneAbove(left, h, level, Nodes)
      /\ right \in Seq(ChildEntry) /\ OneAbove(right, h, level, Nodes)
      /\ halves.promoted \in Key
  BY <1>1, <1>3, ParentSplit
<1>5. id \in Nodes /\ id # 0 /\ Nodes \subseteq PageId /\ call.op # "closed" /\ level \in [PageId -> Nat]
  BY <1>2, InternalPage DEF TreeAt
<1>6. /\ n \in PageId /\ n # 0 /\ n \notin Nodes
      /\ next_id' = next_id + 1 /\ next_id' \in 1..MaxPage + 1
  BY <1>1, AllocateFacts DEF TreeAt
<1>7. PICK p, q, C : p = Internal(left) /\ q = Internal(right) /\ C = {id, n}
  OBVIOUS
<1>8. p \in Page /\ IsInternal(p) /\ q \in Page /\ IsInternal(q)
  BY <1>4, <1>7, InternalFacts
<1>9. /\ pages' \in [PageId -> Page] /\ dirty' \subseteq PageId /\ pages'[id] = p /\ pages'[n] = q
      /\ \A x \in PageId \ {id, n} : pages'[x] = pages[x]
  <2>1. RewriteBoth(id, p, n, q) /\ id # n
    BY <1>1, <1>3, <1>5, <1>6, <1>7
  <2> QED
    BY <1>2, <1>6, <1>8, <2>1, RewriteBothFacts DEF TreeAt
<1>10. Rebuilds(C)
  BY <1>1, <1>5, <1>6, <1>7, <1>8, <1>9 DEF Rebuilds
<1>11. pages'[0] = pages[0]
  BY <1>5, <1>6, <1>9, IdFacts
<1>12. Rooted
  BY <1>5, <1>11 DEF Rooted
<1>13. PICK level2 : level2 = Raised(level, n, h)
  OBVIOUS
<1>14. /\ level2 \in [PageId -> Nat] /\ level2[n] = h
       /\ \A x \in PageId \ {n} : level2[x] = level[x]
  <2>1. h \in Nat
    BY <1>1, <1>2, <1>5
  <2>2. level \in [PageId -> Nat] /\ n \in PageId
    BY <1>5, <1>6
  <2> QED
    BY ONLY <1>13, <2>1, <2>2, RaisedFacts
<1>15. \A x \in Nodes : level2[x] = level[x]
  BY <1>5, <1>6, <1>14
<1>16. \A x \in C : InPlace(pages'[x], x, level2, Nodes')
  <2>1. level2[id] = h
    BY <1>1, <1>5, <1>15
  <2>2. InPlace(p, id, level2, Nodes')
    BY <1>4, <1>7, <1>10, <1>15, <2>1, InternalPlaced
  <2>3. InPlace(q, n, level2, Nodes')
    BY <1>4, <1>7, <1>10, <1>14, <1>15, InternalPlaced
  <2> QED
    BY <1>7, <1>9, <2>2, <2>3, Zenon
<1>17. /\ call'.op = "insert" /\ call'.path = up /\ call'.child = n
       /\ call'.sep = halves.promoted
  BY <1>1 DEF Told, Ascending
<1>18. CallOK'
  BY <1>2, <1>4, <1>6, <1>17, Zenon DEF CallOK
<1>19. OnItsWayUp(level2)'
  <2>1. DOMAIN up = 1..Len(up) /\ Len(up) \in Nat /\ \A i \in 1..Len(up) : up[i] \in PageId
    BY <1>2, LenProperties, ElementOfSeq
  <2>2. \A x \in PageId : IsInternal(pages[x]) => IsInternal(pages'[x])
    <3> SUFFICES ASSUME NEW x \in PageId, IsInternal(pages[x]) PROVE IsInternal(pages'[x])
      OBVIOUS
    <3>1. CASE x = id \/ x = n
      BY <1>8, <1>9, <3>1
    <3>2. CASE x # id /\ x # n
      BY <1>9, <3>2
    <3> QED
      BY <3>1, <3>2
  <2>3. \A i \in DOMAIN up : IsInternal(pages'[up[i]])
    BY <1>2, <2>1, <2>2
  <2>4. PICK root : root = Root(pages)
    OBVIOUS
  <2>5. root \in Nodes
    BY <1>5, <2>4, NodeFacts DEF TreeAt
  <2>6. Root(pages') = root
    BY <1>10, <1>11, <1>12, <2>4, RootStays DEF TreeAt
  <2>7. level2[Root(pages')] = h + Len(up)
    BY <1>2, <1>15, <2>4, <2>5, <2>6
  <2>8. \A i \in DOMAIN up : level2[up[i]] = h + Len(up) + 1 - i
    <3> TAKE i \in DOMAIN up
    <3>1. up[i] \in Nodes
      BY <1>2, <2>1, NodeFacts DEF TreeAt
    <3> QED
      BY <1>2, <1>15, <2>1, <3>1
  <2>9. call'.op # "delete"
    BY <1>17
  <2>10. \A i \in DOMAIN call'.path : IsInternal(pages'[call'.path[i]])
    BY <1>17, <2>3
  <2>11. call'.child \in Nodes'
    BY <1>7, <1>10, <1>17, NodesStay DEF TreeAt
  <2>12. level2[Root(pages')] = level2[call'.child] + Len(call'.path)
    BY <1>14, <1>17, <2>7
  <2>13. \A i \in DOMAIN call'.path :
            level2[call'.path[i]] = level2[call'.child] + Len(call'.path) + 1 - i
    BY <1>14, <1>17, <2>8
  <2> QED
    BY <2>9, <2>10, <2>11, <2>12, <2>13, Zenon DEF OnItsWayUp
<1>20. StateOK'
  BY <1>6, <1>9, TypeParts DEF StateOK, DictOK, TreeAt
<1> QED
  BY <1>10, <1>12, <1>14, <1>15, <1>16, <1>18, <1>19, <1>20, Assembled

LEMMA AscendStep ==
    ASSUME TreeInv, Ascend, DictOK'
    PROVE  TreeInv'
<1>1. PICK level : TreeAt(level)
  BY TreeInvAt
<1>2. PICK id : id = Last(call.path)
  OBVIOUS
<1>3. PICK entries : entries = WithChild(pages[id].entries, call.sep, call.child)
  OBVIOUS
<1>4. call.op = "insert" /\ call.path # <<>> /\ UNCHANGED errors
  BY DEF Ascend
<1>5. CASE Len(entries) <= MaxEntries
  <2>1. Rewrite(id, Internal(entries)) /\ call' = Idle /\ UNCHANGED next_id
    BY <1>2, <1>3, <1>5 DEF Ascend
  <2>2. id \in PageId /\ IsInternal(pages[id]) /\ entries \in Seq(ChildEntry)
        /\ OneAbove(entries, level[id], level, Nodes)
    BY <1>1, <1>2, <1>3, <1>4, ParentFacts
  <2>3. pages' = [pages EXCEPT ![id] = Internal(entries)] /\ dirty' \subseteq PageId
    BY <1>1, <2>1, <2>2 DEF Rewrite, TreeAt, TypeOK
  <2>4. errors' \in 0..MaxErrors /\ call.op # "closed"
    BY <1>1, <1>4 DEF TreeAt, TypeOK
  <2>5. PICK h : h = level[id]
    OBVIOUS
  <2> QED
    BY <1>1, <2>1, <2>2, <2>3, <2>4, <2>5, ParentRewritten
<1>6. CASE ~(Len(entries) <= MaxEntries)
  <2>1. PICK halves : halves = SplitAround(entries)
    OBVIOUS
  <2>2. /\ Allocate /\ RewriteBoth(id, Internal(halves.left), next_id, Internal(halves.right))
        /\ call' = Told(halves)
    BY <1>2, <1>3, <1>6, <2>1 DEF Ascend
  <2>3. Len(entries) > MaxEntries
    <3>1. Len(entries) \in Nat
      BY <1>1, <1>2, <1>3, <1>4, ParentFacts, LenProperties
    <3> QED
      BY <1>6, <3>1, SpaceAssumption
  <2> QED
    BY <1>1, <1>2, <1>3, <1>4, <2>1, <2>2, <2>3, AscendSplits
<1> QED
  BY <1>5, <1>6

LEMMA AscendFailsStep ==
    ASSUME TreeInv, AscendFails, DictOK'
    PROVE  TreeInv'
<1>1. PICK level : TreeAt(level)
  BY TreeInvAt
<1>2. PICK id : id = Last(call.path)
  OBVIOUS
<1>3. PICK entries : entries = WithChild(pages[id].entries, call.sep, call.child)
  OBVIOUS
<1>4. PICK halves, left : halves = SplitAround(entries) /\ left = halves.left
  OBVIOUS
<1>5. /\ call.op = "insert" /\ call.path # <<>> /\ Allocate /\ Error /\ UNCHANGED dirty
      /\ Len(entries) > MaxEntries /\ pages' = [pages EXCEPT ![id] = Internal(left)]
  BY <1>2, <1>3, <1>4 DEF AscendFails, IoError
<1>6. id \in PageId /\ IsInternal(pages[id])
  BY <1>1, <1>2, <1>3, <1>5, ParentFacts
<1>7. left \in Seq(ChildEntry) /\ OneAbove(left, level[id], level, Nodes)
  BY <1>1, <1>2, <1>3, <1>4, <1>5, ParentSplit
<1>8. call' = Idle /\ errors' \in 0..MaxErrors
  BY <1>1, <1>5, ErrorFacts DEF TreeAt
<1>9. dirty' \subseteq PageId /\ call.op # "closed"
  BY <1>1, <1>5 DEF TreeAt, TypeOK
<1>10. PICK h : h = level[id]
  OBVIOUS
<1> QED
  BY <1>1, <1>5, <1>6, <1>7, <1>8, <1>9, <1>10, ParentRewritten

LEMMA UnlinkStep ==
    ASSUME TreeInv, Unlink, DictOK'
    PROVE  TreeInv'
<1>1. PICK level : TreeAt(level)
  BY TreeInvAt
<1>2. PICK id, path : id = Last(path) /\ path = call.path
  OBVIOUS
<1>3. call.op = "delete" /\ path # <<>> /\ UNCHANGED <<next_id, errors>>
  BY <1>2 DEF Unlink
<1>4. path \in Seq(PageId) /\ call.key \in Key
  BY <1>1, <1>2, <1>3 DEF TreeAt, TypeOK, Idle
<1>5. \A i \in DOMAIN path : IsInternal(pages[path[i]])
  BY <1>1, <1>2, <1>3 DEF TreeAt, OnItsWayUp
<1>6. DOMAIN path = 1..Len(path)
  BY <1>4, LenProperties
<1>7. id \in PageId /\ IsInternal(pages[id])
  <2>1. Last(path) \in PageId /\ Last(path) = path[Len(path)] /\ Len(path) \in 1..Len(path)
    BY <1>3, <1>4, FrontFacts
  <2> QED
    BY <1>2, <1>5, <1>6, <2>1
<1>8. PICK entries, h, nodes : entries = pages[id].entries /\ h = level[id] /\ nodes = Nodes
  OBVIOUS
<1>9. entries \in Seq(ChildEntry) /\ OneAbove(entries, h, level, nodes) /\ nodes \subseteq PageId
  BY <1>1, <1>7, <1>8, InternalPage
<1>10. errors' \in 0..MaxErrors /\ call.op # "closed"
  BY <1>1, <1>3 DEF TreeAt, TypeOK
<1>11. CASE Len(entries) = 1
  <2>1. PICK up : up = Front(path)
    OBVIOUS
  <2>2. call' = Unlinking(up, call.key) /\ UNCHANGED <<pages, dirty>>
    BY <1>2, <1>8, <1>11, <2>1 DEF Unlink
  <2>3. call'.op = "delete" /\ call'.path = up /\ call'.key = call.key
    BY <2>2 DEF Unlinking
  <2>4. /\ up \in Seq(PageId) /\ Len(up) = Len(path) - 1 /\ Len(path) \in Nat
        /\ \A i \in 1..(Len(path) - 1) : up[i] = path[i]
    BY <1>3, <1>4, <2>1, FrontFacts
  <2>5. DOMAIN up = 1..(Len(path) - 1)
    BY <2>4, LenProperties
  <2>6. CallOK'
    BY <1>4, <2>3, <2>4, Zenon DEF CallOK
  <2>7. \A i \in DOMAIN call'.path : IsInternal(pages'[call'.path[i]])
    <3>1. \A i \in 1..(Len(path) - 1) : i \in DOMAIN path
      BY <1>6, <2>4
    <3>2. \A i \in DOMAIN up : IsInternal(pages[up[i]])
      BY <1>5, <2>4, <2>5, <3>1
    <3> QED
      BY <2>2, <2>3, <3>2
  <2>8. IsInternal(pages'[Root(pages')])
    BY <1>1, <1>3, <2>2 DEF TreeAt, OnItsWayUp
  <2>9. call'.op # "insert"
    BY <2>3
  <2>10. OnItsWayUp(level)'
    BY <2>7, <2>8, <2>9, Zenon DEF OnItsWayUp
  <2>11. pages' = pages /\ next_id' = next_id /\ StateOK
    BY <1>1, <1>3, <2>2, TypeParts DEF TreeAt
  <2>12. PICK C : C = {}
    OBVIOUS
  <2>13. Rebuilds(C) /\ Rooted
    BY <1>1, <1>10, <2>11, <2>12, TypeParts DEF Rebuilds, Rooted, TreeAt, StateOK
  <2>14. StateOK'
    BY <1>10, <2>2, <2>11 DEF StateOK, DictOK
  <2>15. level \in [PageId -> Nat] /\ \A x \in C : InPlace(pages'[x], x, level, Nodes')
    BY <1>1, <2>12 DEF TreeAt
  <2> QED
    BY <1>1, <2>6, <2>10, <2>13, <2>14, <2>15, Assembled
<1>12. CASE Len(entries) # 1
  <2>1. PICK rest : rest = WithoutChild(entries, RouteIndex(entries, call.key))
    OBVIOUS
  <2>2. Rewrite(id, Internal(rest)) /\ call' = Idle
    BY <1>2, <1>8, <1>12, <2>1 DEF Unlink
  <2>3. rest \in Seq(ChildEntry) /\ OneAbove(rest, h, level, nodes)
    <3>1. PICK i \in 1..Len(entries) : i = RouteIndex(entries, call.key)
      BY <1>9, OneAboveFacts, RouteFacts
    <3> QED
      BY <1>9, <1>12, <2>1, <3>1, WithoutChildFacts
  <2>4. pages' = [pages EXCEPT ![id] = Internal(rest)] /\ dirty' \subseteq PageId
    BY <1>1, <1>7, <2>2 DEF Rewrite, TreeAt, TypeOK
  <2>5. OneAbove(rest, h, level, Nodes) /\ UNCHANGED next_id
    BY <1>3, <1>8, <2>3
  <2> QED
    BY <1>1, <1>7, <1>8, <1>10, <2>2, <2>3, <2>4, <2>5, ParentRewritten
<1> QED
  BY <1>11, <1>12

-----------------------------------------------------------------------------
(* The root.                                                               *)

\* The meta page is rewritten, and the call is over.
LEMMA RootMoved ==
    ASSUME NEW level, TreeAt(level), NEW C, Rebuilds(C), NEW root \in Nodes', pages'[0] = Meta(root),
           NEW level2 \in [PageId -> Nat], \A x \in Nodes : level2[x] = level[x],
           \A x \in C : InPlace(pages'[x], x, level2, Nodes'),
           dirty' \subseteq PageId, errors' \in 0..MaxErrors, DictOK', call' = Idle
    PROVE  TreeInv'
<1>1. Rooted
  BY DEF Rooted
<1>2. StateOK'
  BY DEF StateOK, DictOK, Rebuilds
<1>3. CallOK' /\ OnItsWayUp(level2)'
  BY IdleFacts
<1> QED
  BY <1>1, <1>2, <1>3, Assembled

LEMMA ShrinkRootStep ==
    ASSUME TreeInv, ShrinkRoot, DictOK'
    PROVE  TreeInv'
<1>1. PICK level : TreeAt(level)
  BY TreeInvAt
<1>2. PICK root, child, page : /\ root = Root(pages) /\ child = pages[root].entries[1].child
                               /\ page = Meta(child)
  OBVIOUS
<1>3. /\ call.op = "delete" /\ Rewrite(0, page) /\ call' = Idle
      /\ UNCHANGED <<next_id, errors>>
  BY <1>2, IdFacts DEF ShrinkRoot
<1>4. root \in PageId /\ IsInternal(pages[root])
  BY <1>1, <1>2, <1>3, NodeFacts DEF TreeAt, OnItsWayUp
<1>5. PICK entries, h, nodes : entries = pages[root].entries /\ h = level[root] /\ nodes = Nodes
  OBVIOUS
<1>6. entries \in Seq(ChildEntry) /\ OneAbove(entries, h, level, nodes) /\ nodes \subseteq PageId
  BY <1>1, <1>4, <1>5, InternalPage
<1>7. child \in nodes
  <2>1. Len(entries) \in Nat /\ Len(entries) >= 1
    BY <1>6, OneAboveFacts, LenProperties
  <2>2. 1 \in 1..Len(entries)
    BY <2>1
  <2> QED
    BY <1>2, <1>5, <1>6, <2>2, OneAboveFacts
<1>8. page \in Page
  BY <1>2, <1>6, <1>7, MetaFacts
<1>9. /\ pages' \in [PageId -> Page] /\ dirty' \subseteq PageId /\ pages'[0] = page
      /\ \A x \in PageId \ {0} : pages'[x] = pages[x]
  BY <1>1, <1>3, <1>8, IdFacts, RewriteFacts DEF TreeAt
<1>10. PICK C : C = {}
  OBVIOUS
<1>11. Rebuilds(C)
  BY <1>1, <1>3, <1>9, <1>10, TypeParts DEF Rebuilds, TreeAt, StateOK
<1>12. child \in Nodes'
  BY <1>1, <1>5, <1>7, <1>11, NodesStay DEF TreeAt
<1>13. /\ level \in [PageId -> Nat] /\ \A x \in C : InPlace(pages'[x], x, level, Nodes')
       /\ errors' \in 0..MaxErrors
  BY <1>1, <1>3, <1>10 DEF TreeAt, TypeOK
<1> QED
  BY <1>1, <1>2, <1>3, <1>9, <1>11, <1>12, <1>13, RootMoved

\* The page above a root that split.
LEMMA NewRootFacts ==
    ASSUME NEW level, TreeAt(level), call.op = "insert", call.path = <<>>
    PROVE  \E entries \in Seq(ChildEntry) :
              /\ NewRootPage = Internal(entries)
              /\ OneAbove(entries, level[Root(pages)] + 1, level, Nodes)
<1>1. PICK root, child, sep, h : /\ root = Root(pages) /\ child = call.child /\ sep = call.sep
                                 /\ h = level[root] + 1
  OBVIOUS
<1>2. child \in Nodes /\ level[root] = level[child] + Len(<<>>) /\ sep \in Key
  BY <1>1 DEF TreeAt, OnItsWayUp, TypeOK, Idle
<1>3. root \in Nodes /\ Nodes \subseteq PageId
  BY <1>1, NodeFacts DEF TreeAt
<1>4. PICK a, b : a = Leftmost(root) /\ b = InternalEntry(sep, child)
  OBVIOUS
<1>5. a \in ChildEntry /\ a.child = root /\ b \in ChildEntry /\ b.child = child /\ b.key = sep
  BY <1>2, <1>3, <1>4 DEF Leftmost, InternalEntry, ChildEntry
<1>6. level[root] = level[child]
  <2>1. level[child] \in Nat /\ Len(<<>>) = 0
    BY <1>2, <1>3, EmptySeq DEF TreeAt
  <2> QED
    BY <1>2, <2>1
<1>7. PICK entries : entries = <<a, b>>
  OBVIOUS
<1>8. entries \in Seq(ChildEntry) /\ Len(entries) = 2 /\ entries[1] = a /\ entries[2] = b
  BY <1>5, <1>7
<1>9. \A i \in 1..Len(entries) : /\ entries[i].child \in Nodes
                                 /\ h = level[entries[i].child] + 1
                                 /\ i > 1 => entries[i].key \in Key
  <2> TAKE i \in 1..Len(entries)
  <2>1. i = 1 \/ i = 2
    BY <1>8
  <2>2. CASE i = 1
    BY <1>1, <1>3, <1>5, <1>8, <2>2
  <2>3. CASE i = 2
    BY <1>1, <1>2, <1>5, <1>6, <1>8, <2>3
  <2> QED
    BY <2>1, <2>2, <2>3
<1>10. PICK nodes : nodes = Nodes
  OBVIOUS
<1>11. OneAbove(entries, h, level, nodes)
  <2>1. Len(entries) >= 1
    BY <1>8
  <2> QED
    BY <1>8, <1>9, <1>10, <2>1, OneAboveFacts
<1>12. NewRootPage = Internal(entries)
  BY <1>1, <1>4, <1>7 DEF NewRootPage
<1> QED
  BY <1>1, <1>8, <1>10, <1>11, <1>12

\* Levels that suit the pages of C and leave the nodes where they were.
PlacedAt(C, level, level2) ==
    /\ \A x \in Nodes : level2[x] = level[x]
    /\ \A x \in C : InPlace(pages'[x], x, level2, Nodes')

\* The new page is a node, one level above the root.
LEMMA NewRootPlaced ==
    ASSUME NEW level, TreeAt(level), call.op = "insert", call.path = <<>>, Allocate,
           NEW n, n = next_id, NEW C, C = {n}, pages' \in [PageId -> Page],
           pages'[n] = NewRootPage, \A x \in PageId \ {n, 0} : pages'[x] = pages[x]
    PROVE  /\ Rebuilds(C) /\ n \in Nodes'
           /\ \E level2 \in [PageId -> Nat] : PlacedAt(C, level, level2)
<1>1. PICK root, h : root = Root(pages) /\ h = level[root] + 1
  OBVIOUS
<1>2. /\ n \in PageId /\ n # 0 /\ n \notin Nodes
      /\ next_id' = next_id + 1 /\ next_id' \in 1..MaxPage + 1
  BY AllocateFacts DEF TreeAt
<1>3. root \in Nodes /\ Nodes \subseteq PageId /\ level \in [PageId -> Nat]
  BY <1>1, NodeFacts DEF TreeAt
<1>4. h \in Nat
  BY <1>1, <1>3
<1>5. PICK entries \in Seq(ChildEntry) : /\ NewRootPage = Internal(entries)
                                         /\ OneAbove(entries, h, level, Nodes)
  BY <1>1, NewRootFacts
<1>6. IsInternal(Internal(entries))
  BY <1>5, InternalFacts
<1>7. Rebuilds(C)
  BY <1>2, <1>5, <1>6 DEF Rebuilds
<1>8. n \in Nodes'
  BY <1>7, NodesStay DEF TreeAt
<1>9. PICK level2 : level2 = Raised(level, n, h)
  OBVIOUS
<1>10. /\ level2 \in [PageId -> Nat] /\ level2[n] = h
       /\ \A x \in PageId \ {n} : level2[x] = level[x]
  <2>1. level \in [PageId -> Nat] /\ n \in PageId
    BY <1>2, <1>3
  <2> QED
    BY ONLY <1>4, <1>9, <2>1, RaisedFacts
<1>11. \A x \in Nodes : level2[x] = level[x]
  BY <1>2, <1>3, <1>10
<1>12. InPlace(Internal(entries), n, level2, Nodes')
  BY <1>5, <1>7, <1>10, <1>11, InternalPlaced
<1>13. \A x \in C : InPlace(pages'[x], x, level2, Nodes')
  BY <1>5, <1>12, Zenon
<1>14. PlacedAt(C, level, level2)
  BY <1>11, <1>13, Zenon DEF PlacedAt
<1> QED
  BY <1>7, <1>8, <1>10, <1>14

LEMMA NewRootIsPage ==
    ASSUME NEW level, TreeAt(level), call.op = "insert", call.path = <<>>
    PROVE  NewRootPage \in Page
BY NewRootFacts, InternalFacts

LEMMA GrowRootStep ==
    ASSUME TreeInv, GrowRoot, DictOK'
    PROVE  TreeInv'
<1>1. PICK level : TreeAt(level)
  BY TreeInvAt
<1>2. PICK n, p, q, C : n = next_id /\ p = NewRootPage /\ q = Meta(n) /\ C = {n}
  OBVIOUS
<1>3. /\ call.op = "insert" /\ call.path = <<>> /\ Allocate /\ RewriteBoth(n, p, 0, q)
      /\ call' = Idle /\ UNCHANGED errors
  BY <1>2, IdFacts DEF GrowRoot
<1>4. n \in PageId /\ n # 0
  BY <1>1, <1>2, <1>3, AllocateFacts DEF TreeAt
<1>5. p \in Page /\ q \in Page
  BY <1>1, <1>2, <1>3, <1>4, NewRootIsPage, MetaFacts
<1>6. /\ pages' \in [PageId -> Page] /\ dirty' \subseteq PageId /\ pages'[n] = p /\ pages'[0] = q
      /\ \A x \in PageId \ {n, 0} : pages'[x] = pages[x]
  BY <1>1, <1>3, <1>4, <1>5, IdFacts, RewriteBothFacts DEF TreeAt
<1>7. /\ Rebuilds(C) /\ n \in Nodes'
      /\ \E level2 \in [PageId -> Nat] : PlacedAt(C, level, level2)
  <2>1. pages'[n] = NewRootPage
    BY <1>2, <1>6
  <2> QED
    BY ONLY <1>1, <1>2, <1>3, <1>6, <2>1, NewRootPlaced
<1>8. errors' \in 0..MaxErrors
  BY <1>1, <1>3 DEF TreeAt, TypeOK
<1>9. PICK level2 \in [PageId -> Nat] : PlacedAt(C, level, level2)
  BY <1>7
<1>10. /\ \A x \in Nodes : level2[x] = level[x]
       /\ \A x \in C : InPlace(pages'[x], x, level2, Nodes')
  BY <1>9, Zenon DEF PlacedAt
<1> QED
  BY <1>1, <1>2, <1>3, <1>6, <1>7, <1>8, <1>10, RootMoved

LEMMA GrowRootFailsStep ==
    ASSUME TreeInv, GrowRootFails, DictOK'
    PROVE  TreeInv'
<1>1. PICK level : TreeAt(level)
  BY TreeInvAt
<1>2. PICK n, p, C : n = next_id /\ p = NewRootPage /\ C = {n}
  OBVIOUS
<1>3. /\ call.op = "insert" /\ call.path = <<>> /\ Allocate /\ Error /\ call.op # "closed"
      /\ UNCHANGED <<pages, dirty>> \/ Rewrite(n, p)
  BY <1>2 DEF GrowRootFails, IoError
<1>4. CASE UNCHANGED <<pages, dirty>>
  BY <1>3, <1>4, GivesUp
<1>5. CASE Rewrite(n, p)
  <2>1. n \in PageId /\ n # 0 /\ next_id' \in 1..MaxPage + 1
    BY <1>1, <1>2, <1>3, AllocateFacts DEF TreeAt
  <2>2. p \in Page
    BY <1>1, <1>2, <1>3, NewRootIsPage
  <2>3. /\ pages' \in [PageId -> Page] /\ dirty' \subseteq PageId /\ pages'[n] = p
        /\ \A x \in PageId \ {n} : pages'[x] = pages[x]
    BY <1>1, <1>5, <2>1, <2>2, RewriteFacts DEF TreeAt
  <2>p. pages'[n] = NewRootPage /\ \A x \in PageId \ {n, 0} : pages'[x] = pages[x]
    BY <1>2, <2>3
  <2>n. PICK level2 \in [PageId -> Nat] : PlacedAt(C, level, level2)
    BY ONLY <1>1, <1>2, <1>3, <2>3, <2>p, NewRootPlaced
  <2>4. /\ \A x \in Nodes : level2[x] = level[x]
        /\ \A x \in C : InPlace(pages'[x], x, level2, Nodes')
    BY <2>n, Zenon DEF PlacedAt
  <2>5. Rebuilds(C)
    BY ONLY <1>1, <1>2, <1>3, <2>3, <2>p, NewRootPlaced
  <2>6. Rooted
    BY <1>3, <2>1, <2>3, IdFacts DEF Rooted
  <2>7. call' = Idle /\ errors' \in 0..MaxErrors
    BY <1>1, <1>3, ErrorFacts DEF TreeAt
  <2>8. CallOK' /\ OnItsWayUp(level2)'
    BY <2>7, IdleFacts
  <2>9. StateOK'
    BY <2>1, <2>3, <2>7 DEF StateOK, DictOK
  <2> QED
    BY <1>1, <2>4, <2>5, <2>6, <2>8, <2>9, Assembled
<1> QED
  BY <1>3, <1>4, <1>5

LEMMA OpenStep ==
    ASSUME TreeInv, Open, DictOK'
    PROVE  TreeInv'
<1>1. PICK level : TreeAt(level)
  BY TreeInvAt
<1>2. call.op = "closed" /\ call' = Idle /\ UNCHANGED errors
  BY DEF Open
<1>3. errors' \in 0..MaxErrors
  BY <1>1, <1>2 DEF TreeAt, TypeOK
<1>4. CASE pages[0].entries = <<>>
  <2>1. PICK n, p, q, C : n = next_id /\ p = Leaf(<<>>, NO_SIBLING) /\ q = Meta(n) /\ C = {n}
    OBVIOUS
  <2>2. Allocate /\ RewriteBoth(n, p, 0, q)
    BY <1>4, <2>1, IdFacts DEF Open
  <2>3. /\ n \in PageId /\ n # 0 /\ n \notin Nodes
        /\ next_id' = next_id + 1 /\ next_id' \in 1..MaxPage + 1
    BY <1>1, <2>1, <2>2, AllocateFacts DEF TreeAt
  <2>4. NO_SIBLING \in PageId
    BY IdFacts DEF NO_SIBLING
  <2>5. p \in Page /\ IsLeaf(p) /\ ~IsInternal(p) /\ q \in Page
    BY <2>1, <2>3, <2>4, LeafFacts, MetaFacts, EmptySeq
  <2>6. /\ pages' \in [PageId -> Page] /\ dirty' \subseteq PageId /\ pages'[n] = p /\ pages'[0] = q
        /\ \A x \in PageId \ {n, 0} : pages'[x] = pages[x]
    BY <1>1, <2>2, <2>3, <2>5, IdFacts, RewriteBothFacts DEF TreeAt
  <2>7. Rebuilds(C)
    BY <2>1, <2>3, <2>5, <2>6 DEF Rebuilds
  <2>8. n \in Nodes'
    BY <1>1, <2>1, <2>7, NodesStay DEF TreeAt
  <2>9. PICK level2 : level2 = Raised(level, n, 0)
    OBVIOUS
  <2>10. /\ level2 \in [PageId -> Nat] /\ level2[n] = 0
         /\ \A x \in PageId \ {n} : level2[x] = level[x]
    BY <1>1, <2>3, <2>9, RaisedFacts DEF TreeAt
  <2>11. \A x \in Nodes : level2[x] = level[x]
    BY <1>1, <2>3, <2>10, NodeFacts DEF TreeAt
  <2>12. \A x \in C : InPlace(pages'[x], x, level2, Nodes')
    <3>1. \A nodes : InPlace(p, n, level2, nodes)
      BY <2>5, <2>10, LeafInPlace
    <3> QED
      BY <2>1, <2>6, <3>1, Zenon
  <2> QED
    BY <1>1, <1>2, <1>3, <2>1, <2>6, <2>7, <2>8, <2>10, <2>11, <2>12, RootMoved
<1>5. CASE pages[0].entries # <<>>
  <2>1. Rewrite(0, pages[0]) /\ UNCHANGED next_id
    BY <1>5, IdFacts DEF Open
  <2>2. PICK root : root = Root(pages)
    OBVIOUS
  <2>3. pages[0] = Meta(root) /\ root \in Nodes
    BY <1>1, <1>5, <2>2, IdFacts, BlankFacts DEF TreeAt, RootIsNode
  <2>4. pages \in [PageId -> Page] /\ dirty \subseteq PageId /\ next_id \in 1..MaxPage + 1
    BY <1>1 DEF TreeAt, TypeOK
  <2>5. pages' = pages /\ dirty' \subseteq PageId
    BY <2>1, <2>4, IdFacts DEF Rewrite
  <2>6. PICK C : C = {}
    OBVIOUS
  <2>7. Rebuilds(C)
    BY <2>1, <2>4, <2>5, <2>6 DEF Rebuilds
  <2>8. root \in Nodes'
    BY <1>1, <2>3, <2>7, NodesStay DEF TreeAt
  <2>9. level \in [PageId -> Nat] /\ \A x \in C : InPlace(pages'[x], x, level, Nodes')
    BY <1>1, <2>6 DEF TreeAt
  <2>10. pages'[0] = Meta(root)
    BY <2>3, <2>5
  <2> QED
    BY <1>1, <1>2, <1>3, <2>5, <2>7, <2>8, <2>9, <2>10, RootMoved
<1> QED
  BY <1>4, <1>5

-----------------------------------------------------------------------------
(* The theorems.                                                           *)

LEMMA TreeInit == Init => TreeInv
<1> SUFFICES ASSUME Init PROVE TreeInv
  OBVIOUS
<1>1. pages \in [PageId -> Page] /\ \A id \in PageId : pages[id] = Blank
  BY BlankFacts DEF Init
<1>2. next_id = 1 /\ call = [op |-> "closed"] /\ dirty = {} /\ errors = 0 /\ dict = [k \in Key |-> None]
  BY DEF Init
<1>3. StateOK /\ CallOK
  <2>1. 1 \in 1..MaxPage + 1 /\ 0 \in 0..MaxErrors
    BY BoundsAssumption
  <2> QED
    BY <1>2, <2>1 DEF StateOK, CallOK
<1>4. RootIsNode
  <2>1. \A id \in 1..MaxPage : id \in PageId
    BY IdFacts
  <2>2. call.op = "closed"
    BY <1>2
  <2> QED
    BY <1>1, <1>2, <2>1, <2>2, IdFacts DEF RootIsNode
<1>5. PICK level : level = [id \in PageId |-> 0]
  OBVIOUS
<1>6. level \in [PageId -> Nat]
  BY <1>5
<1>7. Levelled(level)
  BY <1>1, BlankFacts DEF Levelled, InPlace
<1>8. OnItsWayUp(level)
  BY <1>2 DEF OnItsWayUp
<1> QED
  BY <1>1, <1>3, <1>4, <1>6, <1>7, <1>8, TypeParts DEF TreeInv

\* A step that writes pages, or none.
LEMMA TreeKept ==
    ASSUME TreeInv, UNCHANGED <<pages, next_id, call, errors, dict>>, dirty' \subseteq dirty
    PROVE  TreeInv'
<1>1. PICK level \in [PageId -> Nat] : Levelled(level) /\ OnItsWayUp(level)
  BY DEF TreeInv
<1>2. /\ pages' = pages /\ dirty' \subseteq dirty /\ next_id' = next_id /\ call' = call
      /\ errors' = errors /\ dict' = dict
  OBVIOUS
<1>3. TypeOK' /\ RootIsNode'
  BY <1>2 DEF TreeInv, TypeOK, RootIsNode, Nodes
<1>4. Nodes' = Nodes
  BY <1>2 DEF Nodes
<1>5. Levelled(level)'
  BY <1>1, <1>2, <1>4 DEF Levelled
<1>6. OnItsWayUp(level)'
  BY <1>1, <1>2, <1>4 DEF OnItsWayUp
<1> QED
  BY <1>1, <1>3, <1>5, <1>6 DEF TreeInv

LEMMA TreeStep ==
    ASSUME TreeInv, [Next]_vars
    PROVE  TreeInv'
<1>1. dict \in [Key -> Val \cup {None}]
  BY DEF TreeInv, TypeOK
<1>2. UNCHANGED dict => DictOK'
  BY <1>1 DEF DictOK
<1>3. \A k \in Key, v \in Val \cup {None} : Set(k, v) => DictOK'
  BY <1>1 DEF DictOK, Set
<1>4. CASE UNCHANGED vars
  BY <1>4, TreeKept DEF vars
<1>5. CASE /\ Open \/ Ascend \/ GrowRoot \/ Unlink \/ ShrinkRoot
              \/ FetchFails \/ AscendFails \/ GrowRootFails
           /\ UNCHANGED dict
  BY <1>2, <1>5, OpenStep, AscendStep, GrowRootStep, UnlinkStep, ShrinkRootStep,
     FetchFailsStep, AscendFailsStep, GrowRootFailsStep
<1>6. CASE \E k \in Key : DeleteFromLeaf(k) /\ Set(k, None)
  BY <1>3, <1>6, DeleteFromLeafStep
<1>7. CASE \E k \in Key, v \in Val :
              \/ (InsertInLeaf(k, v) \/ SplitLeaf(k, v) \/ RightRefused(k, v)) /\ Set(k, v)
              \/ (LeftRefused(k, v) \/ SplitFails(k, v)) /\ UNCHANGED dict
  BY <1>2, <1>3, <1>7, InsertInLeafStep, SplitLeafStep, RightRefusedStep, LeftRefusedStep,
     SplitFailsStep
<1> QED
  BY <1>4, <1>5, <1>6, <1>7 DEF Next

\* The levels of the tree are kept through every split, change of root,
\* unlinking and error (btree.rs insert_recursive, delete_recursive).
THEOREM TreeInvariance == Spec => []TreeInv
BY TreeInit, TreeStep, PTL DEF Spec

\* Pages stay well-formed and page ids in range (btree.rs, buffer.rs new_page).
THEOREM TreeTypeCorrect == Spec => []TypeOK
<1>1. TreeInv => TypeOK
  BY DEF TreeInv
<1> QED
  BY <1>1, TreeInvariance, PTL

-----------------------------------------------------------------------------
(* Depths.                                                                 *)

\* The recursions of Depth and of EqualDepth, with f for what was computed.
LevelsFrom(f, store, id) ==
    IF IsInternal(store[id]) THEN 1 + f[Children(store[id])[1]] ELSE 1
LevelsOf(f, store) == [id \in PageId |-> LevelsFrom(f, store, id)]

DepthsFrom(f, store, id) ==
    IF IsInternal(store[id])
    THEN {1 + d : d \in UNION {f[c] : c \in ToSet(Children(store[id]))}}
    ELSE {1}
DepthsOf(f, store) == [id \in PageId |-> DepthsFrom(f, store, id)]

\* What they compute.
Height(level, store, id) == IF IsInternal(store[id]) THEN 1 + level[id] ELSE 1

LEMMA ChildrenFacts ==
    ASSUME NEW level, TreeAt(level), NEW id \in PageId, IsInternal(pages[id])
    PROVE  /\ Children(pages[id])[1] \in ToSet(Children(pages[id]))
           /\ \A c \in ToSet(Children(pages[id])) :
                 c \in PageId /\ level[id] = level[c] + 1 /\ Height(level, pages, c) = level[id]
<1>1. PICK entries, h, nodes : entries = pages[id].entries /\ h = level[id] /\ nodes = Nodes
  OBVIOUS
<1>2. entries \in Seq(ChildEntry) /\ OneAbove(entries, h, level, nodes)
  BY <1>1, InternalPage
<1>3. Len(entries) \in Nat /\ DOMAIN entries = 1..Len(entries) /\ Len(entries) >= 1
  BY <1>2, OneAboveFacts, LenProperties
<1>4. \A i \in DOMAIN entries : entries[i].child \in nodes /\ h = level[entries[i].child] + 1
  BY <1>2, <1>3, OneAboveFacts
<1>5. PICK s : s = Children(pages[id])
  OBVIOUS
<1>6. DOMAIN s = DOMAIN entries /\ \A i \in DOMAIN entries : s[i] = entries[i].child
  BY <1>1, <1>5 DEF Children
<1>7. 1 \in DOMAIN s
  BY <1>3, <1>6
<1>8. s[1] \in ToSet(s)
  BY <1>7, Zenon DEF ToSet
<1>9. ASSUME NEW c \in ToSet(s)
      PROVE  c \in PageId /\ level[id] = level[c] + 1 /\ Height(level, pages, c) = level[id]
  <2>1. PICK i \in DOMAIN s : c = s[i]
    BY <1>9, Zenon DEF ToSet
  <2>2. c \in nodes /\ h = level[c] + 1
    BY <1>4, <1>6, <2>1
  <2>3. c \in PageId /\ (IsLeaf(pages[c]) \/ IsInternal(pages[c]))
    BY <1>1, <2>2, NodeFacts DEF TreeAt
  <2>4. IsLeaf(pages[c]) => level[c] = 0
    BY <2>3 DEF TreeAt, Levelled, InPlace
  <2>5. level[c] \in Nat
    BY <2>3 DEF TreeAt
  <2>6. Height(level, pages, c) = level[c] + 1
    <3>1. CASE IsInternal(pages[c])
      BY <2>5, <3>1 DEF Height
    <3>2. CASE ~IsInternal(pages[c])
      BY <2>3, <2>4, <3>2 DEF Height
    <3> QED
      BY <3>1, <3>2
  <2> QED
    BY <1>1, <2>2, <2>3, <2>6
<1> QED
  BY <1>5, <1>8, <1>9

\* The leftmost path is as long as the levels say.
LEMMA LevelsAre ==
    ASSUME NEW level, TreeAt(level), NEW f, f = LevelsOf(f, pages)
    PROVE  \A id \in PageId : f[id] = Height(level, pages, id)
<1> DEFINE Bad == {n \in Nat : \E id \in PageId : level[id] = n /\ f[id] # Height(level, pages, id)}
<1>0. level \in [PageId -> Nat]
  BY DEF TreeAt
<1>1. ASSUME NEW n \in Bad, \A x \in Bad : n <= x PROVE FALSE
  <2>1. PICK id \in PageId : level[id] = n /\ f[id] # Height(level, pages, id)
    BY <1>1
  <2>2. f[id] = LevelsFrom(f, pages, id)
    BY DEF LevelsOf
  <2>3. CASE ~IsInternal(pages[id])
    BY <2>1, <2>2, <2>3 DEF LevelsFrom, Height
  <2>4. CASE IsInternal(pages[id])
    <3>1. PICK c \in PageId : /\ c = Children(pages[id])[1] /\ level[id] = level[c] + 1
                              /\ Height(level, pages, c) = level[id]
      BY <2>4, ChildrenFacts
    <3>2. level[c] \in Nat /\ ~(n <= level[c])
      BY <1>0, <2>1, <3>1
    <3>3. level[c] \notin Bad
      BY <1>1, <3>2, Zenon
    <3>4. f[c] = Height(level, pages, c)
      BY <3>2, <3>3, Zenon
    <3> QED
      BY <2>1, <2>2, <2>4, <3>1, <3>4 DEF LevelsFrom, Height
  <2> QED
    BY <2>3, <2>4
<1>2. Bad = {}
  <2>1. Bad \in SUBSET Nat
    BY Zenon
  <2> HIDE DEF Bad
  <2> QED
    BY <1>1, <2>1, SmallestNat
<1>3. \A id \in PageId : level[id] \in Nat
  BY <1>0
<1> QED
  BY <1>2, <1>3, Zenon

LEMMA LevelsSolved ==
    ASSUME NEW level, TreeAt(level)
    PROVE  \E f : f = LevelsOf(f, pages)
<1>1. PICK f : f = [id \in PageId |-> Height(level, pages, id)]
  OBVIOUS
<1>2. \A id \in PageId : f[id] = Height(level, pages, id)
  BY <1>1
<1>3. \A id \in PageId : LevelsFrom(f, pages, id) = Height(level, pages, id)
  <2> TAKE id \in PageId
  <2>1. CASE ~IsInternal(pages[id])
    BY <2>1 DEF LevelsFrom, Height
  <2>2. CASE IsInternal(pages[id])
    <3>1. PICK c \in PageId : c = Children(pages[id])[1] /\ Height(level, pages, c) = level[id]
      BY <2>2, ChildrenFacts
    <3> QED
      BY <1>2, <2>2, <3>1 DEF LevelsFrom, Height
  <2> QED
    BY <2>1, <2>2
<1>4. f = LevelsOf(f, pages)
  BY <1>1, <1>3 DEF LevelsOf
<1> QED
  BY <1>4

LEMMA OneDepth ==
    ASSUME NEW B, NEW b \in B, NEW f, NEW h \in Nat, \A c \in B : f[c] = {h}
    PROVE  {1 + d : d \in UNION {f[c] : c \in B}} = {1 + h}
<1>1. UNION {f[c] : c \in B} = {h}
  <2>1. \A x \in UNION {f[c] : c \in B} : x = h
    OBVIOUS
  <2>2. h \in f[b] /\ f[b] \in {f[c] : c \in B}
    OBVIOUS
  <2>3. h \in UNION {f[c] : c \in B}
    BY <2>2, Zenon
  <2> QED
    BY <2>1, <2>3, Zenon
<1> QED
  BY <1>1

\* Every path is as long as the levels say.
LEMMA DepthsAre ==
    ASSUME NEW level, TreeAt(level), NEW f, f = DepthsOf(f, pages)
    PROVE  \A id \in PageId : f[id] = {Height(level, pages, id)}
<1> DEFINE Bad == {n \in Nat : \E id \in PageId : level[id] = n /\ f[id] # {Height(level, pages, id)}}
<1>0. level \in [PageId -> Nat]
  BY DEF TreeAt
<1>1. ASSUME NEW n \in Bad, \A x \in Bad : n <= x PROVE FALSE
  <2>1. PICK id \in PageId : level[id] = n /\ f[id] # {Height(level, pages, id)}
    BY <1>1
  <2>2. f[id] = DepthsFrom(f, pages, id)
    BY DEF DepthsOf
  <2>3. CASE ~IsInternal(pages[id])
    BY <2>1, <2>2, <2>3 DEF DepthsFrom, Height
  <2>4. CASE IsInternal(pages[id])
    <3>1. PICK B : B = ToSet(Children(pages[id]))
      OBVIOUS
    <3>2. PICK b \in B : TRUE
      BY <2>4, <3>1, ChildrenFacts
    <3>3. \A c \in B : f[c] = {level[id]}
      <4> TAKE c \in B
      <4>1. c \in PageId /\ level[id] = level[c] + 1 /\ Height(level, pages, c) = level[id]
        BY <2>4, <3>1, ChildrenFacts
      <4>2. level[c] \in Nat /\ ~(n <= level[c])
        BY <1>0, <2>1, <4>1
      <4>3. level[c] \notin Bad
        BY <1>1, <4>2, Zenon
      <4>4. f[c] = {Height(level, pages, c)}
        BY <4>1, <4>2, <4>3, Zenon
      <4> QED
        BY <4>1, <4>4
    <3>4. level[id] \in Nat
      BY <1>0
    <3>5. {1 + d : d \in UNION {f[c] : c \in B}} = {1 + level[id]}
      BY <3>2, <3>3, <3>4, OneDepth
    <3>6. DepthsFrom(f, pages, id) = {1 + d : d \in UNION {f[c] : c \in B}}
      BY <2>4, <3>1, Zenon DEF DepthsFrom
    <3>7. Height(level, pages, id) = 1 + level[id]
      BY <2>4 DEF Height
    <3> QED
      BY <2>1, <2>2, <3>5, <3>6, <3>7, Zenon
  <2> QED
    BY <2>3, <2>4
<1>2. Bad = {}
  <2>1. Bad \in SUBSET Nat
    BY Zenon
  <2> HIDE DEF Bad
  <2> QED
    BY <1>1, <2>1, SmallestNat
<1>3. \A id \in PageId : level[id] \in Nat
  BY <1>0
<1> QED
  BY <1>2, <1>3, Zenon

LEMMA DepthsSolved ==
    ASSUME NEW level, TreeAt(level)
    PROVE  \E f : f = DepthsOf(f, pages)
<1>1. PICK f : f = [id \in PageId |-> {Height(level, pages, id)}]
  OBVIOUS
<1>2. \A id \in PageId : f[id] = {Height(level, pages, id)}
  BY <1>1
<1>3. \A id \in PageId : DepthsFrom(f, pages, id) = {Height(level, pages, id)}
  <2> TAKE id \in PageId
  <2>1. CASE ~IsInternal(pages[id])
    BY <2>1 DEF DepthsFrom, Height
  <2>2. CASE IsInternal(pages[id])
    <3>1. PICK B : B = ToSet(Children(pages[id]))
      OBVIOUS
    <3>2. PICK b \in B : TRUE
      BY <2>2, <3>1, ChildrenFacts
    <3>3. \A c \in B : f[c] = {level[id]}
      BY <1>2, <2>2, <3>1, ChildrenFacts
    <3>4. level[id] \in Nat
      BY DEF TreeAt
    <3>5. {1 + d : d \in UNION {f[c] : c \in B}} = {1 + level[id]}
      BY <3>2, <3>3, <3>4, OneDepth
    <3>6. DepthsFrom(f, pages, id) = {1 + d : d \in UNION {f[c] : c \in B}}
      BY <2>2, <3>1, Zenon DEF DepthsFrom
    <3>7. Height(level, pages, id) = 1 + level[id]
      BY <2>2 DEF Height
    <3> QED
      BY <3>5, <3>6, <3>7, Zenon
  <2> QED
    BY <2>1, <2>2
<1>4. f = DepthsOf(f, pages)
  BY <1>1, <1>3 DEF DepthsOf
<1> QED
  BY <1>4

LEMMA TreeIsBalanced == TreeInv => EqualDepth
<1> SUFFICES ASSUME TreeInv PROVE EqualDepth
  OBVIOUS
<1> DEFINE levels == CHOOSE f : f = LevelsOf(f, pages)
           depths == CHOOSE f : f = DepthsOf(f, pages)
<1>1. PICK level : TreeAt(level)
  BY TreeInvAt
<1>2. levels = LevelsOf(levels, pages) /\ depths = DepthsOf(depths, pages)
  BY <1>1, LevelsSolved, DepthsSolved, Zenon
<1>3. Depth(pages) = levels[Root(pages)]
  BY DEF Depth, LevelsOf, LevelsFrom
<1>4. EqualDepth <=> (call = Idle => depths[Root(pages)] = {Depth(pages)})
  BY Zenon DEF EqualDepth, DepthsOf, DepthsFrom
<1> HIDE DEF levels, depths
<1>5. ASSUME call = Idle PROVE depths[Root(pages)] = {Depth(pages)}
  <2>1. PICK root \in PageId : root = Root(pages)
    BY <1>1, <1>5, NodeFacts DEF TreeAt, Idle
  <2>2. levels[root] = Height(level, pages, root)
    BY <1>1, <1>2, LevelsAre
  <2>3. depths[root] = {Height(level, pages, root)}
    BY <1>1, <1>2, DepthsAre
  <2> QED
    BY <1>3, <2>1, <2>2, <2>3
<1> QED
  BY <1>4, <1>5

\* "Every root-to-leaf path in a B+Tree has equal length" (btree.rs depth),
\* between calls and after any error.
THEOREM TreeBalanced == Spec => []EqualDepth
BY TreeInvariance, TreeIsBalanced, PTL

-----------------------------------------------------------------------------
(* Separators in order, and where they send a key.                         *)

\* The separators of E send k to its i-th entry.
RoutesTo(E, k, i) == i \in 1..Len(E) /\ \A j \in 2..Len(E) : E[j].key <= k <=> j <= i

Separated(E) ==
    /\ E \in Seq(ChildEntry) /\ Len(E) >= 1
    /\ \A i \in 2..Len(E) : E[i].key \in Key
    /\ \A i, j \in 2..Len(E) : i < j => E[i].key < E[j].key

LEMMA KeysAreInts == \A k \in Key : k \in Int
BY KeyAssumption

LEMMA RouteIndexRoutes ==
    ASSUME NEW E, Separated(E), NEW k \in Key
    PROVE  RoutesTo(E, k, RouteIndex(E, k))
<1>1. PICK n \in Nat : n = Len(E) /\ n >= 1
  BY LenProperties DEF Separated
<1>2. PICK S : S = {1} \cup {i \in 2..Len(E) : \A j \in 2..i : E[j].key <= k}
  OBVIOUS
<1>3. 1 \in S /\ \A x \in S : x = 1 \/ x \in 2..n
  BY <1>1, <1>2, Zenon
<1>4. S \in SUBSET Nat /\ S # {} /\ \A x \in S : x <= n
  BY <1>1, <1>3
<1>5. PICK m \in S : m = Max(S) /\ \A x \in S : x <= m
  BY <1>4, MaxIs
<1>6. m \in 1..n
  BY <1>1, <1>3
<1>7. RouteIndex(E, k) = m
  BY <1>2, <1>5 DEF RouteIndex
<1>8. ASSUME NEW j \in 2..n, j <= m PROVE E[j].key <= k
  <2>1. m # 1 /\ j \in 2..m
    BY <1>6, <1>8
  <2> QED
    BY <1>2, <1>5, <2>1
<1>9. ASSUME NEW j \in 2..n, E[j].key <= k PROVE j <= m
  <2>1. \A i \in 2..j : i \in 2..n /\ i <= j
    BY <1>1
  <2>2. \A i \in 2..j : E[i].key \in Int /\ E[j].key \in Int /\ k \in Int
    BY <1>1, <2>1, KeysAreInts DEF Separated
  <2>3. \A i \in 2..j : E[i].key <= k
    <3> TAKE i \in 2..j
    <3>1. i = j \/ E[i].key < E[j].key
      BY <1>1, <2>1 DEF Separated
    <3> QED
      BY <1>9, <2>2, <3>1
  <2>4. j \in S
    BY <1>1, <1>2, <2>3
  <2> QED
    BY <1>5, <2>4
<1> QED
  BY <1>1, <1>6, <1>7, <1>8, <1>9 DEF RoutesTo

LEMMA RoutesOneWay ==
    ASSUME NEW E, Separated(E), NEW k, NEW i, NEW j, RoutesTo(E, k, i), RoutesTo(E, k, j)
    PROVE  i = j
<1>1. PICK n \in Nat : n = Len(E)
  BY LenProperties DEF Separated
<1>2. i \in 1..n /\ j \in 1..n
  BY <1>1 DEF RoutesTo
<1>3. CASE i < j
  <2>1. j \in 2..n /\ ~(j <= i) /\ j <= j
    BY <1>2, <1>3
  <2> QED
    BY <1>1, <2>1 DEF RoutesTo
<1>4. CASE j < i
  <2>1. i \in 2..n /\ ~(i <= j) /\ i <= i
    BY <1>2, <1>4
  <2> QED
    BY <1>1, <2>1 DEF RoutesTo
<1> QED
  BY <1>2, <1>3, <1>4

\* Route is the child that RoutesTo gives.
LEMMA RouteIs ==
    ASSUME NEW E, Separated(E), NEW k \in Key
    PROVE  /\ \E i \in 1..Len(E) : RoutesTo(E, k, i) /\ Route(E, k) = E[i].child
           /\ \A i : RoutesTo(E, k, i) => Route(E, k) = E[i].child
<1>1. RoutesTo(E, k, RouteIndex(E, k))
  BY RouteIndexRoutes
<1>2. \A i : RoutesTo(E, k, i) => i = RouteIndex(E, k)
  BY <1>1, RoutesOneWay
<1>3. RouteIndex(E, k) \in 1..Len(E)
  BY <1>1 DEF RoutesTo
<1> QED
  BY <1>1, <1>2, <1>3 DEF Route

\* W is E with e behind its r-th entry.
Inserted(W, E, r, e) ==
    /\ Len(W) = Len(E) + 1
    /\ \A j \in 1..Len(E) + 1 : W[j] = IF j <= r THEN E[j] ELSE IF j = r + 1 THEN e ELSE E[j - 1]

LEMMA WithChildInserts ==
    ASSUME NEW E, Separated(E), NEW sep \in Key, NEW child \in PageId,
           NEW r, RoutesTo(E, sep, r)
    PROVE  /\ WithChild(E, sep, child) \in Seq(ChildEntry)
           /\ Inserted(WithChild(E, sep, child), E, r, InternalEntry(sep, child))
<1>1. PICK n \in Nat : n = Len(E) /\ n >= 1
  BY LenProperties DEF Separated
<1>2. PICK S : S = {i \in 2..Len(E) : E[i].key > sep}
  OBVIOUS
<1>3. PICK at : at = IF S = {} THEN Len(E) + 1 ELSE Min(S)
  OBVIOUS
<1>r. r \in 1..n
  BY <1>1 DEF RoutesTo
<1>4. \A i \in 2..n : i \in S <=> i > r
  <2> TAKE i \in 2..n
  <2>1. E[i].key \in Int /\ sep \in Int
    BY <1>1, KeysAreInts DEF Separated
  <2>2. E[i].key <= sep <=> i <= r
    BY <1>1 DEF RoutesTo
  <2>3. E[i].key > sep <=> i > r
    BY <1>r, <2>1, <2>2
  <2> QED
    BY <1>1, <1>2, <2>3
<1>5. \A i \in S : i \in 2..n
  BY <1>1, <1>2
<1>6. at = r + 1
  <2>1. CASE S = {}
    <3>1. ~(r + 1 \in 2..n)
      BY <1>4, <1>r, <2>1
    <3>2. r = n
      BY <1>r, <3>1
    <3> QED
      BY <1>1, <1>3, <2>1, <3>2
  <2>2. CASE S # {}
    <3>1. S \in SUBSET Nat
      BY <1>5
    <3>2. PICK x \in S : \A y \in S : x <= y
      BY <2>2, <3>1, SmallestNat
    <3>3. PICK m \in S : m = Min(S) /\ \A y \in S : m <= y
      BY <3>2, Zenon DEF Min
    <3>4. m \in 2..n /\ m > r
      BY <1>4, <1>5, <3>3
    <3>5. r + 1 \in 2..n /\ r + 1 > r
      BY <1>r, <3>4
    <3>6. m <= r + 1
      BY <1>4, <3>3, <3>5
    <3> QED
      BY <1>3, <1>r, <2>2, <3>3, <3>4, <3>6
  <2> QED
    BY <2>1, <2>2
<1>7. PICK e : e = InternalEntry(sep, child)
  OBVIOUS
<1>8. e \in ChildEntry
  BY <1>7 DEF InternalEntry, ChildEntry
<1>9. PICK W : W = InsertAt(E, at, e)
  OBVIOUS
<1>10. at \in 1..Len(E) + 1 /\ E \in Seq(ChildEntry)
  BY <1>1, <1>6, <1>r DEF Separated
<1>11. /\ W \in Seq(ChildEntry) /\ Len(W) = Len(E) + 1
       /\ \A j \in 1..Len(E) + 1 : W[j] = IF j < at THEN E[j] ELSE IF j = at THEN e ELSE E[j - 1]
  BY <1>8, <1>9, <1>10, InsertAtFacts
<1>12. \A j \in 1..Len(E) + 1 : (j < at <=> j <= r)
  BY <1>1, <1>6, <1>r
<1>13. Inserted(W, E, r, e)
  BY <1>6, <1>11, <1>12 DEF Inserted
<1>14. WithChild(E, sep, child) = W
  BY <1>2, <1>3, <1>7, <1>9 DEF WithChild
<1> QED
  BY <1>7, <1>11, <1>13, <1>14

\* What a new separator does to the routes.
LEMMA InsertedRoutes ==
    ASSUME NEW E, Separated(E), NEW e \in ChildEntry, e.key \in Key,
           NEW r, RoutesTo(E, e.key, r), r = 1 \/ E[r].key < e.key,
           NEW W \in Seq(ChildEntry), Inserted(W, E, r, e)
    PROVE  /\ Separated(W) /\ r \in 1..Len(E) /\ Len(W) = Len(E) + 1
           /\ \A j \in 1..r : W[j] = E[j]
           /\ W[r + 1] = e
           /\ \A j \in r + 1..Len(E) : W[j + 1] = E[j]
           /\ \A k \in Key, j \in 1..Len(E) : k < e.key =>
                 (RoutesTo(E, k, j) <=> RoutesTo(W, k, j)) /\ (RoutesTo(E, k, j) => j <= r)
           /\ \A k \in Key, j \in 1..Len(E) : e.key <= k =>
                 (RoutesTo(E, k, j) <=> RoutesTo(W, k, j + 1)) /\ (RoutesTo(E, k, j) => r <= j)
<1>1. PICK n \in Nat : n = Len(E) /\ n >= 1 /\ r \in 1..n
  BY LenProperties DEF Separated, RoutesTo
<1>2. Len(W) = n + 1
  BY <1>1 DEF Inserted
<1>3. \A j \in 1..r : W[j] = E[j]
  BY <1>1 DEF Inserted
<1>4. W[r + 1] = e
  BY <1>1 DEF Inserted
<1>5. \A j \in r + 1..n : W[j + 1] = E[j]
  <2> TAKE j \in r + 1..n
  <2>1. j + 1 \in 1..n + 1 /\ ~(j + 1 <= r) /\ j + 1 # r + 1 /\ (j + 1) - 1 = j
    BY <1>1
  <2> QED
    BY <1>1, <2>1 DEF Inserted
<1>6. \A j \in 2..n : E[j].key \in Int
  BY <1>1, KeysAreInts DEF Separated
<1>7. e.key \in Int
  BY KeysAreInts
<1>8. \A j \in 2..n : E[j].key <= e.key <=> j <= r
  BY <1>1 DEF RoutesTo
<1>9. \A j \in 2..n + 1 : W[j].key \in Key
  <2> TAKE j \in 2..n + 1
  <2>1. CASE j <= r
    BY <1>1, <1>3, <2>1 DEF Separated
  <2>2. CASE j = r + 1
    BY <1>4, <2>2
  <2>3. CASE j > r + 1
    <3>1. j - 1 \in r + 1..n /\ j - 1 \in 2..n /\ (j - 1) + 1 = j
      BY <1>1, <2>3
    <3> QED
      BY <1>1, <1>5, <3>1 DEF Separated
  <2> QED
    BY <1>1, <2>1, <2>2, <2>3
<1>10. \A j \in 2..n + 1 : W[j].key \in Int
  BY <1>9, KeysAreInts
<1>11. \A i, j \in 2..n : i < j => E[i].key < E[j].key
  BY <1>1 DEF Separated
<1>12. \A i, j \in 2..n + 1 : i < j => W[i].key < W[j].key
  <2> SUFFICES ASSUME NEW i \in 2..n + 1, NEW j \in 2..n + 1, i < j PROVE W[i].key < W[j].key
    OBVIOUS
  <2>1. CASE j <= r
    BY <1>1, <1>3, <1>11, <2>1
  <2>2. CASE j = r + 1
    <3>1. i \in 2..n /\ i <= r /\ W[i] = E[i] /\ r \in 2..n
      BY <1>1, <1>3, <2>2
    <3>2. E[r].key < e.key
      BY <3>1
    <3>3. i = r \/ E[i].key < E[r].key
      BY <1>1, <1>11, <3>1
    <3> QED
      BY <1>4, <1>6, <1>7, <2>2, <3>1, <3>2, <3>3
  <2>3. CASE j > r + 1
    <3>1. PICK y \in 2..n : y = j - 1 /\ W[j] = E[y] /\ y > r
      <4>1. j - 1 \in r + 1..n /\ j - 1 \in 2..n /\ (j - 1) + 1 = j /\ j - 1 > r
        BY <1>1, <2>3
      <4> QED
        BY <1>5, <4>1
    <3>2. CASE i <= r
      <4>1. i \in 2..n /\ W[i] = E[i] /\ i < y
        BY <1>1, <1>3, <3>1, <3>2
      <4> QED
        BY <1>11, <3>1, <4>1
    <3>3. CASE i = r + 1
      <4>1. ~(E[y].key <= e.key)
        BY <1>1, <1>8, <3>1
      <4> QED
        BY <1>4, <1>6, <1>7, <3>1, <3>3, <4>1
    <3>4. CASE i > r + 1
      <4>1. i - 1 \in r + 1..n /\ i - 1 \in 2..n /\ (i - 1) + 1 = i /\ i - 1 < y
        BY <1>1, <3>1, <3>4
      <4>2. W[i] = E[i - 1]
        BY <1>5, <4>1
      <4> QED
        BY <1>11, <3>1, <4>1, <4>2
    <3> QED
      BY <1>1, <3>2, <3>3, <3>4
  <2> QED
    BY <1>1, <2>1, <2>2, <2>3
<1>13. Separated(W)
  BY <1>1, <1>2, <1>9, <1>12 DEF Separated
<1>14. ASSUME NEW k \in Key, NEW j \in 1..n, k < e.key
       PROVE  (RoutesTo(E, k, j) <=> RoutesTo(W, k, j)) /\ (RoutesTo(E, k, j) => j <= r)
  <2>1. k \in Int
    BY KeysAreInts
  <2>2. \A i \in r + 1..n : ~(E[i].key <= k)
    <3> TAKE i \in r + 1..n
    <3>1. i \in 2..n /\ ~(i <= r)
      BY <1>1
    <3> QED
      BY <1>6, <1>7, <1>8, <1>14, <2>1, <3>1
  <2>3. RoutesTo(E, k, j) => j <= r
    <3>1. j > r => j \in r + 1..n /\ j \in 2..n /\ j <= j
      BY <1>1
    <3> QED
      BY <1>1, <2>2, <3>1 DEF RoutesTo
  <2>4. RoutesTo(W, k, j) => j <= r
    <3> SUFFICES ASSUME RoutesTo(W, k, j), j > r PROVE FALSE
      BY <1>1
    <3>1. r + 1 \in 2..n + 1 /\ r + 1 <= j
      BY <1>1
    <3>2. W[r + 1].key <= k
      BY <1>2, <3>1 DEF RoutesTo
    <3> QED
      BY <1>4, <1>7, <1>14, <2>1, <3>2
  <2>5. \A i \in r + 1..n + 1 : ~(W[i].key <= k)
    <3> TAKE i \in r + 1..n + 1
    <3>1. CASE i = r + 1
      BY <1>4, <1>7, <1>14, <2>1, <3>1
    <3>2. CASE i # r + 1
      <4>1. i - 1 \in r + 1..n /\ (i - 1) + 1 = i
        BY <1>1, <3>2
      <4> QED
        BY <1>5, <2>2, <4>1
    <3> QED
      BY <3>1, <3>2
  <2>6. ASSUME j <= r, RoutesTo(E, k, j) PROVE RoutesTo(W, k, j)
    <3>1. \A i \in 2..n + 1 : W[i].key <= k <=> i <= j
      <4> TAKE i \in 2..n + 1
      <4>1. CASE i <= r
        <5>1. i \in 2..n /\ W[i] = E[i]
          BY <1>1, <1>3, <4>1
        <5> QED
          BY <1>1, <2>6, <5>1 DEF RoutesTo
      <4>2. CASE i > r
        BY <1>1, <2>5, <2>6, <4>2
      <4> QED
        BY <1>1, <4>1, <4>2
    <3>2. j \in 1..n + 1
      BY <1>1
    <3> QED
      BY <1>2, <3>1, <3>2 DEF RoutesTo
  <2>7. ASSUME j <= r, RoutesTo(W, k, j) PROVE RoutesTo(E, k, j)
    <3>1. \A i \in 2..n : E[i].key <= k <=> i <= j
      <4> TAKE i \in 2..n
      <4>1. CASE i <= r
        <5>1. i \in 2..n + 1 /\ W[i] = E[i]
          BY <1>1, <1>3, <4>1
        <5> QED
          BY <1>2, <2>7, <5>1 DEF RoutesTo
      <4>2. CASE i > r
        BY <1>1, <2>2, <2>7, <4>2
      <4> QED
        BY <1>1, <4>1, <4>2
    <3> QED
      BY <1>1, <3>1 DEF RoutesTo
  <2> QED
    BY <2>3, <2>4, <2>6, <2>7
<1>15. ASSUME NEW k \in Key, NEW j \in 1..n, e.key <= k
       PROVE  (RoutesTo(E, k, j) <=> RoutesTo(W, k, j + 1)) /\ (RoutesTo(E, k, j) => r <= j)
  <2>1. k \in Int
    BY KeysAreInts
  <2>2. \A i \in 2..r : E[i].key <= k
    <3> TAKE i \in 2..r
    <3>1. i \in 2..n /\ i <= r
      BY <1>1
    <3> QED
      BY <1>6, <1>7, <1>8, <1>15, <2>1, <3>1
  <2>3. RoutesTo(E, k, j) => r <= j
    <3>1. r > j => r \in 2..r /\ r \in 2..n
      BY <1>1
    <3> QED
      BY <1>1, <2>2, <3>1 DEF RoutesTo
  <2>4. RoutesTo(W, k, j + 1) => r <= j
    <3> SUFFICES ASSUME RoutesTo(W, k, j + 1), j < r PROVE FALSE
      BY <1>1
    <3>1. r + 1 \in 2..n + 1 /\ ~(r + 1 <= j + 1)
      BY <1>1
    <3>2. ~(W[r + 1].key <= k)
      BY <1>2, <3>1 DEF RoutesTo
    <3> QED
      BY <1>4, <1>15, <3>2
  <2>5. ASSUME r <= j, RoutesTo(E, k, j) PROVE RoutesTo(W, k, j + 1)
    <3>1. \A i \in 2..n + 1 : W[i].key <= k <=> i <= j + 1
      <4> TAKE i \in 2..n + 1
      <4>1. CASE i <= r
        <5>1. i \in 2..r /\ W[i] = E[i] /\ i <= j + 1
          BY <1>1, <1>3, <2>5, <4>1
        <5> QED
          BY <2>2, <5>1
      <4>2. CASE i = r + 1
        BY <1>1, <1>4, <1>15, <2>5, <4>2
      <4>3. CASE i > r + 1
        <5>1. i - 1 \in r + 1..n /\ (i - 1) + 1 = i /\ i - 1 \in 2..n /\ (i - 1 <= j <=> i <= j + 1)
          BY <1>1, <4>3
        <5>2. W[i] = E[i - 1]
          BY <1>5, <5>1
        <5>3. E[i - 1].key <= k <=> i - 1 <= j
          BY <1>1, <2>5, <5>1 DEF RoutesTo
        <5> QED
          BY <5>1, <5>2, <5>3
      <4> QED
        BY <1>1, <4>1, <4>2, <4>3
    <3>2. j + 1 \in 1..n + 1
      BY <1>1
    <3> QED
      BY <1>2, <3>1, <3>2 DEF RoutesTo
  <2>6. ASSUME r <= j, RoutesTo(W, k, j + 1) PROVE RoutesTo(E, k, j)
    <3>1. \A i \in 2..n : E[i].key <= k <=> i <= j
      <4> TAKE i \in 2..n
      <4>1. CASE i <= r
        <5>1. i \in 2..r /\ i <= j
          BY <1>1, <2>6, <4>1
        <5> QED
          BY <2>2, <5>1
      <4>2. CASE i > r
        <5>1. i \in r + 1..n /\ i + 1 \in 2..n + 1 /\ (i + 1 <= j + 1 <=> i <= j)
          BY <1>1, <4>2
        <5>2. W[i + 1] = E[i]
          BY <1>5, <5>1
        <5>3. W[i + 1].key <= k <=> i + 1 <= j + 1
          BY <1>2, <2>6, <5>1 DEF RoutesTo
        <5> QED
          BY <5>1, <5>2, <5>3
      <4> QED
        BY <1>1, <4>1, <4>2
    <3> QED
      BY <1>1, <3>1 DEF RoutesTo
  <2> QED
    BY <2>3, <2>4, <2>5, <2>6
<1> QED
  BY <1>1, <1>2, <1>3, <1>4, <1>5, <1>13, <1>14, <1>15

\* E2 is made of entries of E, and a key that E sends to one of them is sent to
\* it by E2.
Part(E2, E, g) ==
    /\ Separated(E2)
    /\ g \in [1..Len(E2) -> 1..Len(E)]
    /\ \A i, j \in 1..Len(E2) : g[i] = g[j] => i = j
    /\ \A i \in 1..Len(E2) : E2[i].child = E[g[i]].child
    /\ \A i \in 2..Len(E2) : g[i] \in 2..Len(E) /\ E2[i].key = E[g[i]].key
    /\ \A i \in 1..Len(E2), k \in Key : RoutesTo(E, k, g[i]) => RoutesTo(E2, k, i)

Moved(n, m) == [i \in 1..n |-> m + i]

\* The first m entries.
LEMMA PrefixPart ==
    ASSUME NEW E, Separated(E), NEW m \in 1..Len(E), NEW L, L = SubSeq(E, 1, m)
    PROVE  Part(L, E, Moved(m, 0)) /\ Len(L) = m
<1>1. PICK n \in Nat : n = Len(E) /\ n >= 1 /\ m \in 1..n /\ m \in 0..Len(E)
  BY LenProperties DEF Separated
<1>2. E \in Seq(ChildEntry)
  BY DEF Separated
<1>3. L \in Seq(ChildEntry) /\ Len(L) = m /\ \A i \in 1..m : L[i] = E[i]
  BY <1>1, <1>2, PrefixFacts
<1>4. Separated(L)
  <2>1. \A i \in 2..m : i \in 2..n /\ i \in 1..m
    BY <1>1
  <2>2. \A i \in 2..m : L[i].key \in Key
    BY <1>1, <1>3, <2>1 DEF Separated
  <2>3. \A i, j \in 2..m : i < j => L[i].key < L[j].key
    BY <1>1, <1>3, <2>1 DEF Separated
  <2> QED
    BY <1>1, <1>3, <2>2, <2>3 DEF Separated
<1>5. PICK g : g = Moved(m, 0)
  OBVIOUS
<1>6. \A i \in 1..m : g[i] = i
  BY <1>1, <1>5 DEF Moved
<1>7. g \in [1..m -> 1..n]
  BY <1>1, <1>5 DEF Moved
<1>8. ASSUME NEW i \in 1..m, NEW k \in Key, RoutesTo(E, k, i) PROVE RoutesTo(L, k, i)
  <2>1. \A j \in 2..m : j \in 2..n /\ j \in 1..m
    BY <1>1
  <2>2. \A j \in 2..m : L[j].key <= k <=> j <= i
    BY <1>1, <1>3, <1>8, <2>1 DEF RoutesTo
  <2> QED
    BY <1>3, <2>2 DEF RoutesTo
<1>9. \A i \in 2..m : i \in 1..m /\ i \in 2..n
  BY ONLY <1>1, n \in Nat, m \in 1..n
<1>10. \A i, j \in 1..m : g[i] = g[j] => i = j
  BY <1>6
<1>11. \A i \in 1..m : L[i].child = E[g[i]].child
  BY <1>3, <1>6
<1>12. \A i \in 2..m : g[i] \in 2..n /\ L[i].key = E[g[i]].key
  BY <1>3, <1>6, <1>9
<1>13. \A i \in 1..m, k \in Key : RoutesTo(E, k, g[i]) => RoutesTo(L, k, i)
  BY <1>6, <1>8
<1>14. Part(L, E, g)
  BY ONLY <1>1, <1>3, <1>4, <1>7, <1>10, <1>11, <1>12, <1>13 DEF Part
<1> QED
  BY <1>3, <1>5, <1>14

\* R has the entries behind the m-th, the first without its key.
Behind(R, E, m) ==
    /\ R \in Seq(ChildEntry) /\ Len(R) = Len(E) - m /\ R[1].child = E[m + 1].child
    /\ \A j \in 2..Len(E) - m : R[j] = E[m + j]

LEMMA BehindPart ==
    ASSUME NEW E, Separated(E), NEW m \in Nat, m + 1 \in 1..Len(E), NEW R, Behind(R, E, m)
    PROVE  Part(R, E, Moved(Len(E) - m, m)) /\ Len(R) = Len(E) - m
<1>1. PICK n \in Nat : n = Len(E) /\ n >= 1 /\ m + 1 \in 1..n
  BY LenProperties DEF Separated
<1>2. PICK l \in Nat : l = n - m /\ l >= 1
  <2>1. n - m \in Nat /\ n - m >= 1
    BY <1>1
  <2> QED
    BY <2>1
<1>3. R \in Seq(ChildEntry) /\ Len(R) = l /\ R[1].child = E[m + 1].child /\ \A j \in 2..l : R[j] = E[m + j]
  BY <1>1, <1>2 DEF Behind
<1>4. \A j \in 2..l : m + j \in 2..n
  BY <1>1, <1>2
<1>5. Separated(R)
  <2>1. \A i \in 2..l : R[i].key \in Key
    BY <1>1, <1>3, <1>4 DEF Separated
  <2>2. ASSUME NEW i \in 2..l, NEW j \in 2..l, i < j PROVE R[i].key < R[j].key
    <3>1. m + i < m + j
      BY <2>2
    <3> QED
      BY <1>1, <1>3, <1>4, <3>1 DEF Separated
  <2> QED
    BY <1>2, <1>3, <2>1, <2>2 DEF Separated
<1>6. PICK g : g = Moved(l, m)
  OBVIOUS
<1>7. \A i \in 1..l : g[i] = m + i
  BY <1>6 DEF Moved
<1>8. g \in [1..l -> 1..n]
  BY <1>1, <1>2, <1>6 DEF Moved
<1>9. ASSUME NEW i \in 1..l, NEW k \in Key, RoutesTo(E, k, m + i) PROVE RoutesTo(R, k, i)
  <2>1. \A j \in 2..l : R[j].key <= k <=> j <= i
    <3> TAKE j \in 2..l
    <3>1. m + j <= m + i <=> j <= i
      OBVIOUS
    <3>2. E[m + j].key <= k <=> m + j <= m + i
      BY <1>1, <1>4, <1>9 DEF RoutesTo
    <3> QED
      BY <1>3, <3>1, <3>2
  <2> QED
    BY <1>3, <2>1 DEF RoutesTo
<1>10. \A i \in 1..l : R[i].child = E[m + i].child
  <2> TAKE i \in 1..l
  <2>1. i = 1 \/ i \in 2..l
    OBVIOUS
  <2> QED
    BY <1>3, <2>1
<1>11. \A i, j \in 1..l : m + i = m + j => i = j
  OBVIOUS
<1>12. \A i \in 2..l : i \in 1..l
  OBVIOUS
<1>13. Part(R, E, g)
  BY <1>1, <1>3, <1>4, <1>5, <1>7, <1>8, <1>9, <1>10, <1>11, <1>12 DEF Part
<1> QED
  BY <1>1, <1>2, <1>3, <1>6, <1>13

\* A leftmost entry in front of the entries behind the m + 1st.
LEMMA LeftmostIsBehind ==
    ASSUME NEW E, Separated(E), NEW m \in Nat, m + 1 \in 1..Len(E), NEW rest, NEW R,
           rest = SubSeq(E, m + 2, Len(E)), R = <<Leftmost(E[m + 1].child)>> \o rest
    PROVE  Behind(R, E, m)
<1>1. PICK n \in Nat : n = Len(E) /\ n >= 1 /\ m + 1 \in 1..n
  BY LenProperties DEF Separated
<1>2. E \in Seq(ChildEntry)
  BY DEF Separated
<1>3. PICK e : e = Leftmost(E[m + 1].child)
  OBVIOUS
<1>4. e \in ChildEntry /\ e.child = E[m + 1].child
  <2>1. E[m + 1] \in ChildEntry
    BY <1>1, <1>2, ElementOfSeq
  <2> QED
    BY <1>3, <2>1 DEF Leftmost, InternalEntry, ChildEntry
<1>5. PICK first : first = <<e>>
  OBVIOUS
<1>6. first \in Seq(ChildEntry) /\ Len(first) = 1 /\ first[1] = e
  BY <1>4, <1>5
<1>7. /\ rest \in Seq(ChildEntry) /\ Len(rest) = (IF m + 2 <= n THEN n - (m + 2) + 1 ELSE 0)
      /\ \A j \in 1..(n - (m + 2) + 1) : rest[j] = E[m + 2 + j - 1]
  <2>1. m + 2 \in Nat /\ m + 2 >= 1 /\ n \in 0..Len(E)
    BY <1>1
  <2>2. rest = SubSeq(E, m + 2, n)
    BY <1>1
  <2> QED
    BY <1>2, <2>1, <2>2, SliceFacts
<1>8. Len(rest) = n - m - 1
  BY <1>1, <1>7
<1>9. /\ R \in Seq(ChildEntry) /\ Len(R) = Len(first) + Len(rest)
      /\ \A j \in 1..(Len(first) + Len(rest)) :
            R[j] = IF j <= Len(first) THEN first[j] ELSE rest[j - Len(first)]
  <2>1. first \in Seq(ChildEntry) /\ rest \in Seq(ChildEntry) /\ R = first \o rest
    BY <1>3, <1>5, <1>6, <1>7
  <2> QED
    BY <2>1, ConcatProperties
<1>10. Len(R) = n - m
  BY <1>1, <1>6, <1>8, <1>9
<1>11. R[1] = e
  BY <1>1, <1>6, <1>8, <1>9
<1>12. \A j \in 2..n - m : R[j] = E[m + j]
  <2> TAKE j \in 2..n - m
  <2>1. j \in 1..(1 + (n - m - 1)) /\ ~(j <= 1) /\ j - 1 \in 1..(n - (m + 2) + 1) /\ m + 2 + (j - 1) - 1 = m + j
    BY <1>1
  <2>2. R[j] = rest[j - 1]
    BY <1>6, <1>8, <1>9, <2>1
  <2>3. rest[j - 1] = E[m + 2 + (j - 1) - 1]
    BY <1>7, <2>1
  <2> QED
    BY <2>1, <2>2, <2>3
<1> QED
  BY <1>1, <1>4, <1>9, <1>10, <1>11, <1>12 DEF Behind

\* E2 is E without its i-th entry.
Without(E2, E, i) ==
    /\ E2 \in Seq(ChildEntry) /\ Len(E2) = Len(E) - 1
    /\ \A j \in 1..Len(E) - 1 : E2[j] = IF j < i THEN E[j] ELSE E[j + 1]

Skipping(n, i) == [j \in 1..n |-> IF j < i THEN j ELSE j + 1]

LEMMA WithoutPart ==
    ASSUME NEW E, Separated(E), NEW i \in 2..Len(E), NEW E2, Without(E2, E, i)
    PROVE  Part(E2, E, Skipping(Len(E) - 1, i)) /\ Len(E2) = Len(E) - 1
<1>1. PICK n \in Nat : n = Len(E) /\ n >= 2 /\ i \in 2..n
  BY LenProperties DEF Separated
<1>2. PICK l \in Nat : l = n - 1 /\ l >= 1 /\ l + 1 = n
  BY <1>1
<1>3. E2 \in Seq(ChildEntry) /\ Len(E2) = l /\ \A j \in 1..l : E2[j] = IF j < i THEN E[j] ELSE E[j + 1]
  BY <1>1, <1>2 DEF Without
<1>4. PICK g : g = Skipping(l, i)
  OBVIOUS
<1>5. \A j \in 1..l : g[j] = IF j < i THEN j ELSE j + 1
  BY <1>4 DEF Skipping
<1>6. g \in [1..l -> 1..n]
  <2>1. \A j \in 1..l : (IF j < i THEN j ELSE j + 1) \in 1..n
    BY <1>1, <1>2
  <2> QED
    BY <1>4, <2>1 DEF Skipping
<1>7. \A j \in 1..l : E2[j] = E[g[j]]
  BY <1>3, <1>5
<1>8. \A j \in 2..l : j \in 1..l /\ g[j] \in 2..n
  BY <1>1, <1>2, <1>5
<1>9. \A x, y \in 1..l : (g[x] = g[y] => x = y) /\ (x < y => g[x] < g[y])
  BY <1>1, <1>2, <1>5
<1>10. Separated(E2)
  <2>1. \A j \in 2..l : E2[j].key \in Key
    BY <1>1, <1>7, <1>8 DEF Separated
  <2>2. \A x, y \in 2..l : x < y => E2[x].key < E2[y].key
    BY <1>1, <1>7, <1>8, <1>9 DEF Separated
  <2> QED
    BY <1>2, <1>3, <2>1, <2>2 DEF Separated
<1>11. ASSUME NEW x \in 1..l, NEW k \in Key, RoutesTo(E, k, g[x]) PROVE RoutesTo(E2, k, x)
  <2>1. \A j \in 2..l : E2[j].key <= k <=> j <= x
    <3> TAKE j \in 2..l
    <3>1. E[g[j]].key <= k <=> g[j] <= g[x]
      BY <1>1, <1>8, <1>11 DEF RoutesTo
    <3>2. g[j] <= g[x] <=> j <= x
      BY <1>1, <1>2, <1>5, <1>8
    <3> QED
      BY <1>7, <1>8, <3>1, <3>2
  <2> QED
    BY <1>3, <2>1 DEF RoutesTo
<1>12. Part(E2, E, g)
  BY <1>1, <1>3, <1>6, <1>7, <1>8, <1>9, <1>10, <1>11 DEF Part
<1> QED
  BY <1>1, <1>2, <1>3, <1>4, <1>12

\* Without is what undoes WithChild.
LEMMA WithChildUndone ==
    ASSUME NEW E \in Seq(ChildEntry), Len(E) >= 1, NEW sep \in Key, NEW child \in PageId
    PROVE  \E i \in 2..Len(E) + 1 : /\ Without(E, WithChild(E, sep, child), i)
                                    /\ Len(WithChild(E, sep, child)) = Len(E) + 1
<1>1. PICK n \in Nat : n = Len(E) /\ n >= 1
  BY LenProperties
<1>2. PICK S : S = {i \in 2..Len(E) : E[i].key > sep}
  OBVIOUS
<1>3. PICK at : at = IF S = {} THEN Len(E) + 1 ELSE Min(S)
  OBVIOUS
<1>4. at \in 2..n + 1
  <2>1. \A i \in S : i \in 2..n
    BY <1>1, <1>2
  <2>2. CASE S = {}
    BY <1>1, <1>3, <2>2
  <2>3. CASE S # {}
    <3>1. S \in SUBSET Nat
      BY <2>1
    <3>2. Min(S) \in S
      BY <2>3, <3>1, MinIs
    <3>3. Min(S) \in 2..n
      BY <2>1, <3>2
    <3> QED
      BY <1>3, <2>3, <3>3
  <2> QED
    BY <2>2, <2>3
<1>5. PICK e : e = InternalEntry(sep, child)
  OBVIOUS
<1>6. e \in ChildEntry
  BY <1>5 DEF InternalEntry, ChildEntry
<1>7. PICK W : W = InsertAt(E, at, e)
  OBVIOUS
<1>8. at \in 1..Len(E) + 1
  BY <1>1, <1>4
<1>9. /\ W \in Seq(ChildEntry) /\ Len(W) = n + 1
      /\ \A j \in 1..n + 1 : W[j] = IF j < at THEN E[j] ELSE IF j = at THEN e ELSE E[j - 1]
  <2>1. /\ W \in Seq(ChildEntry) /\ Len(W) = Len(E) + 1
        /\ \A j \in 1..Len(E) + 1 : W[j] = IF j < at THEN E[j] ELSE IF j = at THEN e ELSE E[j - 1]
    BY <1>6, <1>7, <1>8, InsertAtFacts
  <2> QED
    BY <1>1, <2>1
<1>10. \A j \in 1..n : E[j] = IF j < at THEN W[j] ELSE W[j + 1]
  <2> TAKE j \in 1..n
  <2>1. CASE j < at
    BY <1>1, <1>9, <2>1
  <2>2. CASE ~(j < at)
    <3>1. j + 1 \in 1..n + 1 /\ ~(j + 1 < at) /\ j + 1 # at /\ (j + 1) - 1 = j
      BY <1>1, <1>4, <2>2
    <3> QED
      BY <1>9, <2>2, <3>1
  <2> QED
    BY <2>1, <2>2
<1>11. (n + 1) - 1 = n
  BY <1>1
<1>12. Without(E, W, at)
  BY <1>1, <1>9, <1>10, <1>11 DEF Without
<1>13. WithChild(E, sep, child) = W
  BY <1>2, <1>3, <1>5, <1>7 DEF WithChild
<1> QED
  BY <1>1, <1>4, <1>9, <1>12, <1>13

\* The two halves of a full page.
LEMMA SplitAroundParts ==
    ASSUME NEW W, Separated(W), Len(W) > 2
    PROVE  \E m \in Nat :
              /\ m \in 1..Len(W) /\ m + 1 \in 2..Len(W)
              /\ SplitAround(W).promoted = W[m + 1].key
              /\ Part(SplitAround(W).left, W, Moved(m, 0)) /\ Len(SplitAround(W).left) = m
              /\ Part(SplitAround(W).right, W, Moved(Len(W) - m, m))
              /\ Len(SplitAround(W).right) = Len(W) - m
<1>1. PICK n \in Nat : n = Len(W) /\ n > 2
  BY LenProperties DEF Separated
<1>2. PICK S : S = {Len(W) \div 2, 1}
  OBVIOUS
<1>3. PICK mid \in S : mid = Max(S)
  <2>1. S \in SUBSET Nat /\ S # {} /\ \A x \in S : x <= n
    BY <1>1, <1>2
  <2> QED
    BY <2>1, MaxIs
<1>4. mid \in Nat /\ mid \in 1..n /\ mid + 1 \in 1..n /\ mid + 1 \in 2..n
  BY <1>1, <1>2
<1>5. PICK left, rest, right : /\ left = SubSeq(W, 1, mid)
                               /\ rest = SubSeq(W, mid + 2, Len(W))
                               /\ right = <<Leftmost(W[mid + 1].child)>> \o rest
  OBVIOUS
<1>6. Part(left, W, Moved(mid, 0)) /\ Len(left) = mid
  BY <1>1, <1>4, <1>5, PrefixPart
<1>7. Behind(right, W, mid)
  BY <1>1, <1>4, <1>5, LeftmostIsBehind
<1>8. Part(right, W, Moved(Len(W) - mid, mid)) /\ Len(right) = Len(W) - mid
  BY <1>1, <1>4, <1>7, BehindPart
<1>9. SplitAround(W) = [left |-> left, promoted |-> W[mid + 1].key, right |-> right]
  BY <1>2, <1>3, <1>5 DEF SplitAround
<1>10. /\ SplitAround(W).left = left /\ SplitAround(W).right = right
       /\ SplitAround(W).promoted = W[mid + 1].key
  BY <1>9
<1>11. mid \in 1..Len(W) /\ mid + 1 \in 2..Len(W)
  BY <1>1, <1>4
<1> QED
  BY <1>4, <1>6, <1>8, <1>10, <1>11

\* A page without one of its children.
LEMMA WithoutChildPart ==
    ASSUME NEW E, Separated(E), Len(E) # 1, NEW i \in 1..Len(E)
    PROVE  \E g : /\ Part(WithoutChild(E, i), E, g)
                  /\ \A j \in 1..Len(E) : j # i => \E x \in 1..Len(WithoutChild(E, i)) : g[x] = j
<1>1. PICK n \in Nat : n = Len(E) /\ n >= 2 /\ i \in 1..n /\ E \in Seq(ChildEntry)
  <2>1. PICK n \in Nat : n = Len(E) /\ n >= 1 /\ n # 1 /\ E \in Seq(ChildEntry)
    BY LenProperties DEF Separated
  <2>2. n >= 2 /\ i \in 1..n
    BY <2>1
  <2> QED
    BY <2>1, <2>2
<1>2. CASE i = 1
  <2>1. PICK rest, R : rest = SubSeq(E, 1 + 2, Len(E)) /\ R = <<Leftmost(E[1 + 1].child)>> \o rest
    OBVIOUS
  <2>2. 1 \in Nat /\ 1 + 1 \in 1..Len(E) /\ 1 + 1 = 2 /\ 1 + 2 = 3
    BY <1>1
  <2>3. Behind(R, E, 1)
    BY <2>1, <2>2, LeftmostIsBehind
  <2>4. Part(R, E, Moved(Len(E) - 1, 1)) /\ Len(R) = Len(E) - 1
    BY <2>2, <2>3, BehindPart
  <2>5. WithoutChild(E, i) = R
    BY <1>2, <2>1, <2>2 DEF WithoutChild
  <2>6. PICK g : g = Moved(Len(E) - 1, 1)
    OBVIOUS
  <2>7. ASSUME NEW j \in 1..Len(E), j # i PROVE \E x \in 1..Len(R) : g[x] = j
    <3>1. j - 1 \in 1..n - 1 /\ 1 + (j - 1) = j
      BY <1>1, <1>2, <2>7
    <3>2. g[j - 1] = j
      BY <1>1, <2>6, <3>1 DEF Moved
    <3> QED
      BY <1>1, <2>4, <3>1, <3>2
  <2> QED
    BY <2>4, <2>5, <2>6, <2>7
<1>3. CASE i # 1
  <2>1. PICK R : R = RemoveAt(E, i)
    OBVIOUS
  <2>2. /\ R \in Seq(ChildEntry) /\ Len(R) = n - 1
        /\ \A j \in 1..(n - 1) : R[j] = IF j < i THEN E[j] ELSE E[j + 1]
    BY <1>1, <2>1, RemoveAtFacts
  <2>3. i \in 2..Len(E) /\ Without(R, E, i)
    BY <1>1, <1>3, <2>2 DEF Without
  <2>4. Part(R, E, Skipping(Len(E) - 1, i))
    BY <2>3, WithoutPart
  <2>5. WithoutChild(E, i) = R
    BY <1>3, <2>1 DEF WithoutChild
  <2>6. PICK g : g = Skipping(Len(E) - 1, i)
    OBVIOUS
  <2>7. ASSUME NEW j \in 1..Len(E), j # i PROVE \E x \in 1..Len(R) : g[x] = j
    <3>1. CASE j < i
      <4>1. j \in 1..n - 1
        BY <1>1, <3>1
      <4>2. g[j] = j
        BY <1>1, <2>6, <3>1, <4>1 DEF Skipping
      <4> QED
        BY <2>2, <4>1, <4>2
    <3>2. CASE j > i
      <4>1. j - 1 \in 1..n - 1 /\ ~(j - 1 < i) /\ (j - 1) + 1 = j
        BY <1>1, <3>2
      <4>2. g[j - 1] = j
        BY <1>1, <2>6, <4>1 DEF Skipping
      <4> QED
        BY <2>2, <4>1, <4>2
    <3> QED
      BY <1>1, <2>7, <3>1, <3>2
  <2> QED
    BY <2>4, <2>5, <2>6, <2>7
<1> QED
  BY <1>2, <1>3

-----------------------------------------------------------------------------
(* The entries of a leaf are found by their keys.                          *)

\* The keys of a leaf are in order.
Sorted(E) ==
    E \in Seq(LeafEntry) /\ \A i, j \in 1..Len(E) : i < j => E[i].key < E[j].key

LEMMA SortedFacts ==
    ASSUME NEW E, Sorted(E)
    PROVE  /\ \E n \in Nat : n = Len(E) /\ DOMAIN E = 1..n
           /\ \A i \in 1..Len(E) : E[i].key \in Key /\ E[i].key \in Int /\ E[i].value \in Val
           /\ \A i, j \in 1..Len(E) : E[i].key = E[j].key => i = j
<1>1. PICK n \in Nat : n = Len(E) /\ DOMAIN E = 1..n
  BY LenProperties DEF Sorted
<1>2. \A i \in 1..n : E[i] \in LeafEntry
  BY <1>1, ElementOfSeq DEF Sorted
<1>3. \A i \in 1..n : E[i].key \in Key /\ E[i].value \in Val
  BY <1>2 DEF LeafEntry
<1>4. \A i \in 1..n : E[i].key \in Int
  BY <1>3, KeysAreInts
<1>5. \A i, j \in 1..n : E[i].key = E[j].key => i = j
  <2> SUFFICES ASSUME NEW i \in 1..n, NEW j \in 1..n, i < j PROVE E[i].key # E[j].key
    BY <1>1
  <2> QED
    BY <1>1, <1>4 DEF Sorted
<1> QED
  BY <1>1, <1>3, <1>4, <1>5

\* Position is behind the keys below k.
LEMMA PositionIs ==
    ASSUME NEW E, Sorted(E), NEW k \in Key
    PROVE  /\ Position(E, k) \in 1..Len(E) + 1
           /\ \A i \in 1..Len(E) : E[i].key < k <=> i < Position(E, k)
<1>1. PICK n \in Nat : n = Len(E) /\ DOMAIN E = 1..n
  BY SortedFacts
<1>2. PICK S : S = {0} \cup {i \in DOMAIN E : E[i].key < k}
  OBVIOUS
<1>3. 0 \in S /\ \A x \in S : x = 0 \/ x \in 1..n
  BY <1>1, <1>2, Zenon
<1>4. S \in SUBSET Nat /\ S # {} /\ \A x \in S : x <= n
  BY <1>1, <1>3
<1>5. PICK m \in S : m = Max(S) /\ \A x \in S : x <= m
  BY <1>4, MaxIs
<1>6. m \in 0..n
  BY <1>3
<1>7. Position(E, k) = 1 + m
  BY <1>2, <1>5 DEF Position
<1>8. ASSUME NEW i \in 1..n, E[i].key < k PROVE i <= m
  BY <1>1, <1>2, <1>5, <1>8
<1>9. ASSUME NEW i \in 1..n, i <= m PROVE E[i].key < k
  <2>1. m # 0 /\ m \in 1..n
    BY <1>6, <1>9
  <2>2. E[m].key < k
    BY <1>2, <1>5, <2>1
  <2>3. i = m \/ E[i].key < E[m].key
    BY <1>1, <1>9, <2>1 DEF Sorted
  <2>4. E[i].key \in Int /\ E[m].key \in Int /\ k \in Int
    BY <1>1, <2>1, SortedFacts, KeysAreInts
  <2> QED
    BY <2>2, <2>3, <2>4
<1>10. \A i \in 1..n : i < 1 + m <=> i <= m
  BY <1>6
<1> QED
  BY <1>1, <1>6, <1>7, <1>8, <1>9, <1>10

\* Found is right.
LEMMA FoundIs ==
    ASSUME NEW E, Sorted(E), NEW k \in Key
    PROVE  /\ Found(E, k) => Position(E, k) \in 1..Len(E) /\ E[Position(E, k)].key = k
           /\ ~Found(E, k) => \A i \in 1..Len(E) : E[i].key # k
<1>1. PICK n \in Nat : n = Len(E) /\ DOMAIN E = 1..n
  BY SortedFacts
<1>2. PICK p : p = Position(E, k)
  OBVIOUS
<1>3. p \in 1..n + 1 /\ \A i \in 1..n : E[i].key < k <=> i < p
  BY <1>1, <1>2, PositionIs
<1>4. Found(E, k) <=> p \in 1..n /\ E[p].key = k
  BY <1>1, <1>2 DEF Found
<1>5. ASSUME ~Found(E, k), NEW i \in 1..n, E[i].key = k PROVE FALSE
  <2>1. k \in Int /\ ~(E[i].key < k)
    BY <1>5, KeysAreInts
  <2>2. ~(i < p)
    BY <1>3, <2>1
  <2>3. p \in 1..n
    BY <1>3, <2>2
  <2>4. p # i
    BY <1>4, <1>5, <2>3
  <2>5. p < i
    BY <1>3, <2>2, <2>4
  <2>6. E[p].key < E[i].key
    BY <1>1, <2>3, <2>5 DEF Sorted
  <2>7. p < p
    BY <1>3, <1>5, <2>3, <2>6
  <2> QED
    BY <1>3, <2>7
<1> QED
  BY <1>1, <1>2, <1>4, <1>5

\* U is E with k set to v.
HasSet(U, E, k, v) ==
    /\ Sorted(U)
    /\ \E i \in 1..Len(U) : U[i] = Entry(k, v)
    /\ \A i \in 1..Len(U) : U[i] = Entry(k, v) \/ (U[i].key # k /\ \E j \in 1..Len(E) : U[i] = E[j])
    /\ \A j \in 1..Len(E) : E[j].key # k => \E i \in 1..Len(U) : U[i] = E[j]

LEMMA UpsertSets ==
    ASSUME NEW E, Sorted(E), NEW k \in Key, NEW v \in Val
    PROVE  HasSet(Upsert(E, k, v), E, k, v)
<1>1. PICK n \in Nat : n = Len(E) /\ DOMAIN E = 1..n
  BY SortedFacts
<1>2. PICK p : p = Position(E, k)
  OBVIOUS
<1>3. p \in 1..n + 1 /\ \A i \in 1..n : E[i].key < k <=> i < p
  BY <1>1, <1>2, PositionIs
<1>4. PICK e \in LeafEntry : e = Entry(k, v) /\ e.key = k
  <2>1. Entry(k, v) \in LeafEntry /\ Entry(k, v).key = k
    BY DEF Entry, LeafEntry
  <2> QED
    BY <2>1
<1>5. E \in Seq(LeafEntry) /\ (\A i \in 1..n : E[i].key \in Int) /\ k \in Int
  BY <1>1, SortedFacts, KeysAreInts DEF Sorted
<1>6. \A i, j \in 1..n : (i < j => E[i].key < E[j].key) /\ (E[i].key = E[j].key => i = j)
  BY <1>1, SortedFacts DEF Sorted
<1>7. CASE Found(E, k)
  <2>1. p \in 1..n /\ E[p].key = k
    BY <1>1, <1>2, <1>7, FoundIs
  <2>2. PICK U : U = [E EXCEPT ![p] = e]
    OBVIOUS
  <2>3. U \in Seq(LeafEntry) /\ Len(U) = n
    BY <1>1, <1>5, <2>1, <2>2, ExceptSeq
  <2>4. U[p] = e /\ \A i \in 1..n : i # p => U[i] = E[i]
    BY <1>1, <2>1, <2>2
  <2>5. \A i \in 1..n : U[i].key = E[i].key
    BY <1>4, <2>1, <2>4
  <2>6. Sorted(U)
    BY <1>6, <2>3, <2>5 DEF Sorted
  <2>7. \A i \in 1..n : i # p => E[i].key # k
    BY <1>6, <2>1
  <2>8. HasSet(U, E, k, v)
    BY <1>1, <1>4, <2>1, <2>3, <2>4, <2>6, <2>7 DEF HasSet
  <2>9. Upsert(E, k, v) = U
    BY <1>2, <1>4, <1>7, <2>2 DEF Upsert
  <2> QED
    BY <2>8, <2>9
<1>8. CASE ~Found(E, k)
  <2>1. \A i \in 1..n : E[i].key # k
    BY <1>1, <1>8, FoundIs
  <2>2. PICK U : U = InsertAt(E, p, e)
    OBVIOUS
  <2>3. /\ U \in Seq(LeafEntry) /\ Len(U) = n + 1
        /\ \A j \in 1..n + 1 : U[j] = IF j < p THEN E[j] ELSE IF j = p THEN e ELSE E[j - 1]
    BY <1>1, <1>3, <1>5, <2>2, InsertAtFacts
  <2>4. \A j \in 1..n + 1 : j < p => j \in 1..n /\ U[j] = E[j]
    BY <1>3, <2>3
  <2>5. U[p] = e
    BY <1>3, <2>3
  <2>6. \A j \in 1..n + 1 : j > p => j - 1 \in 1..n /\ j - 1 >= p /\ U[j] = E[j - 1]
    BY <1>3, <2>3
  <2>7. \A i \in 1..n : i >= p => k < E[i].key
    <3> TAKE i \in 1..n
    <3>1. i >= p => ~(E[i].key < k)
      BY <1>3
    <3> QED
      BY <1>5, <2>1, <3>1
  <2>8. \A i, j \in 1..n + 1 : i < j => U[i].key < U[j].key
    <3> SUFFICES ASSUME NEW i \in 1..n + 1, NEW j \in 1..n + 1, i < j PROVE U[i].key < U[j].key
      OBVIOUS
    <3>1. CASE j < p
      <4>1. i < p
        BY <1>3, <3>1
      <4> QED
        BY <1>6, <2>4, <3>1, <4>1
    <3>2. CASE j = p
      <4>1. i \in 1..n /\ U[i] = E[i] /\ E[i].key < k
        BY <1>3, <2>4, <3>2
      <4> QED
        BY <1>4, <2>5, <3>2, <4>1
    <3>3. CASE j > p
      <4>1. j - 1 \in 1..n /\ U[j] = E[j - 1] /\ k < E[j - 1].key
        BY <2>6, <2>7, <3>3
      <4>2. CASE i < p
        <5>1. i \in 1..n /\ U[i] = E[i] /\ E[i].key < k
          BY <1>3, <2>4, <4>2
        <5> QED
          BY <1>5, <4>1, <5>1
      <4>3. CASE i = p
        BY <1>4, <2>5, <4>1, <4>3
      <4>4. CASE i > p
        <5>1. i - 1 \in 1..n /\ U[i] = E[i - 1] /\ i - 1 < j - 1
          BY <2>6, <4>4
        <5> QED
          BY <1>6, <4>1, <5>1
      <4> QED
        BY <1>3, <4>2, <4>3, <4>4
    <3> QED
      BY <1>3, <3>1, <3>2, <3>3
  <2>9. Sorted(U)
    BY <2>3, <2>8 DEF Sorted
  <2>10. ASSUME NEW i \in 1..n + 1 PROVE U[i] = e \/ (U[i].key # k /\ \E j \in 1..n : U[i] = E[j])
    <3>1. i < p \/ i = p \/ i > p
      BY <1>3
    <3> QED
      BY <2>1, <2>4, <2>5, <2>6, <3>1
  <2>11. ASSUME NEW j \in 1..n PROVE \E i \in 1..n + 1 : U[i] = E[j]
    <3>1. CASE j < p
      BY <2>4, <3>1
    <3>2. CASE ~(j < p)
      <4>1. j + 1 \in 1..n + 1 /\ j + 1 > p /\ (j + 1) - 1 = j
        BY <1>3, <3>2
      <4> QED
        BY <2>6, <4>1
    <3> QED
      BY <3>1, <3>2
  <2>12. HasSet(U, E, k, v)
    <3>1. \E i \in 1..n + 1 : U[i] = e
      BY <1>3, <2>5
    <3> QED
      BY <1>1, <1>4, <2>3, <2>9, <2>10, <2>11, <3>1 DEF HasSet
  <2>13. Upsert(E, k, v) = U
    BY <1>2, <1>4, <1>8, <2>2 DEF Upsert
  <2> QED
    BY <2>12, <2>13
<1> QED
  BY <1>7, <1>8

LEMMA RemoveDrops ==
    ASSUME NEW E, Sorted(E), NEW k \in Key, Found(E, k), NEW R, R = RemoveAt(E, Position(E, k))
    PROVE  /\ Sorted(R)
           /\ \A i \in 1..Len(R) : R[i].key # k /\ \E j \in 1..Len(E) : R[i] = E[j]
           /\ \A j \in 1..Len(E) : E[j].key # k => \E i \in 1..Len(R) : R[i] = E[j]
<1>1. PICK n \in Nat : n = Len(E) /\ DOMAIN E = 1..n
  BY SortedFacts
<1>2. PICK p : p = Position(E, k)
  OBVIOUS
<1>3. p \in 1..n /\ E[p].key = k
  BY <1>1, <1>2, FoundIs
<1>4. E \in Seq(LeafEntry)
  BY DEF Sorted
<1>5. \A i, j \in 1..n : (i < j => E[i].key < E[j].key) /\ (E[i].key = E[j].key => i = j)
  BY <1>1, SortedFacts DEF Sorted
<1>6. /\ R \in Seq(LeafEntry) /\ Len(R) = n - 1
      /\ \A j \in 1..(n - 1) : R[j] = IF j < p THEN E[j] ELSE E[j + 1]
  BY <1>1, <1>2, <1>3, <1>4, RemoveAtFacts
<1>7. \A j \in 1..(n - 1) : \E i \in 1..n : R[j] = E[i] /\ i # p
  <2> TAKE j \in 1..(n - 1)
  <2>1. CASE j < p
    BY <1>1, <1>6, <2>1
  <2>2. CASE ~(j < p)
    <3>1. j + 1 \in 1..n /\ j + 1 # p
      BY <1>1, <1>3, <2>2
    <3> QED
      BY <1>6, <2>2, <3>1
  <2> QED
    BY <2>1, <2>2
<1>8. ASSUME NEW i \in 1..(n - 1), NEW j \in 1..(n - 1), i < j PROVE R[i].key < R[j].key
  <2>1. PICK a, b : /\ a = (IF i < p THEN i ELSE i + 1) /\ b = (IF j < p THEN j ELSE j + 1)
    OBVIOUS
  <2>2. a \in 1..n /\ b \in 1..n /\ a < b
    BY <1>1, <1>3, <1>8, <2>1
  <2>3. R[i] = E[a] /\ R[j] = E[b]
    BY <1>6, <2>1
  <2> QED
    BY <1>5, <2>2, <2>3
<1>9. Sorted(R)
  BY <1>6, <1>8 DEF Sorted
<1>10. ASSUME NEW j \in 1..n, E[j].key # k PROVE \E i \in 1..(n - 1) : R[i] = E[j]
  <2>1. j # p
    BY <1>3, <1>10
  <2>2. CASE j < p
    <3>1. j \in 1..(n - 1)
      BY <1>1, <1>3, <2>2
    <3> QED
      BY <1>6, <2>2, <3>1
  <2>3. CASE j > p
    <3>1. j - 1 \in 1..(n - 1) /\ ~(j - 1 < p) /\ (j - 1) + 1 = j
      BY <1>1, <1>3, <2>3
    <3> QED
      BY <1>6, <3>1
  <2> QED
    BY <1>3, <2>1, <2>2, <2>3
<1>11. \A i \in 1..(n - 1) : R[i].key # k /\ \E j \in 1..n : R[i] = E[j]
  BY <1>3, <1>5, <1>7
<1> QED
  BY <1>1, <1>6, <1>9, <1>10, <1>11

-----------------------------------------------------------------------------
(* What a leaf holds for the keys it covers.                               *)

\* The entries E of a leaf that covers the keys of C: all that d has for them,
\* but for lost keys, which may be missing.
HoldsAt(E, C, d, lost) ==
    /\ Sorted(E)
    /\ \A i \in 1..Len(E) : E[i].key \in C /\ E[i].value = d[E[i].key]
    /\ \A k \in C : k \in lost \/ \E i \in 1..Len(E) : E[i].key = k

LEMMA HoldsSet ==
    ASSUME NEW E, NEW C \in SUBSET Key, NEW d, NEW lost, HoldsAt(E, C, d, lost),
           NEW k \in C, NEW v \in Val, NEW d2, NEW lost2,
           d2[k] = v, \A x \in Key : x # k => d2[x] = d[x], lost \ {k} \subseteq lost2
    PROVE  HoldsAt(Upsert(E, k, v), C, d2, lost2)
<1>1. PICK U : U = Upsert(E, k, v)
  OBVIOUS
<1>2. PICK e : e = Entry(k, v)
  OBVIOUS
<1>3. e.key = k /\ e.value = v
  BY <1>2 DEF Entry
<1>4. Sorted(E)
  BY DEF HoldsAt
<1>5. k \in Key
  OBVIOUS
<1>6. HasSet(U, E, k, v)
  BY <1>1, <1>4, <1>5, UpsertSets
<1>7. ASSUME NEW i \in 1..Len(U) PROVE U[i].key \in C /\ U[i].value = d2[U[i].key]
  <2>1. CASE U[i] = e
    BY <1>3, <2>1
  <2>2. CASE U[i] # e
    <3>1. U[i].key # k /\ \E j \in 1..Len(E) : U[i] = E[j]
      BY <1>2, <1>6, <2>2 DEF HasSet
    <3>2. U[i].key \in C /\ U[i].value = d[U[i].key]
      BY <3>1 DEF HoldsAt
    <3>3. d2[U[i].key] = d[U[i].key]
      BY <3>1, <3>2
    <3> QED
      BY <3>2, <3>3
  <2> QED
    BY <2>1, <2>2
<1>8. ASSUME NEW x \in C, x \notin lost2 PROVE \E i \in 1..Len(U) : U[i].key = x
  <2>1. CASE x = k
    BY <1>2, <1>3, <1>6, <2>1 DEF HasSet
  <2>2. CASE x # k
    <3>1. PICK j \in 1..Len(E) : E[j].key = x
      BY <1>8, <2>2 DEF HoldsAt
    <3>2. PICK i \in 1..Len(U) : U[i] = E[j]
      BY <1>6, <2>2, <3>1 DEF HasSet
    <3> QED
      BY <3>1, <3>2
  <2> QED
    BY <2>1, <2>2
<1>9. Sorted(U)
  BY <1>6 DEF HasSet
<1>10. HoldsAt(U, C, d2, lost2)
  BY <1>7, <1>8, <1>9 DEF HoldsAt
<1> QED
  BY <1>1, <1>10

LEMMA HoldsRemoved ==
    ASSUME NEW E, NEW C \in SUBSET Key, NEW d, NEW lost, HoldsAt(E, C, d, lost),
           NEW k \in Key, Found(E, k), NEW d2, NEW lost2,
           \A x \in Key : x # k => d2[x] = d[x], lost \cup {k} \subseteq lost2
    PROVE  HoldsAt(RemoveAt(E, Position(E, k)), C, d2, lost2)
<1>1. PICK R : R = RemoveAt(E, Position(E, k))
  OBVIOUS
<1>2. Sorted(E)
  BY DEF HoldsAt
<1>3. /\ Sorted(R)
      /\ \A i \in 1..Len(R) : R[i].key # k /\ \E j \in 1..Len(E) : R[i] = E[j]
      /\ \A j \in 1..Len(E) : E[j].key # k => \E i \in 1..Len(R) : R[i] = E[j]
  BY <1>1, <1>2, RemoveDrops
<1>4. ASSUME NEW i \in 1..Len(R) PROVE R[i].key \in C /\ R[i].value = d2[R[i].key]
  <2>1. PICK j \in 1..Len(E) : R[i] = E[j] /\ R[i].key # k
    BY <1>3
  <2>2. E[j].key \in C /\ E[j].value = d[E[j].key]
    BY DEF HoldsAt
  <2>3. E[j].key \in Key /\ d2[E[j].key] = d[E[j].key]
    BY <2>1, <2>2
  <2> QED
    BY <2>1, <2>2, <2>3
<1>5. ASSUME NEW x \in C, x \notin lost2 PROVE \E i \in 1..Len(R) : R[i].key = x
  <2>1. x # k /\ x \notin lost
    BY <1>5
  <2>2. PICK j \in 1..Len(E) : E[j].key = x
    BY <2>1 DEF HoldsAt
  <2>3. PICK i \in 1..Len(R) : R[i] = E[j]
    BY <1>3, <2>1, <2>2
  <2> QED
    BY <2>2, <2>3
<1>6. HoldsAt(R, C, d2, lost2)
  BY <1>3, <1>4, <1>5 DEF HoldsAt
<1> QED
  BY <1>1, <1>6

Below(C, sep) == {x \in C : x < sep}
From(C, sep) == {x \in C : sep <= x}

\* The halves of a leaf hold what is below and from the right one's first key.
LEMMA HoldsHalves ==
    ASSUME NEW E, NEW C \in SUBSET Key, NEW d, NEW lost, HoldsAt(E, C, d, lost), E # <<>>,
           NEW sep, sep = Halves(E).right[1].key
    PROVE  /\ HoldsAt(Halves(E).left, Below(C, sep), d, lost)
           /\ HoldsAt(Halves(E).right, From(C, sep), d, lost)
           /\ sep \in C
           /\ Below(C, sep) # {} \/ Halves(E).right = E
<1>0. Sorted(E) /\ E \in Seq(LeafEntry)
  BY DEF HoldsAt, Sorted
<1>1. PICK n \in Nat : n = Len(E) /\ DOMAIN E = 1..n /\ n >= 1
  <2>1. PICK n \in Nat : n = Len(E) /\ DOMAIN E = 1..n
    BY <1>0, SortedFacts
  <2>2. n # 0
    BY <1>0, <2>1, EmptySeq
  <2>3. n >= 1
    BY <2>2
  <2> QED
    BY <2>1, <2>3
<1>2. PICK mid \in Nat : mid = n \div 2
  BY <1>1
<1>3. mid \in 0..n /\ mid + 1 \in 1..n /\ mid + 1 \in Nat /\ mid + 1 >= 1 /\ n \in 0..n
  BY <1>1, <1>2
<1>4. PICK left, right : left = SubSeq(E, 1, mid) /\ right = SubSeq(E, mid + 1, Len(E))
  OBVIOUS
<1>5. left \in Seq(LeafEntry) /\ Len(left) = mid /\ \A i \in 1..mid : left[i] = E[i]
  BY <1>0, <1>1, <1>3, <1>4, PrefixFacts
<1>6. PICK l \in Nat : l = n - mid /\ l >= 1
  <2>1. n - mid \in Nat /\ n - mid >= 1
    BY <1>1, <1>3
  <2> QED
    BY <2>1
<1>7. right \in Seq(LeafEntry) /\ Len(right) = l /\ \A i \in 1..l : right[i] = E[mid + i]
  <2>1. /\ right \in Seq(LeafEntry) /\ Len(right) = (IF mid + 1 <= n THEN n - (mid + 1) + 1 ELSE 0)
        /\ \A i \in 1..(n - (mid + 1) + 1) : right[i] = E[mid + 1 + i - 1]
    BY <1>0, <1>1, <1>3, <1>4, SliceFacts
  <2>2. mid + 1 <= n /\ n - (mid + 1) + 1 = l /\ \A i \in 1..l : mid + 1 + i - 1 = mid + i
    BY <1>1, <1>3, <1>6
  <2> QED
    BY <2>1, <2>2
<1>8. Halves(E) = [left |-> left, right |-> right]
  BY <1>1, <1>2, <1>4 DEF Halves
<1>9. Halves(E).left = left /\ Halves(E).right = right
  BY <1>8
<1>10. sep = E[mid + 1].key
  BY <1>6, <1>7, <1>9
<1>11. \A i \in 1..n : E[i].key \in C /\ E[i].key \in Int /\ E[i].value = d[E[i].key]
  BY <1>0, <1>1, SortedFacts DEF HoldsAt
<1>12. \A i, j \in 1..n : i < j => E[i].key < E[j].key
  BY <1>0, <1>1 DEF Sorted
<1>13. \A i \in 1..n : E[i].key < sep <=> i <= mid
  <2> TAKE i \in 1..n
  <2>1. i < mid + 1 \/ i = mid + 1 \/ mid + 1 < i
    BY <1>3
  <2> QED
    BY <1>3, <1>10, <1>11, <1>12, <2>1
<1>14. sep \in C /\ sep \in Int
  BY <1>3, <1>10, <1>11
<1>15. \A x \in C : x \in Int
  BY KeysAreInts
<1>16. HoldsAt(left, Below(C, sep), d, lost)
  <2>1. \A i \in 1..mid : i \in 1..n
    BY <1>3
  <2>2. Sorted(left)
    BY <1>5, <1>12, <2>1 DEF Sorted
  <2>3. \A i \in 1..mid : left[i].key \in Below(C, sep) /\ left[i].value = d[left[i].key]
    BY <1>5, <1>11, <1>13, <2>1 DEF Below
  <2>4. ASSUME NEW x \in Below(C, sep), x \notin lost PROVE \E i \in 1..mid : left[i].key = x
    <3>1. PICK i \in 1..n : E[i].key = x
      BY <1>1, <2>4 DEF HoldsAt, Below
    <3>2. i <= mid
      BY <1>13, <3>1 DEF Below
    <3>3. i \in 1..mid
      BY <1>3, <3>2
    <3> QED
      BY <1>5, <3>1, <3>3
  <2> QED
    BY <1>5, <2>2, <2>3, <2>4 DEF HoldsAt
<1>17. HoldsAt(right, From(C, sep), d, lost)
  <2>1. \A i \in 1..l : mid + i \in 1..n /\ ~(mid + i <= mid)
    BY <1>3, <1>6
  <2>2. \A i, j \in 1..l : i < j => mid + i < mid + j
    BY <1>3
  <2>3. Sorted(right)
    BY <1>7, <1>12, <2>1, <2>2 DEF Sorted
  <2>4. ASSUME NEW i \in 1..l PROVE right[i].key \in From(C, sep) /\ right[i].value = d[right[i].key]
    <3>1. ~(E[mid + i].key < sep)
      BY <1>13, <2>1
    <3>2. sep <= E[mid + i].key
      BY <1>11, <1>14, <2>1, <3>1
    <3> QED
      BY <1>7, <1>11, <2>1, <3>2 DEF From
  <2>5. ASSUME NEW x \in From(C, sep), x \notin lost PROVE \E i \in 1..l : right[i].key = x
    <3>0. x \in C /\ sep <= x
      BY DEF From
    <3>1. PICK i \in 1..n : E[i].key = x
      BY <1>1, <2>5, <3>0 DEF HoldsAt
    <3>2. ~(i <= mid)
      BY <1>13, <1>14, <1>15, <3>0, <3>1
    <3>3. i - mid \in 1..l /\ mid + (i - mid) = i
      BY <1>3, <1>6, <3>2
    <3> QED
      BY <1>7, <3>1, <3>3
  <2> QED
    BY <1>7, <2>3, <2>4, <2>5 DEF HoldsAt
<1>18. Below(C, sep) # {} \/ right = E
  <2>1. CASE mid = 0
    <3>1. \A i \in 1..n : 0 + i = i
      OBVIOUS
    <3>2. l = n
      BY <1>1, <1>6, <2>1
    <3>3. Len(right) = Len(E) /\ \A i \in 1..Len(right) : right[i] = E[i]
      BY <1>1, <1>7, <2>1, <3>1, <3>2
    <3> QED
      BY <1>0, <1>7, <3>3, SeqEqual
  <2>2. CASE mid # 0
    <3>1. 1 \in 1..n /\ 1 <= mid
      BY <1>1, <1>3, <2>2
    <3> QED
      BY <1>11, <1>13, <3>1 DEF Below
  <2> QED
    BY <2>1, <2>2
<1> QED
  BY <1>9, <1>14, <1>16, <1>17, <1>18

\* With every key lost, a leaf may hold what part of its keys it likes.
LEMMA HoldsLess ==
    ASSUME NEW E, NEW C, NEW C2, NEW d, NEW lost, NEW lost2, HoldsAt(E, C, d, lost),
           C \subseteq C2, C2 \subseteq lost2
    PROVE  HoldsAt(E, C2, d, lost2)
BY DEF HoldsAt

-----------------------------------------------------------------------------
(* The pages of a tree, and the keys each covers.                          *)

\* The entries E of an internal page x whose keys are cover[x]: the separators
\* are among them, each child is x's and no other page's, and covers what E
\* routes to it, but for lost keys.
BranchAt(E, x, live, cover, place, top, lost) ==
    /\ Separated(E)
    /\ \A i \in 2..Len(E) : E[i].key \in cover[x]
    /\ \A i, j \in 1..Len(E) : E[i].child = E[j].child => i = j
    /\ \A i \in 1..Len(E) : E[i].child \in live \ top /\ place[E[i].child] = x
    /\ \A i \in 1..Len(E) : \A k \in cover[E[i].child] : k \in cover[x] /\ RoutesTo(E, k, i)
    /\ \A i \in 1..Len(E) : \A k \in cover[x] :
          RoutesTo(E, k, i) => k \in cover[E[i].child] \/ k \in lost

GoodPage(page, x, live, cover, place, top, d, lost) ==
    \/ IsInternal(page) /\ ~IsLeaf(page) /\ BranchAt(page.entries, x, live, cover, place, top, lost)
    \/ IsLeaf(page) /\ ~IsInternal(page) /\ HoldsAt(page.entries, cover[x], d, lost)

\* The live pages of a tree with the roots top.
Good(view, live, cover, place, top, d, lost) ==
    /\ live \subseteq PageId /\ top \subseteq live
    /\ cover \in [PageId -> SUBSET Key]
    /\ \A x \in live : cover[x] # {} \/ Key = {}
    /\ \A x \in live : GoodPage(view[x], x, live, cover, place, top, d, lost)
    /\ \A k \in Key : k \in lost \/ \E t \in top : k \in cover[t]

\* Part of the entries is good for a page that covers that part.
LEMMA BranchCut ==
    ASSUME NEW E, NEW x, NEW live, NEW cover, NEW place, NEW top, NEW lost,
           BranchAt(E, x, live, cover, place, top, lost), cover[x] \in SUBSET Key,
           NEW E2, NEW g, Part(E2, E, g),
           NEW x2, NEW live2, NEW cover2, NEW place2, NEW top2, NEW lost2,
           \A i \in 2..Len(E2) : E2[i].key \in cover2[x2],
           \A i \in 1..Len(E2) : /\ E2[i].child \in live2 \ top2 /\ place2[E2[i].child] = x2
                                 /\ cover2[E2[i].child] = cover[E2[i].child]
                                 /\ cover[E2[i].child] \subseteq cover2[x2],
           cover2[x2] \subseteq cover[x], lost \subseteq lost2,
           \A k \in cover2[x2], j \in 1..Len(E) :
              RoutesTo(E, k, j) => k \in lost2 \/ \E i \in 1..Len(E2) : g[i] = j
    PROVE  BranchAt(E2, x2, live2, cover2, place2, top2, lost2)
<1>1. Separated(E) /\ Separated(E2)
  BY DEF BranchAt, Part
<1>2. \A i \in 1..Len(E2) : g[i] \in 1..Len(E) /\ E2[i].child = E[g[i]].child
  BY DEF Part
<1>3. \A i, j \in 1..Len(E2) : E2[i].child = E2[j].child => i = j
  <2> TAKE i, j \in 1..Len(E2)
  <2>1. E2[i].child = E2[j].child => g[i] = g[j]
    BY <1>2 DEF BranchAt
  <2> QED
    BY <2>1 DEF Part
<1>4. ASSUME NEW i \in 1..Len(E2), NEW k \in cover2[E2[i].child]
      PROVE  k \in cover2[x2] /\ RoutesTo(E2, k, i)
  <2>1. k \in cover[E2[i].child] /\ k \in cover2[x2]
    BY <1>4
  <2>2. RoutesTo(E, k, g[i])
    BY <1>2, <2>1 DEF BranchAt
  <2>3. k \in Key
    BY <2>1
  <2> QED
    BY <2>1, <2>2, <2>3 DEF Part
<1>5. ASSUME NEW i \in 1..Len(E2), NEW k \in cover2[x2], RoutesTo(E2, k, i), k \notin lost2
      PROVE  k \in cover2[E2[i].child]
  <2>1. k \in cover[x] /\ k \in Key /\ k \notin lost
    BY <1>5
  <2>2. PICK j \in 1..Len(E) : RoutesTo(E, k, j)
    BY <1>1, <2>1, RouteIs
  <2>3. PICK m \in 1..Len(E2) : g[m] = j
    BY <1>5, <2>2
  <2>4. RoutesTo(E2, k, m)
    BY <2>1, <2>2, <2>3 DEF Part
  <2>5. m = i
    BY <1>1, <1>5, <2>4, RoutesOneWay
  <2>6. k \in cover[E[j].child]
    BY <2>1, <2>2 DEF BranchAt
  <2> QED
    BY <1>2, <2>3, <2>5, <2>6
<1> QED
  BY <1>1, <1>3, <1>4, <1>5 DEF BranchAt

\* A page none of whose keys and children is affected.
LEMMA PageKept ==
    ASSUME NEW page, NEW x, NEW live, NEW cover, NEW place, NEW top, NEW d, NEW lost,
           GoodPage(page, x, live, cover, place, top, d, lost),
           NEW live2, NEW cover2, NEW place2, NEW top2, NEW d2, NEW lost2,
           cover2[x] = cover[x], lost \subseteq lost2, \A k \in cover[x] : d2[k] = d[k],
           \A c \in live \ top : place[c] = x => /\ c \in live2 \ top2 /\ place2[c] = x
                                                 /\ cover2[c] = cover[c]
    PROVE  GoodPage(page, x, live2, cover2, place2, top2, d2, lost2)
<1>1. CASE IsInternal(page) /\ ~IsLeaf(page) /\ BranchAt(page.entries, x, live, cover, place, top, lost)
  <2>1. PICK E : E = page.entries
    OBVIOUS
  <2>2. BranchAt(E, x, live, cover, place, top, lost)
    BY <1>1, <2>1
  <2>3. \A i \in 1..Len(E) : /\ E[i].child \in live2 \ top2 /\ place2[E[i].child] = x
                             /\ cover2[E[i].child] = cover[E[i].child]
    BY <2>2 DEF BranchAt
  <2>4. BranchAt(E, x, live2, cover2, place2, top2, lost2)
    BY <2>2, <2>3 DEF BranchAt
  <2> QED
    BY <1>1, <2>1, <2>4 DEF GoodPage
<1>2. CASE IsLeaf(page) /\ ~IsInternal(page) /\ HoldsAt(page.entries, cover[x], d, lost)
  <2>1. HoldsAt(page.entries, cover2[x], d2, lost2)
    BY <1>2 DEF HoldsAt
  <2> QED
    BY <1>2, <2>1 DEF GoodPage
<1> QED
  BY <1>1, <1>2 DEF GoodPage

\* The entries of a parent that takes in the second half of its r-th child.
LEMMA TakesChild ==
    ASSUME NEW E, NEW P, NEW live, NEW cover, NEW place, NEW top, NEW lost,
           BranchAt(E, P, live, cover, place, top, lost), cover[P] \in SUBSET Key,
           NEW r \in 1..Len(E), NEW id, id = E[r].child, NEW sep \in cover[id],
           Below(cover[id], sep) # {},
           NEW new \in PageId \ live, new \notin top,
           NEW live2, NEW cover2, NEW place2, live2 = live \cup {new},
           cover2[id] = Below(cover[id], sep), cover2[new] = From(cover[id], sep),
           cover2[P] = cover[P], \A c \in live \ {id, P} : cover2[c] = cover[c],
           place2[new] = P, \A c \in live : place[c] = P => place2[c] = P,
           \A j \in 1..Len(E) : E[j].child # P
    PROVE  BranchAt(WithChild(E, sep, new), P, live2, cover2, place2, top, lost)
<1>1. Separated(E)
  BY DEF BranchAt
<1>2. PICK n \in Nat : n = Len(E) /\ n >= 1 /\ r \in 1..n
  BY <1>1, LenProperties DEF Separated
<1>3. sep \in cover[P] /\ RoutesTo(E, sep, r) /\ sep \in Key
  BY DEF BranchAt
<1>4. PICK e : e = InternalEntry(sep, new)
  OBVIOUS
<1>5. e \in ChildEntry /\ e.key = sep /\ e.child = new
  <2>1. sep \in Key /\ new \in PageId
    BY <1>3
  <2> QED
    BY <1>4, <2>1 DEF InternalEntry, ChildEntry
<1>6. PICK W : W = WithChild(E, sep, new)
  OBVIOUS
<1>7. W \in Seq(ChildEntry) /\ Inserted(W, E, r, e)
  BY <1>1, <1>3, <1>4, <1>6, WithChildInserts
<1>8. r = 1 \/ E[r].key < e.key
  <2> SUFFICES ASSUME r # 1 PROVE E[r].key < sep
    BY <1>5
  <2>1. PICK y \in Below(cover[id], sep) : TRUE
    OBVIOUS
  <2>2. y \in cover[id] /\ y < sep
    BY DEF Below
  <2>3. y \in cover[P] /\ RoutesTo(E, y, r)
    BY <2>2 DEF BranchAt
  <2>4. r \in 2..n /\ r <= r
    BY <1>2
  <2>5. E[r].key <= y
    BY <1>2, <2>3, <2>4 DEF RoutesTo
  <2>6. E[r].key \in Int /\ y \in Int /\ sep \in Int
    BY <1>1, <1>2, <1>3, <2>3, <2>4, KeysAreInts DEF Separated
  <2> QED
    BY <2>2, <2>5, <2>6
<1>9. /\ Separated(W) /\ Len(W) = n + 1
      /\ \A j \in 1..r : W[j] = E[j]
      /\ W[r + 1] = e
      /\ \A j \in r + 1..n : W[j + 1] = E[j]
      /\ \A k \in Key, j \in 1..n : k < sep =>
            (RoutesTo(E, k, j) <=> RoutesTo(W, k, j)) /\ (RoutesTo(E, k, j) => j <= r)
      /\ \A k \in Key, j \in 1..n : sep <= k =>
            (RoutesTo(E, k, j) <=> RoutesTo(W, k, j + 1)) /\ (RoutesTo(E, k, j) => r <= j)
  <2>1. e.key \in Key /\ RoutesTo(E, e.key, r)
    BY <1>3, <1>5
  <2>2. /\ Separated(W) /\ r \in 1..Len(E) /\ Len(W) = Len(E) + 1
        /\ \A j \in 1..r : W[j] = E[j]
        /\ W[r + 1] = e
        /\ \A j \in r + 1..Len(E) : W[j + 1] = E[j]
        /\ \A k \in Key, j \in 1..Len(E) : k < e.key =>
              (RoutesTo(E, k, j) <=> RoutesTo(W, k, j)) /\ (RoutesTo(E, k, j) => j <= r)
        /\ \A k \in Key, j \in 1..Len(E) : e.key <= k =>
              (RoutesTo(E, k, j) <=> RoutesTo(W, k, j + 1)) /\ (RoutesTo(E, k, j) => r <= j)
    BY ONLY <1>1, <1>5, <1>7, <1>8, <2>1, InsertedRoutes
  <2> QED
    BY ONLY <1>2, <1>5, <2>2
<1>10. ASSUME NEW j \in 1..n
       PROVE  E[j].child \in live \ top /\ place[E[j].child] = P /\ E[j].child # new /\ E[j].child # P
  BY <1>2 DEF BranchAt
<1>11. \A j \in 1..n : j # r => cover2[E[j].child] = cover[E[j].child]
  <2> TAKE j \in 1..n
  <2>1. j # r => E[j].child # id
    BY <1>2 DEF BranchAt
  <2> QED
    BY <1>10, <2>1
<1>12. \A j \in 1..n + 1 : j \in 1..r \/ j = r + 1 \/ (j - 1 \in r + 1..n /\ (j - 1) + 1 = j)
  BY <1>2
<1>13. \A j \in 1..r : j \in 1..n
  BY <1>2
<1>14. \A j \in r + 1..n : j \in 1..n /\ j # r /\ r < j
  BY <1>2
<1>15. \A j \in 2..n + 1 : W[j].key \in cover2[P]
  <2> TAKE j \in 2..n + 1
  <2>1. CASE j <= r
    <3>1. j \in 1..r /\ j \in 2..n
      BY <1>2, <2>1
    <3> QED
      BY <1>2, <1>9, <3>1 DEF BranchAt
  <2>2. CASE j = r + 1
    BY <1>3, <1>5, <1>9, <2>2
  <2>3. CASE j > r + 1
    <3>1. j - 1 \in r + 1..n /\ (j - 1) + 1 = j /\ j - 1 \in 2..n
      BY <1>2, <2>3
    <3>2. W[j] = E[j - 1]
      BY <1>9, <3>1
    <3> QED
      BY <1>2, <3>1, <3>2 DEF BranchAt
  <2> QED
    BY <1>2, <2>1, <2>2, <2>3
<1>16. \A i, j \in 1..n + 1 : W[i].child = W[j].child => i = j
  <2>1. \A i, j \in 1..n : E[i].child = E[j].child => i = j
    BY <1>2 DEF BranchAt
  <2>2. PICK at : at = [j \in 1..n + 1 |-> IF j <= r THEN j ELSE j - 1]
    OBVIOUS
  <2>3. \A j \in 1..n + 1 : j # r + 1 => at[j] \in 1..n /\ W[j] = E[at[j]]
    <3> SUFFICES ASSUME NEW j \in 1..n + 1, j # r + 1 PROVE at[j] \in 1..n /\ W[j] = E[at[j]]
      OBVIOUS
    <3>1. CASE j <= r
      <4>1. j \in 1..r /\ j \in 1..n
        BY <1>2, <3>1
      <4> QED
        BY <1>9, <2>2, <3>1, <4>1
    <3>2. CASE ~(j <= r)
      <4>1. j - 1 \in r + 1..n /\ (j - 1) + 1 = j /\ j - 1 \in 1..n
        BY <1>2, <3>2
      <4> QED
        BY <1>9, <2>2, <3>2, <4>1
    <3> QED
      BY <3>1, <3>2
  <2>4. \A i, j \in 1..n + 1 : i # r + 1 /\ j # r + 1 /\ at[i] = at[j] => i = j
    BY <1>2, <2>2
  <2>5. \A j \in 1..n + 1 : j # r + 1 => W[j].child # new
    BY <1>10, <2>3
  <2>6. W[r + 1].child = new
    BY <1>5, <1>9
  <2> SUFFICES ASSUME NEW i \in 1..n + 1, NEW j \in 1..n + 1, W[i].child = W[j].child PROVE i = j
    OBVIOUS
  <2>7. CASE i # r + 1 /\ j # r + 1
    <3>1. at[i] \in 1..n /\ at[j] \in 1..n /\ E[at[i]].child = E[at[j]].child
      BY <2>3, <2>7
    <3>2. at[i] = at[j]
      BY <2>1, <3>1
    <3> QED
      BY <2>4, <2>7, <3>2
  <2>8. CASE i = r + 1 \/ j = r + 1
    BY <2>5, <2>6, <2>8
  <2> QED
    BY <2>7, <2>8
<1>17. \A j \in 1..n + 1 : W[j].child \in live2 \ top /\ place2[W[j].child] = P
  <2> TAKE j \in 1..n + 1
  <2>1. CASE j = r + 1
    BY <1>5, <1>9, <2>1
  <2>2. CASE j # r + 1
    <3>1. PICK i \in 1..n : W[j] = E[i]
      <4>1. CASE j \in 1..r
        <5>1. W[j] = E[j] /\ j \in 1..n
          BY <1>9, <1>13, <4>1
        <5> QED
          BY <5>1
      <4>2. CASE j - 1 \in r + 1..n /\ (j - 1) + 1 = j
        <5>1. W[j] = E[j - 1] /\ j - 1 \in 1..n
          BY <1>9, <1>14, <4>2
        <5> QED
          BY <5>1
      <4> QED
        BY <1>12, <2>2, <4>1, <4>2
    <3> QED
      BY <1>10, <3>1
  <2> QED
    BY <2>1, <2>2
<1>18. ASSUME NEW j \in 1..n + 1, NEW k \in cover2[W[j].child] PROVE k \in cover2[P] /\ RoutesTo(W, k, j)
  <2>1. CASE j = r
    <3>1. W[j].child = id
      BY <1>9, <2>1
    <3>2. k \in cover[id] /\ k < sep
      BY <1>18, <3>1 DEF Below
    <3>3. k \in cover[P] /\ RoutesTo(E, k, r) /\ k \in Key
      BY <3>2 DEF BranchAt
    <3> QED
      BY <1>2, <1>9, <2>1, <3>2, <3>3
  <2>2. CASE j = r + 1
    <3>1. W[j].child = new
      BY <1>5, <1>9, <2>2
    <3>2. k \in cover[id] /\ sep <= k
      BY <1>18, <3>1 DEF From
    <3>3. k \in cover[P] /\ RoutesTo(E, k, r) /\ k \in Key
      BY <3>2 DEF BranchAt
    <3> QED
      BY <1>2, <1>9, <2>2, <3>2, <3>3
  <2>3. CASE j < r
    <3>1. j \in 1..r /\ j \in 1..n /\ j # r
      BY <1>2, <2>3
    <3>2. W[j] = E[j] /\ k \in cover[E[j].child]
      BY <1>9, <1>11, <1>18, <3>1
    <3>3. k \in cover[P] /\ RoutesTo(E, k, j) /\ k \in Key
      BY <1>2, <3>1, <3>2 DEF BranchAt
    <3>4. k < sep
      <4>1. ~(sep <= k)
        BY <1>2, <1>9, <2>3, <3>1, <3>3
      <4> QED
        BY <1>3, <3>3, <4>1, KeysAreInts
    <3> QED
      BY <1>9, <3>1, <3>3, <3>4
  <2>4. CASE j > r + 1
    <3>1. PICK i \in r + 1..n : i = j - 1 /\ i + 1 = j /\ i \in 1..n /\ i # r /\ ~(i <= r)
      <4>1. j - 1 \in r + 1..n /\ (j - 1) + 1 = j /\ j - 1 \in 1..n /\ j - 1 # r /\ ~(j - 1 <= r)
        BY <1>2, <2>4
      <4> QED
        BY <4>1
    <3>2. W[j] = E[i] /\ k \in cover[E[i].child]
      BY <1>9, <1>11, <1>18, <3>1
    <3>3. k \in cover[P] /\ RoutesTo(E, k, i) /\ k \in Key
      BY <1>2, <3>1, <3>2 DEF BranchAt
    <3>4. sep <= k
      <4>1. ~(k < sep)
        BY <1>9, <3>1, <3>3
      <4> QED
        BY <1>3, <3>3, <4>1, KeysAreInts
    <3> QED
      BY <1>9, <3>1, <3>3, <3>4
  <2> QED
    BY <1>2, <2>1, <2>2, <2>3, <2>4
<1>19. ASSUME NEW j \in 1..n + 1, NEW k \in cover2[P], RoutesTo(W, k, j), k \notin lost
       PROVE  k \in cover2[W[j].child]
  <2>1. k \in cover[P] /\ k \in Key /\ k \in Int /\ sep \in Int
    BY <1>3, KeysAreInts
  <2>2. PICK i \in 1..n : RoutesTo(E, k, i)
    BY <1>1, <1>2, <2>1, RouteIs
  <2>3. k \in cover[E[i].child]
    BY <1>2, <1>19, <2>1, <2>2 DEF BranchAt
  <2>4. CASE k < sep
    <3>1. RoutesTo(W, k, i) /\ i <= r
      BY <1>9, <2>1, <2>2, <2>4
    <3>2. j = i /\ W[j] = E[i]
      <4>1. j = i
        BY <1>9, <1>19, <3>1, RoutesOneWay
      <4>2. i \in 1..r
        BY <1>2, <3>1
      <4> QED
        BY <1>9, <4>1, <4>2
    <3>3. CASE i = r
      BY <2>3, <2>4, <3>2, <3>3 DEF Below
    <3>4. CASE i # r
      BY <1>11, <2>3, <3>2, <3>4
    <3> QED
      BY <3>3, <3>4
  <2>5. CASE sep <= k
    <3>1. RoutesTo(W, k, i + 1) /\ r <= i
      BY <1>9, <2>1, <2>2, <2>5
    <3>2. j = i + 1
      BY <1>9, <1>19, <3>1, RoutesOneWay
    <3>3. CASE i = r
      BY <1>5, <1>9, <2>3, <2>5, <3>2, <3>3 DEF From
    <3>4. CASE i # r
      <4>1. i \in r + 1..n
        BY <1>2, <3>1, <3>4
      <4> QED
        BY <1>9, <1>11, <2>3, <3>2, <3>4, <4>1
    <3> QED
      BY <3>3, <3>4
  <2> QED
    BY <2>1, <2>4, <2>5
<1>20. BranchAt(W, P, live2, cover2, place2, top, lost)
  BY <1>9, <1>15, <1>16, <1>17, <1>18, <1>19 DEF BranchAt
<1> QED
  BY <1>6, <1>20

LEMMA RouteChild ==
    ASSUME NEW E, NEW x, NEW live, NEW cover, NEW place, NEW top, NEW lost,
           BranchAt(E, x, live, cover, place, top, lost), NEW k \in Key
    PROVE  /\ Route(E, k) \in live \ top /\ place[Route(E, k)] = x
           /\ k \in cover[x] => k \in cover[Route(E, k)] \/ k \in lost
           /\ \A i \in 1..Len(E) : RoutesTo(E, k, i) <=> E[i].child = Route(E, k)
<1>1. Separated(E)
  BY DEF BranchAt
<1>2. PICK i \in 1..Len(E) : RoutesTo(E, k, i) /\ Route(E, k) = E[i].child
  BY <1>1, RouteIs
<1>3. \A j \in 1..Len(E) : RoutesTo(E, k, j) => j = i
  BY <1>1, <1>2, RoutesOneWay
<1>4. \A j \in 1..Len(E) : E[j].child = Route(E, k) => j = i
  BY <1>2 DEF BranchAt
<1> QED
  BY <1>2, <1>3, <1>4 DEF BranchAt

\* Fewer roots and more lost keys.
LEMMA GoodKept ==
    ASSUME NEW view, NEW live, NEW cover, NEW place, NEW top, NEW d, NEW lost,
           Good(view, live, cover, place, top, d, lost),
           NEW view2, NEW top2, NEW lost2, top2 \subseteq top, lost \subseteq lost2,
           \A x \in live : view2[x] = view[x],
           \A k \in Key : k \in lost2 \/ \E t \in top2 : k \in cover[t]
    PROVE  Good(view2, live, cover, place, top2, d, lost2)
<1>1. ASSUME NEW x \in live PROVE GoodPage(view2[x], x, live, cover, place, top2, d, lost2)
  <2>1. GoodPage(view[x], x, live, cover, place, top, d, lost)
    BY DEF Good
  <2>2. GoodPage(view[x], x, live, cover, place, top2, d, lost2)
    BY <2>1, PageKept
  <2> QED
    BY <2>2
<1> QED
  BY <1>1 DEF Good

\* One page is rewritten.
LEMMA PageReplaced ==
    ASSUME NEW view, NEW live, NEW cover, NEW place, NEW top, NEW d, NEW lost,
           Good(view, live, cover, place, top, d, lost),
           NEW view2, NEW lost2, lost \subseteq lost2, NEW a \in live,
           \A x \in live \ {a} : view2[x] = view[x],
           GoodPage(view2[a], a, live, cover, place, top, d, lost2)
    PROVE  Good(view2, live, cover, place, top, d, lost2)
<1>1. ASSUME NEW x \in live PROVE GoodPage(view2[x], x, live, cover, place, top, d, lost2)
  <2>1. CASE x = a
    BY <2>1
  <2>2. CASE x # a
    <3>1. GoodPage(view[x], x, live, cover, place, top, d, lost)
      BY DEF Good
    <3>2. GoodPage(view[x], x, live, cover, place, top, d, lost2)
      BY <3>1, PageKept
    <3> QED
      BY <2>2, <3>2
  <2> QED
    BY <2>1, <2>2
<1> QED
  BY <1>1 DEF Good

-----------------------------------------------------------------------------
(* A key moves to the leaf it is set in.                                   *)

\* The pages On a way are those of the routes of k from root to the leaf L.
Way(On, root, L, view, k) ==
    /\ root \in On /\ L \in On /\ IsLeaf(view[L])
    /\ \A x \in On : x = L \/ (IsInternal(view[x]) /\ Route(view[x].entries, k) \in On)
    /\ \A x \in On : x = root \/ \E y \in On : IsInternal(view[y]) /\ x = Route(view[y].entries, k)

\* The pages that remain when k is covered on the way only.
Owners(live, cover, On, k) == {x \in live : k \in cover[x] => x \in On}
Owned(cover, On, k) == [x \in PageId |-> IF x \in On THEN cover[x] \cup {k} ELSE cover[x]]

Claimed(view, live, cover, root, L, k) ==
    /\ L \in live /\ k \in cover[L] /\ root \in live /\ k \in cover[root] /\ IsLeaf(view[L])
    /\ \A x \in live : k \in cover[x] =>
          x = L \/ (~IsLeaf(view[x]) /\ k \in cover[Route(view[x].entries, k)])

LEMMA Claim ==
    ASSUME NEW view, NEW live, NEW cover, NEW place, NEW root, NEW d, NEW lost,
           Good(view, live, cover, place, {root}, d, lost), NEW k \in Key, NEW L,
           NEW On \in SUBSET live, Way(On, root, L, view, k), k \in lost \/ k \in cover[L],
           NEW live2, NEW cover2, live2 = Owners(live, cover, On, k), cover2 = Owned(cover, On, k)
    PROVE  /\ Good(view, live2, cover2, place, {root}, d, lost)
           /\ Claimed(view, live2, cover2, root, L, k)
           /\ On \subseteq live2
<1>1. live \subseteq PageId /\ cover \in [PageId -> SUBSET Key] /\ On \subseteq PageId
  BY DEF Good
<1>2. /\ \A x \in On : cover2[x] = cover[x] \cup {k}
      /\ \A x \in PageId : x \notin On => cover2[x] = cover[x]
      /\ cover2 \in [PageId -> SUBSET Key]
  BY <1>1 DEF Owned
<1>3. /\ live2 \subseteq live /\ On \subseteq live2
      /\ \A x \in live2 : k \in cover[x] => x \in On
      /\ \A x \in live : (k \in cover[x] => x \in On) => x \in live2
  BY DEF Owners
<1>4. \A x \in live2 : k \in cover2[x] => x \in On
  BY <1>1, <1>2, <1>3
<1>5. \A x \in PageId : cover[x] \subseteq cover2[x] /\ \A y \in cover2[x] : y # k => y \in cover[x]
  BY <1>1, <1>2
<1>6. \A x \in live : GoodPage(view[x], x, live, cover, place, {root}, d, lost)
  BY DEF Good
<1>7. ASSUME NEW x \in live2, NEW E, E = view[x].entries,
             BranchAt(E, x, live, cover, place, {root}, lost)
      PROVE  BranchAt(E, x, live2, cover2, place, {root}, lost)
  <2>1. PICK c : c = Route(E, k)
    OBVIOUS
  <2>2. /\ c \in live \ {root} /\ place[c] = x
        /\ \A i \in 1..Len(E) : RoutesTo(E, k, i) <=> E[i].child = c
    BY <1>7, <2>1, RouteChild
  <2>3. IsInternal(view[x])
    <3>1. CASE IsLeaf(view[x]) /\ ~IsInternal(view[x]) /\ HoldsAt(view[x].entries, cover[x], d, lost)
      <4>1. E \in Seq(LeafEntry) /\ E \in Seq(ChildEntry) /\ Len(E) >= 1
        BY <1>7, <3>1 DEF HoldsAt, Sorted, BranchAt, Separated
      <4>2. E[1] \in LeafEntry /\ E[1] \in ChildEntry
        <5>1. 1 \in 1..Len(E)
          BY <4>1, LenProperties
        <5> QED
          BY <4>1, <5>1, ElementOfSeq
      <4>3. E[1].child \in PageId /\ DOMAIN E[1] = {"key", "value"} /\ DOMAIN E[1] = {"key", "child"}
        BY <4>2 DEF LeafEntry, ChildEntry
      <4> QED
        BY <4>3
    <3> QED
      BY <1>3, <1>6, <3>1 DEF GoodPage
  <2>4. x \in On => c \in On
    <3> SUFFICES ASSUME x \in On PROVE c \in On
      OBVIOUS
    <3>1. x # L
      <4>1. GoodPage(view[x], x, live, cover, place, {root}, d, lost)
        BY <1>3, <1>6
      <4>2. ~IsLeaf(view[x])
        BY <2>3, <4>1 DEF GoodPage
      <4> QED
        BY <4>2 DEF Way
    <3> QED
      BY <1>7, <2>1, <3>1 DEF Way
  <2>5. ASSUME NEW b \in live, b \in On, b # root, place[b] = x PROVE x \in On /\ b = c
    <3>1. PICK y \in On : IsInternal(view[y]) /\ b = Route(view[y].entries, k)
      BY <2>5 DEF Way
    <3>2. y \in live
      BY <3>1
    <3>3. BranchAt(view[y].entries, y, live, cover, place, {root}, lost)
      BY <1>6, <3>1, <3>2 DEF GoodPage
    <3>4. place[b] = y
      BY <3>1, <3>3, RouteChild
    <3> QED
      BY <1>7, <2>1, <2>5, <3>1, <3>4
  <2>6. \A i \in 1..Len(E) : /\ E[i].child \in live \ {root} /\ place[E[i].child] = x
                             /\ E[i].child \in PageId
    BY <1>1, <1>7 DEF BranchAt
  <2>7. ASSUME NEW i \in 1..Len(E) PROVE E[i].child \in live2
    <3> SUFFICES ASSUME k \in cover[E[i].child] PROVE E[i].child \in On
      BY <1>3, <2>6
    <3>1. k \in cover[x] /\ RoutesTo(E, k, i)
      BY <1>7 DEF BranchAt
    <3> QED
      BY <1>3, <2>2, <2>4, <3>1
  <2>8. ASSUME NEW i \in 1..Len(E), NEW y \in cover2[E[i].child]
        PROVE  y \in cover2[x] /\ RoutesTo(E, y, i)
    <3>1. CASE y \in cover[E[i].child]
      <4>1. y \in cover[x] /\ RoutesTo(E, y, i)
        BY <1>7, <3>1 DEF BranchAt
      <4> QED
        BY <1>1, <1>3, <1>5, <4>1
    <3>2. CASE y \notin cover[E[i].child]
      <4>1. y = k /\ E[i].child \in On
        BY <1>2, <1>5, <2>6, <2>8, <3>2
      <4>2. x \in On /\ E[i].child = c
        BY <2>5, <2>6, <4>1
      <4> QED
        BY <1>2, <2>2, <4>1, <4>2
    <3> QED
      BY <3>1, <3>2
  <2>9. ASSUME NEW i \in 1..Len(E), NEW y \in cover2[x], RoutesTo(E, y, i), y \notin lost
        PROVE  y \in cover2[E[i].child]
    <3>1. CASE y = k
      <4>1. x \in On /\ E[i].child = c
        BY <1>4, <2>2, <2>9, <3>1
      <4> QED
        BY <1>2, <2>4, <3>1, <4>1
    <3>2. CASE y # k
      <4>1. y \in cover[x]
        BY <1>1, <1>3, <1>5, <3>2
      <4>2. y \in cover[E[i].child]
        BY <1>7, <2>9, <4>1 DEF BranchAt
      <4> QED
        BY <1>5, <2>6, <4>2
    <3> QED
      BY <3>1, <3>2
  <2>10. /\ Separated(E)
         /\ \A i \in 2..Len(E) : E[i].key \in cover2[x]
         /\ \A i, j \in 1..Len(E) : E[i].child = E[j].child => i = j
    BY <1>1, <1>3, <1>5, <1>7 DEF BranchAt
  <2> QED
    BY <2>6, <2>7, <2>8, <2>9, <2>10 DEF BranchAt
<1>8. ASSUME NEW x \in live2, HoldsAt(view[x].entries, cover[x], d, lost), IsLeaf(view[x]),
             ~IsInternal(view[x])
      PROVE  HoldsAt(view[x].entries, cover2[x], d, lost)
  <2>1. PICK E : E = view[x].entries
    OBVIOUS
  <2>2. \A i \in 1..Len(E) : E[i].key \in cover2[x] /\ E[i].value = d[E[i].key]
    BY <1>1, <1>3, <1>5, <1>8, <2>1 DEF HoldsAt
  <2>3. ASSUME NEW y \in cover2[x], y \notin lost PROVE \E i \in 1..Len(E) : E[i].key = y
    <3>1. y \in cover[x]
      <4>1. CASE y = k
        <5>1. x \in On
          BY <1>4, <2>3, <4>1
        <5>2. x = L
          BY <1>8, <5>1 DEF Way
        <5> QED
          BY <2>3, <4>1, <5>2
      <4>2. CASE y # k
        BY <1>1, <1>3, <1>5, <4>2
      <4> QED
        BY <4>1, <4>2
    <3> QED
      BY <1>8, <2>1, <2>3, <3>1 DEF HoldsAt
  <2> QED
    BY <1>8, <2>1, <2>2, <2>3 DEF HoldsAt
<1>9. ASSUME NEW x \in live2 PROVE GoodPage(view[x], x, live2, cover2, place, {root}, d, lost)
  <2>1. GoodPage(view[x], x, live, cover, place, {root}, d, lost)
    BY <1>3, <1>6
  <2>2. CASE IsInternal(view[x]) /\ ~IsLeaf(view[x]) /\ BranchAt(view[x].entries, x, live, cover, place, {root}, lost)
    <3>1. BranchAt(view[x].entries, x, live2, cover2, place, {root}, lost)
      BY <1>7, <2>2
    <3> QED
      BY <2>2, <3>1 DEF GoodPage
  <2>3. CASE IsLeaf(view[x]) /\ ~IsInternal(view[x]) /\ HoldsAt(view[x].entries, cover[x], d, lost)
    <3>1. HoldsAt(view[x].entries, cover2[x], d, lost)
      BY <1>8, <2>3
    <3> QED
      BY <2>3, <3>1 DEF GoodPage
  <2> QED
    BY <2>1, <2>2, <2>3 DEF GoodPage
<1>10. root \in On /\ L \in On
  BY DEF Way
<1>11. Good(view, live2, cover2, place, {root}, d, lost)
  <2>1. \A x \in live2 : cover2[x] # {} \/ Key = {}
    BY <1>1, <1>3, <1>5 DEF Good
  <2>2. \A y \in Key : y \in lost \/ \E t \in {root} : y \in cover2[t]
    BY <1>1, <1>5, <1>10 DEF Good
  <2> QED
    BY <1>1, <1>2, <1>3, <1>9, <1>10, <2>1, <2>2 DEF Good
<1>12. ASSUME NEW x \in live2, k \in cover2[x], x # L
       PROVE  ~IsLeaf(view[x]) /\ k \in cover2[Route(view[x].entries, k)]
  <2>1. x \in On
    BY <1>4, <1>12
  <2>2. IsInternal(view[x]) /\ Route(view[x].entries, k) \in On
    BY <1>12, <2>1 DEF Way
  <2>3. ~IsLeaf(view[x])
    BY <1>3, <1>6, <2>2 DEF GoodPage
  <2> QED
    BY <1>2, <2>2, <2>3
<1>13. Claimed(view, live2, cover2, root, L, k)
  <2>1. IsLeaf(view[L]) /\ L \in live2 /\ root \in live2 /\ k \in cover2[L] /\ k \in cover2[root]
    BY <1>2, <1>3, <1>10 DEF Way
  <2> QED
    BY <1>12, <2>1 DEF Claimed
<1> QED
  BY <1>3, <1>11, <1>13

\* The leaf that covers a key is rewritten for it.
LEMMA LeafChange ==
    ASSUME NEW view, NEW live, NEW cover, NEW place, NEW root, NEW d, NEW lost,
           Good(view, live, cover, place, {root}, d, lost), NEW k \in Key, NEW L,
           Claimed(view, live, cover, root, L, k),
           NEW view2, NEW d2, NEW lost2, \A x \in live \ {L} : view2[x] = view[x],
           IsLeaf(view2[L]), ~IsInternal(view2[L]),
           HoldsAt(view2[L].entries, cover[L], d2, lost2),
           \A x \in Key : x # k => d2[x] = d[x], lost \ {k} \subseteq lost2
    PROVE  Good(view2, live, cover, place, {root}, d2, lost2)
<1>1. ASSUME NEW x \in live PROVE GoodPage(view2[x], x, live, cover, place, {root}, d2, lost2)
  <2>1. CASE x = L
    BY <2>1 DEF GoodPage
  <2>2. CASE x # L
    <3>1. GoodPage(view[x], x, live, cover, place, {root}, d, lost) /\ view2[x] = view[x]
      BY <2>2 DEF Good
    <3>2. CASE IsInternal(view[x]) /\ ~IsLeaf(view[x])
                 /\ BranchAt(view[x].entries, x, live, cover, place, {root}, lost)
      <4>1. PICK E : E = view[x].entries
        OBVIOUS
      <4>2. BranchAt(E, x, live, cover, place, {root}, lost)
        BY <3>2, <4>1
      <4>3. ASSUME NEW i \in 1..Len(E), NEW y \in cover[x], RoutesTo(E, y, i), y \notin lost2
            PROVE  y \in cover[E[i].child]
        <5>1. CASE y = k
          <6>1. k \in cover[Route(E, k)]
            BY <2>2, <4>1, <5>1 DEF Claimed
          <6>2. E[i].child = Route(E, k)
            BY <4>2, <4>3, <5>1, RouteChild
          <6> QED
            BY <5>1, <6>1, <6>2
        <5>2. CASE y # k
          BY <4>2, <4>3, <5>2 DEF BranchAt
        <5> QED
          BY <5>1, <5>2
      <4>4. BranchAt(E, x, live, cover, place, {root}, lost2)
        BY <4>2, <4>3 DEF BranchAt
      <4> QED
        BY <3>1, <3>2, <4>1, <4>4 DEF GoodPage
    <3>3. CASE IsLeaf(view[x]) /\ ~IsInternal(view[x]) /\ HoldsAt(view[x].entries, cover[x], d, lost)
      <4>1. k \notin cover[x]
        BY <2>2, <3>3 DEF Claimed
      <4>2. cover[x] \subseteq Key
        BY DEF Good
      <4>3. HoldsAt(view[x].entries, cover[x], d2, lost2)
        BY <3>3, <4>1, <4>2 DEF HoldsAt
      <4> QED
        BY <3>1, <3>3, <4>3 DEF GoodPage
    <3> QED
      BY <3>1, <3>2, <3>3 DEF GoodPage
  <2> QED
    BY <2>1, <2>2
<1>2. \A y \in Key : y \in lost2 \/ \E t \in {root} : y \in cover[t]
  BY DEF Good, Claimed
<1> QED
  BY <1>1, <1>2 DEF Good

-----------------------------------------------------------------------------
(* A page is divided at a key.                                             *)

\* id keeps the keys below sep, new has the others.
Divided(cover, id, new, sep) ==
    [x \in PageId |-> IF x = id THEN Below(cover[id], sep)
                      ELSE IF x = new THEN From(cover[id], sep) ELSE cover[x]]

LEMMA DividedFacts ==
    ASSUME NEW view, NEW live, NEW cover, NEW place, NEW top, NEW d, NEW lost,
           Good(view, live, cover, place, top, d, lost),
           NEW id \in live, NEW new \in PageId \ live, NEW sep \in cover[id],
           Below(cover[id], sep) # {}, NEW cover2, cover2 = Divided(cover, id, new, sep)
    PROVE  /\ cover2 \in [PageId -> SUBSET Key]
           /\ cover2[id] = Below(cover[id], sep) /\ cover2[new] = From(cover[id], sep)
           /\ \A x \in live \ {id} : cover2[x] = cover[x]
           /\ \A x \in live \cup {new} : cover2[x] # {} \/ Key = {}
           /\ \A k \in cover[id] : k \in cover2[id] \/ k \in cover2[new]
           /\ sep \in cover2[new]
<1>1. live \subseteq PageId /\ cover \in [PageId -> SUBSET Key] /\ id # new /\ id \in PageId
  BY DEF Good
<1>2. cover2[id] = Below(cover[id], sep) /\ cover2[new] = From(cover[id], sep)
  BY <1>1 DEF Divided
<1>3. \A x \in live \ {id} : cover2[x] = cover[x]
  BY <1>1 DEF Divided
<1>4. Below(cover[id], sep) \subseteq cover[id] /\ From(cover[id], sep) \subseteq cover[id]
  BY DEF Below, From
<1>5. cover2 \in [PageId -> SUBSET Key]
  <2>1. Below(cover[id], sep) \in SUBSET Key /\ From(cover[id], sep) \in SUBSET Key
    BY <1>1, <1>4
  <2> QED
    BY <1>1, <2>1 DEF Divided
<1>6. \A k \in cover[id] : k \in Int
  BY <1>1, KeysAreInts
<1>7. \A k \in cover[id] : k < sep \/ sep <= k
  BY <1>6
<1>8. sep \in From(cover[id], sep)
  BY <1>6 DEF From
<1>9. \A k \in cover[id] : k \in Below(cover[id], sep) \/ k \in From(cover[id], sep)
  BY <1>7 DEF Below, From
<1>10. \A x \in live : cover[x] # {} \/ Key = {}
  BY DEF Good
<1> QED
  BY <1>2, <1>3, <1>5, <1>8, <1>9, <1>10

\* A page under a parent is divided, and the parent takes the new one in.
LEMMA SplitUnder ==
    ASSUME NEW view, NEW live, NEW cover, NEW place, NEW top, NEW d, NEW lost,
           Good(view, live, cover, place, top, d, lost),
           NEW id \in live, NEW new \in PageId \ live, NEW sep \in cover[id],
           Below(cover[id], sep) # {}, NEW P \in live \ {id}, IsInternal(view[P]),
           NEW E, E = view[P].entries, NEW r \in 1..Len(E), E[r].child = id,
           \A j \in 1..Len(E) : E[j].child # P,
           NEW live2, NEW cover2, NEW place2, NEW view2,
           live2 = live \cup {new}, cover2 = Divided(cover, id, new, sep),
           place2[new] = P, \A c \in live : place[c] # id => place2[c] = place[c],
           \A x \in live \ {id, P} : view2[x] = view[x],
           IsInternal(view2[P]), ~IsLeaf(view2[P]), view2[P].entries = WithChild(E, sep, new),
           GoodPage(view2[id], id, live2, cover2, place2, top, d, lost),
           GoodPage(view2[new], new, live2, cover2, place2, top, d, lost)
    PROVE  Good(view2, live2, cover2, place2, top, d, lost)
<1>1. live \subseteq PageId /\ cover \in [PageId -> SUBSET Key] /\ top \subseteq live
  BY DEF Good
<1>2. /\ cover2 \in [PageId -> SUBSET Key]
      /\ cover2[id] = Below(cover[id], sep) /\ cover2[new] = From(cover[id], sep)
      /\ \A x \in live \ {id} : cover2[x] = cover[x]
      /\ \A x \in live \cup {new} : cover2[x] # {} \/ Key = {}
  BY DividedFacts
<1>3. BranchAt(E, P, live, cover, place, top, lost)
  BY DEF Good, GoodPage
<1>4. id \notin top /\ place[id] = P
  BY <1>3 DEF BranchAt
<1>5. BranchAt(WithChild(E, sep, new), P, live2, cover2, place2, top, lost)
  <2>1. cover[P] \in SUBSET Key /\ new \notin top /\ cover2[P] = cover[P]
    BY <1>1, <1>2
  <2>2. \A c \in live \ {id, P} : cover2[c] = cover[c]
    BY <1>2
  <2>3. \A c \in live : place[c] = P => place2[c] = P
    OBVIOUS
  <2>4. /\ r \in 1..Len(E) /\ id = E[r].child /\ sep \in cover[id] /\ Below(cover[id], sep) # {}
        /\ new \in PageId \ live /\ live2 = live \cup {new} /\ place2[new] = P
        /\ \A j \in 1..Len(E) : E[j].child # P
    OBVIOUS
  <2>5. cover2[id] = Below(cover[id], sep) /\ cover2[new] = From(cover[id], sep)
    BY <1>2
  <2> QED
    BY ONLY <1>3, <2>1, <2>2, <2>3, <2>4, <2>5, TakesChild
<1>6. ASSUME NEW x \in live2 PROVE GoodPage(view2[x], x, live2, cover2, place2, top, d, lost)
  <2>1. CASE x = id \/ x = new
    BY <2>1
  <2>2. CASE x = P
    BY <1>5, <2>2 DEF GoodPage
  <2>3. CASE x \in live \ {id, P}
    <3>1. GoodPage(view[x], x, live, cover, place, top, d, lost) /\ view2[x] = view[x]
      BY <2>3 DEF Good
    <3>2. cover2[x] = cover[x]
      BY <1>2, <2>3
    <3>3. \A c \in live \ top : place[c] = x => /\ c \in live2 \ top /\ place2[c] = x
                                                /\ cover2[c] = cover[c]
      BY <1>2, <1>4, <2>3
    <3>4. GoodPage(view[x], x, live2, cover2, place2, top, d, lost)
      BY <3>1, <3>2, <3>3, PageKept
    <3> QED
      BY <3>1, <3>4
  <2> QED
    BY <2>1, <2>2, <2>3
<1>7. \A k \in Key : k \in lost \/ \E t \in top : k \in cover2[t]
  <2>1. \A t \in top : cover2[t] = cover[t]
    BY <1>1, <1>2, <1>4
  <2> QED
    BY <2>1 DEF Good
<1>8. live2 \subseteq PageId /\ top \subseteq live2
  BY <1>1
<1>9. \A x \in live2 : cover2[x] # {} \/ Key = {}
  BY <1>2
<1> QED
  BY <1>2, <1>6, <1>7, <1>8, <1>9 DEF Good

\* sep is the first key of b, and those of a are below it.
Parted(cover, a, b, sep) ==
    /\ \A k \in cover[a] : k < sep
    /\ \A k \in cover[b] : sep <= k
    /\ sep \in cover[b]

\* The root is divided: there are two roots.
LEMMA SplitTop ==
    ASSUME NEW view, NEW live, NEW cover, NEW place, NEW id, NEW d, NEW lost,
           NEW top, top = {id}, Good(view, live, cover, place, top, d, lost),
           NEW new \in PageId \ live, NEW sep \in cover[id],
           Below(cover[id], sep) # {},
           NEW live2, NEW cover2, NEW place2, NEW view2, NEW top2, top2 = {id, new},
           live2 = live \cup {new}, cover2 = Divided(cover, id, new, sep),
           \A c \in live : place[c] # id => place2[c] = place[c],
           \A x \in live \ {id} : view2[x] = view[x],
           GoodPage(view2[id], id, live2, cover2, place2, top2, d, lost),
           GoodPage(view2[new], new, live2, cover2, place2, top2, d, lost)
    PROVE  /\ Good(view2, live2, cover2, place2, top2, d, lost)
           /\ Parted(cover2, id, new, sep)
<1>1. live \subseteq PageId /\ cover \in [PageId -> SUBSET Key] /\ id \in live
  BY DEF Good
<1>2. /\ cover2 \in [PageId -> SUBSET Key]
      /\ cover2[id] = Below(cover[id], sep) /\ cover2[new] = From(cover[id], sep)
      /\ \A x \in live \ {id} : cover2[x] = cover[x]
      /\ \A x \in live \cup {new} : cover2[x] # {} \/ Key = {}
      /\ \A k \in cover[id] : k \in cover2[id] \/ k \in cover2[new]
      /\ sep \in cover2[new]
  BY <1>1, DividedFacts
<1>3. ASSUME NEW x \in live2 PROVE GoodPage(view2[x], x, live2, cover2, place2, top2, d, lost)
  <2>1. CASE x = id \/ x = new
    BY <2>1
  <2>2. CASE x \in live \ {id}
    <3>1. GoodPage(view[x], x, live, cover, place, top, d, lost) /\ view2[x] = view[x]
      BY <2>2 DEF Good
    <3>2. cover2[x] = cover[x]
      BY <1>2, <2>2
    <3>3. \A c \in live \ top : place[c] = x => /\ c \in live2 \ top2 /\ place2[c] = x
                                                 /\ cover2[c] = cover[c]
      BY <1>2, <2>2
    <3>4. GoodPage(view[x], x, live2, cover2, place2, top2, d, lost)
      BY <3>1, <3>2, <3>3, PageKept
    <3> QED
      BY <3>1, <3>4
  <2> QED
    BY <2>1, <2>2
<1>4. \A k \in Key : k \in lost \/ \E t \in top2 : k \in cover2[t]
  BY <1>2 DEF Good
<1>5. live2 \subseteq PageId /\ top2 \subseteq live2
  BY <1>1
<1>6. \A x \in live2 : cover2[x] # {} \/ Key = {}
  BY <1>2
<1>7. Good(view2, live2, cover2, place2, top2, d, lost)
  BY <1>2, <1>3, <1>4, <1>5, <1>6 DEF Good
<1> QED
  BY <1>2, <1>7 DEF Below, From, Parted

\* The children of the entries R are new's.
Resettled(place2, place, live, R, new) ==
    /\ \A c \in live : (\E i \in 1..Len(R) : R[i].child = c) => place2[c] = new
    /\ \A c \in live : ~(\E i \in 1..Len(R) : R[i].child = c) => place2[c] = place[c]

NamesOnly(R, W) == \A i \in 1..Len(R) : \E j \in 1..Len(W) : R[i].child = W[j].child

\* The halves of a full internal page, with its keys divided.
Halving(view, live, cover, place, top, d, lost, id, W, left, right, sep, new,
        live2, cover2, place2, top2) ==
    /\ Good(view, live, cover, place, top, d, lost) /\ id \in live
    /\ IsInternal(view[id]) /\ W = view[id].entries /\ Len(W) > 2
    /\ \A j \in 1..Len(W) : W[j].child # id
    /\ left = SplitAround(W).left /\ right = SplitAround(W).right
    /\ sep = SplitAround(W).promoted /\ new \in PageId \ live
    /\ live2 = live \cup {new} /\ cover2 = Divided(cover, id, new, sep)
    /\ top2 \subseteq top \cup {new} /\ Resettled(place2, place, live, right, new)

LEMMA BranchHalves ==
    ASSUME NEW view, NEW live, NEW cover, NEW place, NEW top, NEW d, NEW lost, NEW id, NEW W,
           NEW left, NEW right, NEW sep, NEW new, NEW live2, NEW cover2, NEW place2, NEW top2,
           Halving(view, live, cover, place, top, d, lost, id, W, left, right, sep, new,
                   live2, cover2, place2, top2)
    PROVE  /\ sep \in cover[id] /\ Below(cover[id], sep) # {}
           /\ BranchAt(left, id, live2, cover2, place2, top2, lost)
           /\ BranchAt(right, new, live2, cover2, place2, top2, lost)
           /\ NamesOnly(right, W)
<1> USE DEF Halving
<1>0. /\ \A c \in live : (\E i \in 1..Len(right) : right[i].child = c) => place2[c] = new
      /\ \A c \in live : ~(\E i \in 1..Len(right) : right[i].child = c) => place2[c] = place[c]
  BY DEF Resettled
<1>1. live \subseteq PageId /\ cover \in [PageId -> SUBSET Key] /\ top \subseteq live
  BY DEF Good
<1>2. BranchAt(W, id, live, cover, place, top, lost)
  BY DEF Good, GoodPage
<1>3. Separated(W)
  BY <1>2 DEF BranchAt
<1>4. PICK m \in Nat :
         /\ m \in 1..Len(W) /\ m + 1 \in 2..Len(W)
         /\ sep = W[m + 1].key
         /\ Part(left, W, Moved(m, 0)) /\ Len(left) = m
         /\ Part(right, W, Moved(Len(W) - m, m)) /\ Len(right) = Len(W) - m
  BY <1>3, SplitAroundParts
<1>5. PICK n \in Nat : n = Len(W) /\ n > 2 /\ m \in 1..n /\ m + 1 \in 2..n
  BY <1>3, <1>4, LenProperties DEF Separated
<1>6. PICK l \in Nat : l = n - m /\ l >= 1
  <2>1. n - m \in Nat /\ n - m >= 1
    BY <1>5
  <2> QED
    BY <2>1
<1>7. PICK g, h : g = Moved(m, 0) /\ h = Moved(l, m)
  OBVIOUS
<1>8. Part(left, W, g) /\ Part(right, W, h) /\ Len(left) = m /\ Len(right) = l
  BY <1>4, <1>5, <1>6, <1>7
<1>9. (\A i \in 1..m : g[i] = i) /\ (\A i \in 1..l : h[i] = m + i)
  BY <1>7 DEF Moved
<1>10. \A i \in 1..m : i \in 1..n
  BY <1>5
<1>11. \A i \in 1..l : m + i \in 1..n
  BY <1>5, <1>6
<1>12. \A i \in 1..m : left[i].child = W[i].child
  BY <1>8, <1>9 DEF Part
<1>13. \A i \in 1..l : right[i].child = W[m + i].child
  BY <1>8, <1>9 DEF Part
<1>14. sep \in cover[id] /\ sep \in Key /\ sep \in Int
  <2>1. sep \in cover[id]
    BY <1>2, <1>4, <1>5 DEF BranchAt
  <2> QED
    BY <1>1, <2>1, KeysAreInts
<1>15. \A j \in 1..n : /\ W[j].child \in live \ top /\ W[j].child # id /\ place[W[j].child] = id
                       /\ W[j].child # new
  BY <1>2, <1>5 DEF BranchAt
<1>16. ASSUME NEW j \in 1..n, NEW k \in cover[id], RoutesTo(W, k, j)
       PROVE  (j <= m => k \in Below(cover[id], sep)) /\ (m + 1 <= j => k \in From(cover[id], sep))
  <2>1. k \in Int
    BY <1>1, KeysAreInts
  <2>2. W[m + 1].key <= k <=> m + 1 <= j
    BY <1>5, <1>16 DEF RoutesTo
  <2>3. sep <= k <=> m + 1 <= j
    BY <1>4, <2>2
  <2>4. j <= m => k < sep
    BY <1>5, <1>14, <2>1, <2>3
  <2> QED
    BY <2>3, <2>4 DEF Below, From
<1>17. ASSUME NEW j \in 1..n, NEW k \in cover[W[j].child] PROVE k \in cover[id] /\ RoutesTo(W, k, j)
  BY <1>2, <1>5, <1>17 DEF BranchAt
<1>18. Below(cover[id], sep) # {}
  <2>1. 1 \in 1..n /\ 1 <= m
    BY <1>5
  <2>2. cover[W[1].child] # {}
    BY <1>14, <1>15, <2>1 DEF Good
  <2>3. PICK k \in cover[W[1].child] : TRUE
    BY <2>2
  <2>4. k \in cover[id] /\ RoutesTo(W, k, 1)
    BY <1>17, <2>1
  <2>5. k \in Below(cover[id], sep)
    BY <1>16, <2>1, <2>4
  <2> QED
    BY <2>5
<1>19. /\ cover2[id] = Below(cover[id], sep) /\ cover2[new] = From(cover[id], sep)
       /\ \A x \in live \ {id} : cover2[x] = cover[x]
  <2>1. /\ Good(view, live, cover, place, top, d, lost) /\ id \in live /\ new \in PageId \ live
        /\ cover2 = Divided(cover, id, new, sep)
    OBVIOUS
  <2> QED
    BY ONLY <1>14, <1>18, <2>1, DividedFacts
<1>20. cover2[id] \subseteq cover[id] /\ cover2[new] \subseteq cover[id]
  BY <1>19 DEF Below, From
<1>21. \A j \in 1..n : cover2[W[j].child] = cover[W[j].child] /\ W[j].child \in live2 \ top2
  BY <1>15, <1>19
<1>22. cover[id] \in SUBSET Key
  BY <1>1
<1>23. BranchAt(left, id, live2, cover2, place2, top2, lost)
  <2>1. ASSUME NEW i \in 2..m PROVE left[i].key \in cover2[id]
    <3>1. i \in 1..m /\ i \in 2..n /\ i < m + 1
      BY <1>5
    <3>2. left[i].key = W[i].key
      BY <1>8, <1>9, <3>1 DEF Part
    <3>3. W[i].key \in cover[id]
      BY <1>2, <1>5, <3>1 DEF BranchAt
    <3>4. W[i].key < sep
      BY <1>3, <1>4, <1>5, <3>1 DEF Separated
    <3> QED
      BY <1>19, <3>2, <3>3, <3>4 DEF Below
  <2>2. ASSUME NEW i \in 1..m
        PROVE  /\ left[i].child \in live2 \ top2 /\ place2[left[i].child] = id
               /\ cover2[left[i].child] = cover[left[i].child]
               /\ cover[left[i].child] \subseteq cover2[id]
    <3>1. ASSUME NEW j \in 1..l PROVE right[j].child # left[i].child
      <4>1. i \in 1..n /\ m + j \in 1..n
        BY <1>10, <1>11
      <4>2. m + j # i
        BY ONLY m \in Nat, i \in 1..m, j \in 1..l, l \in Nat
      <4> QED
        BY <1>2, <1>5, <1>12, <1>13, <4>1, <4>2 DEF BranchAt
    <3>2. i \in 1..n /\ i <= m
      BY <1>5
    <3>3. place2[left[i].child] = id
      BY <1>0, <1>8, <1>12, <1>15, <3>1, <3>2
    <3>4. cover[left[i].child] \subseteq cover2[id]
      BY <1>12, <1>16, <1>17, <1>19, <3>2
    <3> QED
      BY <1>12, <1>21, <3>2, <3>3, <3>4
  <2>3. ASSUME NEW k \in cover2[id], NEW j \in 1..n, RoutesTo(W, k, j)
        PROVE  \E i \in 1..m : g[i] = j
    <3>1. k \in cover[id] /\ k < sep /\ k \in Int
      BY <1>1, <1>19, KeysAreInts DEF Below
    <3>2. ~(m + 1 <= j)
      <4>1. m + 1 <= j => sep <= k
        BY <1>16, <2>3, <3>1 DEF From
      <4> QED
        BY <1>14, <3>1, <4>1
    <3>3. j \in 1..m
      BY <1>5, <3>2
    <3> QED
      BY <1>9, <3>3
  <2>4. cover2[id] \subseteq cover[id] /\ lost \subseteq lost
    BY <1>20
  <2>5. /\ \A i \in 2..Len(left) : left[i].key \in cover2[id]
        /\ \A i \in 1..Len(left) :
              /\ left[i].child \in live2 \ top2 /\ place2[left[i].child] = id
              /\ cover2[left[i].child] = cover[left[i].child]
              /\ cover[left[i].child] \subseteq cover2[id]
        /\ \A k \in cover2[id], j \in 1..Len(W) :
              RoutesTo(W, k, j) => k \in lost \/ \E i \in 1..Len(left) : g[i] = j
    BY <1>5, <1>8, <2>1, <2>2, <2>3
  <2> QED
    BY ONLY <1>2, <1>8, <1>22, <2>4, <2>5, BranchCut
<1>24. BranchAt(right, new, live2, cover2, place2, top2, lost)
  <2>1. ASSUME NEW i \in 2..l PROVE right[i].key \in cover2[new]
    <3>1. i \in 1..l /\ m + i \in 2..n /\ m + 1 < m + i
      BY <1>5, <1>6
    <3>2. right[i].key = W[m + i].key
      BY <1>8, <1>9, <3>1 DEF Part
    <3>3. W[m + i].key \in cover[id]
      BY <1>2, <1>5, <3>1 DEF BranchAt
    <3>4. sep < W[m + i].key
      BY <1>3, <1>4, <1>5, <3>1 DEF Separated
    <3>5. W[m + i].key \in Int
      BY <1>1, <3>3, KeysAreInts
    <3>6. sep <= W[m + i].key
      BY <1>14, <3>4, <3>5
    <3> QED
      BY <1>19, <3>2, <3>3, <3>6 DEF From
  <2>2. ASSUME NEW i \in 1..l
        PROVE  /\ right[i].child \in live2 \ top2 /\ place2[right[i].child] = new
               /\ cover2[right[i].child] = cover[right[i].child]
               /\ cover[right[i].child] \subseteq cover2[new]
    <3>1. m + i \in 1..n /\ m + 1 <= m + i
      BY <1>5, <1>6
    <3>2. place2[right[i].child] = new
      BY <1>0, <1>8, <1>13, <1>15, <3>1
    <3>3. cover[right[i].child] \subseteq cover2[new]
      BY <1>13, <1>16, <1>17, <1>19, <3>1
    <3> QED
      BY <1>13, <1>21, <3>1, <3>2, <3>3
  <2>3. ASSUME NEW k \in cover2[new], NEW j \in 1..n, RoutesTo(W, k, j)
        PROVE  \E i \in 1..l : h[i] = j
    <3>1. k \in cover[id] /\ sep <= k /\ k \in Int
      BY <1>1, <1>19, KeysAreInts DEF From
    <3>2. ~(j <= m)
      <4>1. j <= m => k < sep
        BY <1>16, <2>3, <3>1 DEF Below
      <4> QED
        BY <1>14, <3>1, <4>1
    <3>3. j - m \in 1..l /\ m + (j - m) = j
      BY <1>5, <1>6, <3>2
    <3> QED
      BY <1>9, <3>3
  <2>4. cover2[new] \subseteq cover[id] /\ lost \subseteq lost
    BY <1>20
  <2>5. /\ \A i \in 2..Len(right) : right[i].key \in cover2[new]
        /\ \A i \in 1..Len(right) :
              /\ right[i].child \in live2 \ top2 /\ place2[right[i].child] = new
              /\ cover2[right[i].child] = cover[right[i].child]
              /\ cover[right[i].child] \subseteq cover2[new]
        /\ \A k \in cover2[new], j \in 1..Len(W) :
              RoutesTo(W, k, j) => k \in lost \/ \E i \in 1..Len(right) : h[i] = j
    BY <1>5, <1>8, <2>1, <2>2, <2>3
  <2> QED
    BY ONLY <1>2, <1>8, <1>22, <2>4, <2>5, BranchCut
<1>25. NamesOnly(right, W)
  BY <1>5, <1>8, <1>11, <1>13 DEF NamesOnly
<1> QED
  BY <1>14, <1>18, <1>23, <1>24, <1>25

\* Fewer entries, with every key of the page lost.
LEMMA BranchLess ==
    ASSUME NEW E, NEW x, NEW live, NEW cover, NEW place, NEW top, NEW lost,
           BranchAt(E, x, live, cover, place, top, lost), cover[x] \in SUBSET Key,
           NEW E2, NEW g, Part(E2, E, g), NEW lost2, lost \subseteq lost2, cover[x] \subseteq lost2
    PROVE  BranchAt(E2, x, live, cover, place, top, lost2)
<1>1. \A i \in 1..Len(E2) : g[i] \in 1..Len(E) /\ E2[i].child = E[g[i]].child
  BY DEF Part
<1>2. \A i \in 2..Len(E2) : g[i] \in 2..Len(E) /\ E2[i].key = E[g[i]].key
  BY DEF Part
<1>3. /\ \A i \in 2..Len(E2) : E2[i].key \in cover[x]
      /\ \A i \in 1..Len(E2) : /\ E2[i].child \in live \ top /\ place[E2[i].child] = x
                               /\ cover[E2[i].child] = cover[E2[i].child]
                               /\ cover[E2[i].child] \subseteq cover[x]
      /\ cover[x] \subseteq cover[x]
      /\ \A k \in cover[x], j \in 1..Len(E) :
            RoutesTo(E, k, j) => k \in lost2 \/ \E i \in 1..Len(E2) : g[i] = j
  BY <1>1, <1>2 DEF BranchAt
<1> QED
  BY <1>3, BranchCut

\* A page without a child that covers lost keys only.
LEMMA BranchUnlinked ==
    ASSUME NEW E, NEW x, NEW live, NEW cover, NEW place, NEW top, NEW lost,
           BranchAt(E, x, live, cover, place, top, lost), cover[x] \in SUBSET Key,
           Len(E) # 1, NEW k \in Key, cover[Route(E, k)] \subseteq lost
    PROVE  BranchAt(WithoutChild(E, RouteIndex(E, k)), x, live, cover, place, top, lost)
<1>1. Separated(E)
  BY DEF BranchAt
<1>2. PICK r \in 1..Len(E) : r = RouteIndex(E, k) /\ RoutesTo(E, k, r)
  BY <1>1, RouteIndexRoutes DEF RoutesTo
<1>3. Route(E, k) = E[r].child
  BY <1>2 DEF Route
<1>4. PICK E2 : E2 = WithoutChild(E, r)
  OBVIOUS
<1>5. PICK g : /\ Part(E2, E, g)
               /\ \A j \in 1..Len(E) : j # r => \E i \in 1..Len(E2) : g[i] = j
  BY <1>1, <1>4, WithoutChildPart
<1>6. \A i \in 1..Len(E2) : g[i] \in 1..Len(E) /\ E2[i].child = E[g[i]].child
  BY <1>5 DEF Part
<1>7. \A i \in 2..Len(E2) : g[i] \in 2..Len(E) /\ E2[i].key = E[g[i]].key
  BY <1>5 DEF Part
<1>8. ASSUME NEW y \in cover[x], NEW j \in 1..Len(E), RoutesTo(E, y, j)
      PROVE  y \in lost \/ \E i \in 1..Len(E2) : g[i] = j
  <2>1. CASE j = r
    BY <1>3, <1>8, <2>1 DEF BranchAt
  <2>2. CASE j # r
    BY <1>5, <2>2
  <2> QED
    BY <2>1, <2>2
<1>9. /\ \A i \in 2..Len(E2) : E2[i].key \in cover[x]
      /\ \A i \in 1..Len(E2) : /\ E2[i].child \in live \ top /\ place[E2[i].child] = x
                               /\ cover[E2[i].child] = cover[E2[i].child]
                               /\ cover[E2[i].child] \subseteq cover[x]
      /\ cover[x] \subseteq cover[x] /\ lost \subseteq lost
  BY <1>6, <1>7 DEF BranchAt
<1>10. BranchAt(E2, x, live, cover, place, top, lost)
  BY <1>5, <1>8, <1>9, BranchCut
<1> QED
  BY <1>2, <1>4, <1>10

-----------------------------------------------------------------------------
(* The root changes.                                                       *)

\* new covers what the pages a and b cover.
Joined(cover, new, a, b) ==
    [x \in PageId |-> IF x = new THEN cover[a] \cup cover[b] ELSE cover[x]]
Reparented(place, new, a, b) == [x \in PageId |-> IF x \in {a, b} THEN new ELSE place[x]]

Joining(view, live, cover, place, d, lost, a, b, sep, new, view2, E, live2, cover2, place2) ==
    /\ Good(view, live, cover, place, {a, b}, d, lost) /\ a # b /\ Parted(cover, a, b, sep)
    /\ new \in PageId \ live /\ \A x \in live : view2[x] = view[x]
    /\ IsInternal(view2[new]) /\ ~IsLeaf(view2[new]) /\ E = view2[new].entries
    /\ E \in Seq(ChildEntry) /\ Len(E) = 2
    /\ E[1].child = a /\ E[2].key = sep /\ E[2].child = b
    /\ live2 = live \cup {new}
    /\ cover2 = Joined(cover, new, a, b) /\ place2 = Reparented(place, new, a, b)

LEMMA GrowsTop ==
    ASSUME NEW view, NEW live, NEW cover, NEW place, NEW d, NEW lost, NEW a, NEW b, NEW sep, NEW new,
           NEW view2, NEW E, NEW live2, NEW cover2, NEW place2,
           Joining(view, live, cover, place, d, lost, a, b, sep, new, view2, E, live2, cover2, place2)
    PROVE  Good(view2, live2, cover2, place2, {new}, d, lost)
<1> USE DEF Joining, Parted
<1>1. /\ live \subseteq PageId /\ cover \in [PageId -> SUBSET Key] /\ a \in live /\ b \in live
      /\ a \in PageId /\ b \in PageId
  BY DEF Good
<1>2. /\ cover2[new] = cover[a] \cup cover[b] /\ cover2 \in [PageId -> SUBSET Key]
      /\ \A x \in live : cover2[x] = cover[x]
  BY <1>1 DEF Joined
<1>3. place2[a] = new /\ place2[b] = new /\ \A x \in live \ {a, b} : place2[x] = place[x]
  BY <1>1 DEF Reparented
<1>4. \A i \in 1..2 : i = 1 \/ i = 2
  OBVIOUS
<1>5. \A i \in 2..2 : i = 2
  OBVIOUS
<1>6. sep \in Key /\ \A k \in cover[a] \cup cover[b] : k \in Int
  BY <1>1, KeysAreInts
<1>7. Separated(E)
  <2>1. \A i, j \in 2..2 : ~(i < j)
    OBVIOUS
  <2>2. \A i \in 2..2 : E[i].key \in Key
    BY <1>5, <1>6
  <2> QED
    BY <2>1, <2>2 DEF Separated
<1>8. \A k : RoutesTo(E, k, 1) <=> ~(sep <= k)
  <2>1. ~(2 <= 1) /\ 1 \in 1..2 /\ 2 \in 2..2
    OBVIOUS
  <2> QED
    BY <1>5, <2>1 DEF RoutesTo
<1>9. \A k : RoutesTo(E, k, 2) <=> sep <= k
  <2>1. 2 <= 2 /\ 2 \in 1..2 /\ 2 \in 2..2
    OBVIOUS
  <2> QED
    BY <1>5, <2>1 DEF RoutesTo
<1>10. \A k \in cover[a] : ~(sep <= k)
  BY <1>6
<1>11. BranchAt(E, new, live2, cover2, place2, {new}, lost)
  <2>1. \A i \in 2..Len(E) : E[i].key \in cover2[new]
    BY <1>2, <1>5
  <2>2. \A i, j \in 1..Len(E) : E[i].child = E[j].child => i = j
    BY <1>4
  <2>3. \A i \in 1..Len(E) : E[i].child \in live2 \ {new} /\ place2[E[i].child] = new
    BY <1>1, <1>3, <1>4
  <2>4. ASSUME NEW i \in 1..Len(E), NEW k \in cover2[E[i].child]
        PROVE  k \in cover2[new] /\ RoutesTo(E, k, i)
    <3>1. CASE i = 1
      <4>1. k \in cover[a]
        BY <1>1, <1>2, <2>4, <3>1
      <4> QED
        BY <1>2, <1>8, <1>10, <3>1, <4>1
    <3>2. CASE i = 2
      <4>1. k \in cover[b]
        BY <1>1, <1>2, <2>4, <3>2
      <4> QED
        BY <1>2, <1>9, <3>2, <4>1
    <3> QED
      BY <1>4, <3>1, <3>2
  <2>5. ASSUME NEW i \in 1..Len(E), NEW k \in cover2[new], RoutesTo(E, k, i)
        PROVE  k \in cover2[E[i].child]
    <3>1. k \in cover[a] \/ k \in cover[b]
      BY <1>2
    <3>2. CASE i = 1
      BY <1>1, <1>2, <1>8, <2>5, <3>1, <3>2
    <3>3. CASE i = 2
      BY <1>1, <1>2, <1>9, <1>10, <2>5, <3>1, <3>3
    <3> QED
      BY <1>4, <3>2, <3>3
  <2> QED
    BY <1>7, <2>1, <2>2, <2>3, <2>4, <2>5 DEF BranchAt
<1>12. ASSUME NEW x \in live2 PROVE GoodPage(view2[x], x, live2, cover2, place2, {new}, d, lost)
  <2>1. CASE x = new
    BY <1>11, <2>1 DEF GoodPage
  <2>2. CASE x \in live
    <3>1. GoodPage(view[x], x, live, cover, place, {a, b}, d, lost) /\ view2[x] = view[x]
      BY <2>2 DEF Good
    <3>2. \A c \in live \ {a, b} : place[c] = x => /\ c \in live2 \ {new} /\ place2[c] = x
                                                   /\ cover2[c] = cover[c]
      BY <1>2, <1>3
    <3>3. cover2[x] = cover[x]
      BY <1>2, <2>2
    <3>4. GoodPage(view[x], x, live2, cover2, place2, {new}, d, lost)
      BY <3>1, <3>2, <3>3, PageKept
    <3> QED
      BY <3>1, <3>4
  <2> QED
    BY <2>1, <2>2
<1>13. \A x \in live2 : cover2[x] # {} \/ Key = {}
  BY <1>2 DEF Good
<1>14. \A k \in Key : k \in lost \/ \E t \in {new} : k \in cover2[t]
  BY <1>2 DEF Good
<1>15. live2 \subseteq PageId /\ {new} \subseteq live2
  BY <1>1
<1> QED
  BY <1>2, <1>12, <1>13, <1>14, <1>15 DEF Good

LEMMA ShrinksTop ==
    ASSUME NEW view, NEW live, NEW cover, NEW place, NEW root, NEW d, NEW lost,
           Good(view, live, cover, place, {root}, d, lost), Key \subseteq lost,
           NEW c \in live \ {root}, place[c] = root, NEW view2,
           NEW live2, live2 = live \ {root}, \A x \in live2 : view2[x] = view[x]
    PROVE  Good(view2, live2, cover, place, {c}, d, lost)
<1>1. ASSUME NEW x \in live2 PROVE GoodPage(view2[x], x, live2, cover, place, {c}, d, lost)
  <2>1. GoodPage(view[x], x, live, cover, place, {root}, d, lost) /\ view2[x] = view[x]
    BY DEF Good
  <2>2. \A y \in live \ {root} : place[y] = x => /\ y \in live2 \ {c} /\ place[y] = x
                                                 /\ cover[y] = cover[y]
    OBVIOUS
  <2>3. GoodPage(view[x], x, live2, cover, place, {c}, d, lost)
    BY <2>1, <2>2, PageKept
  <2> QED
    BY <2>1, <2>3
<1> QED
  BY <1>1 DEF Good

-----------------------------------------------------------------------------
(* The way of a key.                                                       *)

\* A path from id follows the routes of k to a page that is not internal.
Follows(path, id, store, k) ==
    /\ path \in Seq(PageId) /\ Len(path) >= 1 /\ path[1] = id
    /\ \A i \in 1..(Len(path) - 1) : /\ IsInternal(store[path[i]])
                                     /\ path[i + 1] = Route(store[path[i]].entries, k)
    /\ ~IsInternal(store[path[Len(path)]])

LEMMA PathFollows ==
    ASSUME NEW store, NEW k, NEW level \in [PageId -> Nat], RoutesDown(store, k, level),
           NEW d, d = Down(d, store, k)
    PROVE  \A id \in PageId : Follows(d[id], id, store, k)
<1> DEFINE Bad == {n \in Nat : \E id \in PageId : level[id] = n /\ ~Follows(d[id], id, store, k)}
<1>1. ASSUME NEW n \in Bad, \A x \in Bad : n <= x PROVE FALSE
  <2>1. PICK id \in PageId : level[id] = n /\ ~Follows(d[id], id, store, k)
    BY <1>1
  <2>2. d[id] = DownFrom(d, store, k, id)
    BY DEF Down
  <2>3. CASE ~IsInternal(store[id])
    <3>1. d[id] = <<id>>
      BY <2>2, <2>3 DEF DownFrom
    <3>2. PICK p : p = <<id>>
      OBVIOUS
    <3>3. p \in Seq(PageId) /\ Len(p) = 1 /\ p[1] = id
      BY <3>2
    <3>4. \A i \in 1..(Len(p) - 1) : FALSE
      BY <3>3
    <3>5. Follows(p, id, store, k)
      BY <2>3, <3>3, <3>4 DEF Follows
    <3> QED
      BY <2>1, <3>1, <3>2, <3>5
  <2>4. CASE IsInternal(store[id])
    <3>1. PICK c \in PageId : c = Route(store[id].entries, k) /\ level[id] = level[c] + 1
      BY <2>4 DEF RoutesDown
    <3>2. level[c] \in Nat /\ ~(n <= level[c])
      BY <2>1, <3>1
    <3>3. level[c] \notin Bad
      BY <1>1, <3>2, Zenon
    <3>4. Follows(d[c], c, store, k)
      BY <3>2, <3>3, Zenon
    <3>5. PICK p, q, r : p = d[c] /\ q = <<id>> /\ r = q \o p
      OBVIOUS
    <3>6. p \in Seq(PageId) /\ Len(p) >= 1 /\ p[1] = c
      BY <3>4, <3>5 DEF Follows
    <3>7. q \in Seq(PageId) /\ Len(q) = 1 /\ q[1] = id
      BY <3>5
    <3>8. PICK m \in Nat : m = Len(p) /\ m >= 1
      BY <3>6, LenProperties
    <3>9. /\ \A i \in 1..(m - 1) : IsInternal(store[p[i]]) /\ p[i + 1] = Route(store[p[i]].entries, k)
          /\ ~IsInternal(store[p[m]])
      BY <3>4, <3>5, <3>8 DEF Follows
    <3>10. /\ r \in Seq(PageId) /\ Len(r) = Len(q) + Len(p)
           /\ \A i \in 1..(Len(q) + Len(p)) : r[i] = IF i <= Len(q) THEN q[i] ELSE p[i - Len(q)]
      <4>1. p \in Seq(PageId) /\ q \in Seq(PageId) /\ r = q \o p
        BY <3>5, <3>6, <3>7
      <4> QED
        BY <4>1, ConcatProperties
    <3>11. Len(r) = m + 1 /\ (m + 1) - 1 = m
      BY <3>7, <3>8, <3>10
    <3>12. r[1] = id
      BY <3>7, <3>8, <3>10
    <3>13. \A i \in 1..m : r[i + 1] = p[i]
      <4> TAKE i \in 1..m
      <4>1. i + 1 \in 1..(1 + m) /\ ~(i + 1 <= 1) /\ (i + 1) - 1 = i
        BY <3>8
      <4> QED
        BY <3>7, <3>8, <3>10, <4>1
    <3>14. ASSUME NEW i \in 1..m
           PROVE  IsInternal(store[r[i]]) /\ r[i + 1] = Route(store[r[i]].entries, k)
      <4>1. CASE i = 1
        <5>1. r[i] = id /\ r[i + 1] = c
          BY <3>6, <3>12, <3>13, <3>14, <4>1
        <5> QED
          BY <2>4, <3>1, <5>1
      <4>2. CASE i # 1
        <5>1. PICK j \in 1..(m - 1) : j + 1 = i /\ j \in 1..m
          <6>1. i - 1 \in 1..(m - 1) /\ (i - 1) + 1 = i /\ i - 1 \in 1..m
            BY <3>8, <4>2
          <6> QED
            BY <6>1
        <5>2. r[i] = p[j] /\ r[i + 1] = p[j + 1]
          BY <3>13, <5>1
        <5> QED
          BY <3>9, <5>2
      <4> QED
        BY <4>1, <4>2
    <3>15. r[m + 1] = p[m] /\ Len(r) >= 1
      BY <3>8, <3>11, <3>13
    <3>16. Follows(r, id, store, k)
      BY <3>9, <3>10, <3>11, <3>12, <3>14, <3>15 DEF Follows
    <3>17. d[id] = r
      BY <2>2, <2>4, <3>1, <3>5 DEF DownFrom
    <3> QED
      BY <2>1, <3>16, <3>17
  <2> QED
    BY <2>3, <2>4
<1>2. Bad = {}
  <2>1. Bad \in SUBSET Nat
    BY Zenon
  <2> HIDE DEF Bad
  <2> QED
    BY <1>1, <2>1, SmallestNat
<1>3. \A id \in PageId : level[id] \in Nat
  OBVIOUS
<1> QED
  BY <1>2, <1>3, Zenon

LEMMA PathToFollows ==
    ASSUME NEW store, NEW k, NEW level \in [PageId -> Nat], RoutesDown(store, k, level),
           Root(store) \in PageId
    PROVE  Follows(PathTo(store, k), Root(store), store, k)
<1> DEFINE down == CHOOSE d : d = Down(d, store, k)
<1>1. down = Down(down, store, k)
  BY DownSolved, Zenon
<1>2. PathTo(store, k) = down[Root(store)]
  BY DEF PathTo, Down, DownFrom
<1> HIDE DEF down
<1> QED
  BY <1>1, <1>2, PathFollows

\* The pages of a path that follows the routes of k from the root are live, and
\* cover k unless it is lost.
LEMMA WayIsLive ==
    ASSUME NEW view, NEW live, NEW cover, NEW place, NEW root, NEW d, NEW lost,
           Good(view, live, cover, place, {root}, d, lost), NEW k \in Key,
           NEW path, Follows(path, root, view, k), NEW n \in Nat, n = Len(path)
    PROVE  \A i \in 1..n : path[i] \in live /\ (k \in lost \/ k \in cover[path[i]])
<1> DEFINE Ok(i) == path[i] \in live /\ (k \in lost \/ k \in cover[path[i]])
           Bad == {i \in 1..n : ~Ok(i)}
<1>1. ASSUME NEW i \in Bad, \A x \in Bad : i <= x PROVE FALSE
  <2>1. i \in 1..n /\ ~Ok(i)
    BY <1>1
  <2>2. CASE i = 1
    <3>1. path[i] = root
      BY <2>2 DEF Follows
    <3> QED
      BY <2>1, <3>1 DEF Good
  <2>3. CASE i # 1
    <3>1. PICK j \in 1..n : j = i - 1 /\ j + 1 = i /\ j \in 1..(n - 1) /\ ~(i <= j)
      <4>1. i - 1 \in 1..n /\ (i - 1) + 1 = i /\ i - 1 \in 1..(n - 1) /\ ~(i <= i - 1)
        BY <2>1, <2>3
      <4> QED
        BY <4>1
    <3>2. Ok(j)
      BY <1>1, <3>1, Zenon
    <3>3. IsInternal(view[path[j]]) /\ path[i] = Route(view[path[j]].entries, k)
      BY <3>1 DEF Follows
    <3>4. PICK x : x = path[j]
      OBVIOUS
    <3>5. PICK E : E = view[x].entries
      OBVIOUS
    <3>6. BranchAt(E, x, live, cover, place, {root}, lost)
      BY <3>2, <3>3, <3>4, <3>5 DEF Good, GoodPage
    <3>7. /\ Route(E, k) \in live \ {root}
          /\ k \in cover[x] => k \in cover[Route(E, k)] \/ k \in lost
      BY <3>6, RouteChild
    <3> QED
      BY <2>1, <3>2, <3>3, <3>4, <3>5, <3>7
  <2> QED
    BY <2>2, <2>3
<1>2. Bad = {}
  <2>1. Bad \in SUBSET Nat
    <3>1. \A i \in 1..n : i \in Nat
      OBVIOUS
    <3> QED
      BY <3>1, Zenon
  <2> HIDE DEF Bad
  <2> QED
    BY <1>1, <2>1, SmallestNat
<1> QED
  BY <1>2, Zenon

\* They are a way.
Passed(path) == {path[i] : i \in 1..Len(path)}

LEMMA FollowsWay ==
    ASSUME NEW view, NEW root, NEW k, NEW path, Follows(path, root, view, k),
           IsLeaf(view[Last(path)])
    PROVE  Way(Passed(path), root, Last(path), view, k)
<1>1. PICK n \in Nat : n = Len(path) /\ n >= 1 /\ path \in Seq(PageId)
  BY LenProperties DEF Follows
<1>2. Last(path) = path[n]
  BY <1>1 DEF Last
<1>3. \A i \in 1..(n - 1) : IsInternal(view[path[i]]) /\ path[i + 1] = Route(view[path[i]].entries, k)
  BY <1>1 DEF Follows
<1>4. \A i \in 1..n : path[i] \in Passed(path)
  BY <1>1 DEF Passed
<1>5. \A x \in Passed(path) : \E i \in 1..n : x = path[i]
  BY <1>1 DEF Passed
<1>6. 1 \in 1..n /\ n \in 1..n /\ path[1] = root
  BY <1>1 DEF Follows
<1>7. ASSUME NEW i \in 1..n, i # n
      PROVE  IsInternal(view[path[i]]) /\ Route(view[path[i]].entries, k) \in Passed(path)
  <2>1. i \in 1..(n - 1) /\ i + 1 \in 1..n
    BY <1>1, <1>7
  <2> QED
    BY <1>3, <1>4, <2>1
<1>8. ASSUME NEW i \in 1..n, i # 1
      PROVE  \E y \in Passed(path) : IsInternal(view[y]) /\ path[i] = Route(view[y].entries, k)
  <2>1. PICK j \in 1..(n - 1) : j + 1 = i /\ j \in 1..n
    <3>1. i - 1 \in 1..(n - 1) /\ (i - 1) + 1 = i /\ i - 1 \in 1..n
      BY <1>1, <1>8
    <3> QED
      BY <3>1
  <2> QED
    BY <1>3, <1>4, <2>1
<1>9. \A x \in Passed(path) : x = path[n] \/ (IsInternal(view[x]) /\ Route(view[x].entries, k) \in Passed(path))
  BY <1>5, <1>7
<1>10. \A x \in Passed(path) : x = root \/ \E y \in Passed(path) : IsInternal(view[y]) /\ x = Route(view[y].entries, k)
  BY <1>5, <1>6, <1>8
<1> QED
  BY <1>2, <1>4, <1>6, <1>9, <1>10 DEF Way

-----------------------------------------------------------------------------
(* The invariant: the pages in use, the keys each of them covers.          *)

\* Keys that get may miss: they are not set, or a call returned an error.
Lost == {k \in Key : dict[k] = None \/ errors > 0}

\* The pages, with the child that an insert is about to put in a parent.
View ==
    IF call.op = "insert" /\ call.path # <<>>
    THEN [pages EXCEPT ![Last(call.path)] =
             Internal(WithChild(pages[Last(call.path)].entries, call.sep, call.child))]
    ELSE pages

\* While the root is split and has no page above it, there are two.
Top == IF call.op = "insert" /\ call.path = <<>> THEN {Root(pages), call.child} ELSE {Root(pages)}

\* A path down from the root, along the routes of k.
Chain(path, k) ==
    /\ path # <<>> => path[1] = Root(pages)
    /\ \A i \in 1..(Len(path) - 1) : path[i + 1] = Route(pages[path[i]].entries, k)

\* The page that a delete found empty.
Emptied ==
    IF call.path = <<>> THEN Root(pages) ELSE Route(pages[Last(call.path)].entries, call.key)

InsertPending(live, cover) ==
    /\ \A i \in 1..Len(call.path) : call.path[i] \in live
    /\ call.path # <<>> => \E k \in Key : Chain(call.path, k)
    /\ call.path = <<>> =>
          /\ \A k \in cover[Root(pages)] : k < call.sep
          /\ \A k \in cover[call.child] : call.sep <= k
          /\ call.sep \in cover[call.child]
          /\ Root(pages) # call.child

DeletePending(live, cover) ==
    /\ \A i \in 1..Len(call.path) : call.path[i] \in live
    /\ Chain(call.path, call.key)
    /\ cover[Emptied] \subseteq Lost

MapAt(live, cover, place) ==
    /\ Good(View, live, cover, place, Top, dict, Lost)
    /\ call.op = "insert" => InsertPending(live, cover)
    /\ call.op = "delete" => DeletePending(live, cover)

MapInv ==
    /\ call.op = "closed" => pages[0] = Blank /\ dict = [k \in Key |-> None]
    /\ call.op # "closed" => \E live, cover, place : MapAt(live, cover, place)

LEMMA MapIdle ==
    ASSUME MapInv, call = Idle
    PROVE  \E live, cover, place : Good(pages, live, cover, place, {Root(pages)}, dict, Lost)
<1>1. call.op = "idle"
  BY DEF Idle
<1>2. View = pages /\ Top = {Root(pages)}
  BY <1>1 DEF View, Top
<1> QED
  BY <1>1, <1>2, Zenon DEF MapInv, MapAt

LEMMA IdleMap ==
    ASSUME call' = Idle, NEW live, NEW cover, NEW place, NEW view, view = pages',
           NEW root, root = Root(pages)', NEW d, d = dict', NEW lost, lost = Lost',
           Good(view, live, cover, place, {root}, d, lost)
    PROVE  MapInv'
<1>1. call'.op = "idle"
  BY DEF Idle
<1>2. View' = view /\ Top' = {root}
  BY <1>1 DEF View, Top
<1>3. Good(View', live, cover, place, Top', dict', Lost')
  BY <1>2
<1>4. MapAt(live, cover, place)'
  BY <1>1, <1>3, Zenon DEF MapAt
<1> QED
  BY <1>1, <1>4, Zenon DEF MapInv

LEMMA RootKept ==
    ASSUME pages'[0] = pages[0]
    PROVE  Root(pages)' = Root(pages)
BY IdFacts DEF Root

\* Live pages are nodes.
LEMMA LiveNodes ==
    ASSUME NEW level, TreeAt(level), NEW view, NEW live, NEW cover, NEW place, NEW top, NEW d, NEW lost,
           Good(view, live, cover, place, top, d, lost),
           \A x \in live : IsLeaf(view[x]) \/ IsInternal(view[x]) =>
                              IsLeaf(pages[x]) \/ IsInternal(pages[x])
    PROVE  live \subseteq Nodes /\ 0 \notin live /\ next_id \notin live
<1>1. TypeOK /\ RootIsNode
  BY DEF TreeAt
<1>2. ASSUME NEW x \in live PROVE x \in Nodes
  <2>1. IsLeaf(view[x]) \/ IsInternal(view[x])
    BY DEF Good, GoodPage
  <2>2. x \in PageId
    BY DEF Good
  <2> QED
    BY <1>1, <2>1, <2>2, NodeFacts
<1> QED
  BY <1>1, <1>2, NodeFacts

\* No page names itself.
LEMMA NotItsChild ==
    ASSUME NEW level, TreeAt(level), NEW id \in PageId, NEW E \in Seq(ChildEntry),
           OneAbove(E, level[id], level, Nodes)
    PROVE  \A j \in 1..Len(E) : E[j].child # id
<1>1. PICK h, nodes : h = level[id] /\ nodes = Nodes
  OBVIOUS
<1>2. OneAbove(E, h, level, nodes)
  BY <1>1
<1>3. \A j \in 1..Len(E) : h = level[E[j].child] + 1
  BY <1>2, OneAboveFacts
<1>4. h \in Nat
  BY <1>1 DEF TreeAt
<1>5. h # h + 1
  BY <1>4
<1> QED
  BY <1>1, <1>3, <1>5

\* What is lost when a key is set.
LEMMA LostSet ==
    ASSUME TypeOK, errors' = errors \/ errors' = errors + 1, NEW k \in Key, NEW v, Set(k, v)
    PROVE  /\ dict'[k] = v /\ \A x \in Key : x # k => dict'[x] = dict[x]
           /\ Lost \ {k} \subseteq Lost' /\ Lost' \subseteq Key
           /\ v = None => k \in Lost'
           /\ errors' = errors + 1 => Key \subseteq Lost'
<1>1. errors \in Nat
  BY BoundsAssumption DEF TypeOK
<1>2. (errors > 0 => errors' > 0) /\ (errors' = errors + 1 => errors' > 0)
  BY <1>1
<1>3. dict'[k] = v /\ \A x \in Key : x # k => dict'[x] = dict[x]
  BY DEF TypeOK, Set
<1> QED
  BY <1>2, <1>3 DEF Lost

LEMMA LostKept ==
    ASSUME TypeOK, errors' = errors \/ errors' = errors + 1, dict' = dict
    PROVE  /\ Lost \subseteq Lost' /\ Lost' \subseteq Key
           /\ errors' = errors => Lost' = Lost
           /\ errors' = errors + 1 => Key \subseteq Lost'
<1>1. errors \in Nat
  BY BoundsAssumption DEF TypeOK
<1>2. (errors > 0 => errors' > 0) /\ (errors' = errors + 1 => errors' > 0)
  BY <1>1
<1> QED
  BY <1>2 DEF Lost

\* A descent to the leaf that covers k, with the pages it passed.
Reached(live, cover, place, path, k) ==
    /\ Good(pages, live, cover, place, {Root(pages)}, dict, Lost)
    /\ Claimed(pages, live, cover, Root(pages), Last(path), k)
    /\ \A i \in 1..Len(path) : path[i] \in live
    /\ Follows(path, Root(pages), pages, k)

LEMMA PathReaches ==
    ASSUME NEW level, TreeAt(level), call = Idle, NEW k \in Key
    PROVE  /\ Follows(PathTo(pages, k), Root(pages), pages, k)
           /\ Root(pages) \in PageId
<1>1. level \in [PageId -> Nat] /\ call.op # "closed"
  BY DEF TreeAt, Idle
<1>2. Root(pages) \in PageId
  BY <1>1, NodeFacts DEF TreeAt
<1>3. RoutesDown(pages, k, level)
  BY TreeRoutesDown
<1> QED
  BY <1>1, <1>2, <1>3, PathToFollows

LEMMA DescentReaches ==
    ASSUME NEW level, TreeAt(level), MapInv, call = Idle, NEW k \in Key, NEW path \in Descent(k)
    PROVE  \E live, cover, place : Reached(live, cover, place, path, k)
<1>1. path = PathTo(pages, k) /\ IsLeaf(pages[Last(path)])
  BY DEF Descent
<1>2. PICK root, view, d, lost : root = Root(pages) /\ view = pages /\ d = dict /\ lost = Lost
  OBVIOUS
<1>3. PICK live, cover, place : Good(view, live, cover, place, {root}, d, lost)
  BY <1>2, MapIdle
<1>4. Follows(path, root, view, k)
  BY <1>1, <1>2, PathReaches
<1>5. PICK n \in Nat : n = Len(path) /\ n >= 1
  BY <1>4, LenProperties DEF Follows
<1>6. \A i \in 1..n : path[i] \in live /\ (k \in lost \/ k \in cover[path[i]])
  BY <1>3, <1>4, <1>5, WayIsLive
<1>7. PICK On : On = Passed(path)
  OBVIOUS
<1>8. On \in SUBSET live /\ \A i \in 1..n : path[i] \in On
  BY <1>5, <1>6, <1>7 DEF Passed
<1>9. PICK L : L = Last(path)
  OBVIOUS
<1>10. L = path[n] /\ n \in 1..n
  BY <1>5, <1>9 DEF Last
<1>11. Way(On, root, L, view, k)
  BY <1>1, <1>2, <1>4, <1>7, <1>9, FollowsWay
<1>12. k \in lost \/ k \in cover[L]
  BY <1>6, <1>10
<1>13. PICK live2, cover2 : live2 = Owners(live, cover, On, k) /\ cover2 = Owned(cover, On, k)
  OBVIOUS
<1>14. /\ Good(view, live2, cover2, place, {root}, d, lost)
       /\ Claimed(view, live2, cover2, root, L, k)
       /\ On \subseteq live2
  BY <1>3, <1>8, <1>11, <1>12, <1>13, Claim
<1>15. Reached(live2, cover2, place, path, k)
  BY <1>2, <1>4, <1>5, <1>8, <1>9, <1>14 DEF Reached
<1> QED
  BY <1>15

-----------------------------------------------------------------------------
(* Steps in a leaf.                                                        *)

\* The leaf that a descent reached.
LEMMA ReachedLeaf ==
    ASSUME NEW level, TreeAt(level), NEW live, NEW cover, NEW place, NEW path, NEW k \in Key,
           Reached(live, cover, place, path, k), NEW id, id = Last(path)
    PROVE  /\ id \in live /\ k \in cover[id] /\ cover[id] \in SUBSET Key /\ live \subseteq PageId
           /\ HoldsAt(pages[id].entries, cover[id], dict, Lost)
           /\ live \subseteq Nodes /\ 0 \notin live /\ next_id \notin live
           /\ id # 0 /\ id # next_id
<1>1. PICK root, view, d, lost : root = Root(pages) /\ view = pages /\ d = dict /\ lost = Lost
  OBVIOUS
<1>2. Good(view, live, cover, place, {root}, d, lost) /\ Claimed(view, live, cover, root, id, k)
  BY <1>1 DEF Reached
<1>3. id \in live /\ k \in cover[id] /\ IsLeaf(view[id])
  BY <1>2 DEF Claimed
<1>4. live \subseteq PageId /\ cover[id] \in SUBSET Key
  BY <1>2, <1>3 DEF Good
<1>5. HoldsAt(view[id].entries, cover[id], d, lost)
  BY <1>2, <1>3 DEF Good, GoodPage
<1>6. live \subseteq Nodes /\ 0 \notin live /\ next_id \notin live
  BY <1>1, <1>2, LiveNodes
<1> QED
  BY <1>1, <1>3, <1>4, <1>5, <1>6

LEMMA LeafGood ==
    ASSUME NEW live, NEW cover, NEW place, NEW path, NEW k \in Key,
           Reached(live, cover, place, path, k), NEW id, id = Last(path),
           NEW root, root = Root(pages), NEW view2, NEW d2, NEW lost2,
           \A x \in live \ {id} : view2[x] = pages[x],
           IsLeaf(view2[id]), ~IsInternal(view2[id]),
           HoldsAt(view2[id].entries, cover[id], d2, lost2),
           \A x \in Key : x # k => d2[x] = dict[x], Lost \ {k} \subseteq lost2
    PROVE  Good(view2, live, cover, place, {root}, d2, lost2)
<1>1. PICK view, d, lost : view = pages /\ d = dict /\ lost = Lost
  OBVIOUS
<1>2. Good(view, live, cover, place, {root}, d, lost) /\ Claimed(view, live, cover, root, id, k)
  BY <1>1 DEF Reached
<1>3. /\ \A x \in live \ {id} : view2[x] = view[x]
      /\ \A x \in Key : x # k => d2[x] = d[x] /\ lost \ {k} \subseteq lost2
  BY <1>1
<1>4. lost \ {k} \subseteq lost2
  BY <1>1
<1> QED
  BY ONLY <1>2, <1>3, <1>4, LeafChange, k \in Key, IsLeaf(view2[id]), ~IsInternal(view2[id]),
     HoldsAt(view2[id].entries, cover[id], d2, lost2)

LEMMA InsertInLeafMap ==
    ASSUME TreeInv, MapInv, NEW k \in Key, NEW v \in Val, InsertInLeaf(k, v), Set(k, v)
    PROVE  MapInv'
<1>1. PICK level : TreeAt(level)
  BY TreeInvAt
<1>2. PICK path \in Descent(k) :
         /\ call = Idle
         /\ Rewrite(Last(path), Leaf(Upsert(pages[Last(path)].entries, k, v), pages[Last(path)].next))
         /\ UNCHANGED <<next_id, call, errors>>
  BY DEF InsertInLeaf
<1>3. PICK id, E, next : id = Last(path) /\ E = pages[id].entries /\ next = pages[id].next
  OBVIOUS
<1>4. PICK live, cover, place : Reached(live, cover, place, path, k)
  BY <1>1, <1>2, DescentReaches
<1>5. /\ id \in live /\ k \in cover[id] /\ cover[id] \in SUBSET Key /\ live \subseteq PageId
      /\ HoldsAt(E, cover[id], dict, Lost) /\ 0 \notin live /\ id # 0
  BY <1>1, <1>3, <1>4, ReachedLeaf
<1>6. PICK U : U = Upsert(E, k, v)
  OBVIOUS
<1>7. E \in Seq(LeafEntry) /\ next \in PageId \cup {NoSlot}
  BY <1>1, <1>2, <1>3, DescentFacts
<1>8. U \in Seq(LeafEntry)
  BY <1>6, <1>7, UpsertFacts
<1>9. PICK p : p = Leaf(U, next)
  OBVIOUS
<1>10. p \in Page /\ IsLeaf(p) /\ ~IsInternal(p) /\ p.entries = U
  BY <1>7, <1>8, <1>9, LeafFacts
<1>11. Rewrite(id, p) /\ call' = Idle /\ errors' = errors
  BY <1>2, <1>3, <1>6, <1>9
<1>12. pages'[id] = p /\ \A x \in PageId \ {id} : pages'[x] = pages[x]
  BY <1>1, <1>5, <1>10, <1>11, RewriteFacts DEF TreeAt
<1>13. PICK view2, d2, lost2, root, d, lost :
          /\ view2 = pages' /\ d2 = dict' /\ lost2 = Lost' /\ root = Root(pages)
          /\ d = dict /\ lost = Lost
  OBVIOUS
<1>14. d2[k] = v /\ (\A x \in Key : x # k => d2[x] = d[x]) /\ lost \ {k} \subseteq lost2
  BY <1>1, <1>11, <1>13, LostSet DEF TreeAt
<1>15. HoldsAt(U, cover[id], d2, lost2)
  <2>1. HoldsAt(E, cover[id], d, lost)
    BY <1>5, <1>13
  <2> QED
    BY ONLY <1>5, <1>6, <1>14, <2>1, HoldsSet, v \in Val
<1>16. Good(view2, live, cover, place, {root}, d2, lost2)
  <2>1. /\ \A x \in live \ {id} : view2[x] = pages[x]
        /\ IsLeaf(view2[id]) /\ ~IsInternal(view2[id])
        /\ HoldsAt(view2[id].entries, cover[id], d2, lost2)
        /\ \A x \in Key : x # k => d2[x] = dict[x]
        /\ Lost \ {k} \subseteq lost2
    BY <1>5, <1>10, <1>12, <1>13, <1>14, <1>15
  <2> QED
    BY <1>3, <1>4, <1>13, <2>1, LeafGood
<1>17. root = Root(pages)'
  BY <1>5, <1>12, <1>13, IdFacts, RootKept
<1> QED
  BY <1>11, <1>13, <1>16, <1>17, IdleMap

-----------------------------------------------------------------------------
(* The way back up.                                                        *)

LEMMA FollowsChain ==
    ASSUME NEW path, NEW k, Follows(path, Root(pages), pages, k)
    PROVE  path \in Seq(PageId) /\ path # <<>> /\ Chain(path, k)
<1>1. path \in Seq(PageId) /\ Len(path) >= 1 /\ path[1] = Root(pages)
  BY DEF Follows
<1>2. path # <<>>
  BY <1>1, EmptySeq
<1> QED
  BY <1>1, <1>2 DEF Follows, Chain

LEMMA FrontChain ==
    ASSUME NEW path \in Seq(PageId), path # <<>>, NEW k, Chain(path, k), NEW up, up = Front(path)
    PROVE  /\ up \in Seq(PageId) /\ Chain(up, k)
           /\ up = <<>> => Last(path) = Root(pages)
           /\ up # <<>> => Last(path) = Route(pages[Last(up)].entries, k)
           /\ \A i \in 1..Len(up) : i \in 1..Len(path) /\ up[i] = path[i]
<1>1. PICK n \in Nat : n = Len(path) /\ n >= 1
  BY FrontFacts
<1>2. /\ Last(path) = path[n] /\ up \in Seq(PageId) /\ Len(up) = n - 1
      /\ \A i \in 1..(n - 1) : up[i] = path[i]
  BY <1>1, FrontFacts
<1>3. path[1] = Root(pages) /\ \A i \in 1..(n - 1) : path[i + 1] = Route(pages[path[i]].entries, k)
  BY <1>1 DEF Chain
<1>4. \A i \in 1..Len(up) : i \in 1..Len(path) /\ up[i] = path[i]
  BY <1>1, <1>2
<1>5. CASE up = <<>>
  <2>1. Len(up) = 0
    BY <1>5, EmptySeq
  <2>2. n = 1
    <3>1. n - 1 = 0
      BY <1>2, <2>1
    <3> QED
      BY ONLY <3>1, n \in Nat
  <2>3. Last(path) = Root(pages)
    BY <1>2, <1>3, <2>2
  <2>4. \A i \in 1..(Len(up) - 1) : FALSE
    BY <2>1
  <2>5. Chain(up, k)
    BY <1>5, <2>4 DEF Chain
  <2> QED
    BY <1>2, <1>4, <1>5, <2>3, <2>5
<1>6. CASE up # <<>>
  <2>1. Len(up) # 0
    BY <1>2, <1>6, EmptySeq
  <2>2. n - 1 \in 1..(n - 1) /\ (n - 1) + 1 = n /\ 1 \in 1..(n - 1)
    BY <1>1, <1>2, <2>1
  <2>3. Last(up) = path[n - 1]
    BY <1>2, <2>2 DEF Last
  <2>4. Last(path) = Route(pages[Last(up)].entries, k)
    BY <1>2, <1>3, <2>2, <2>3
  <2>5. up[1] = Root(pages)
    BY <1>2, <1>3, <2>2
  <2>6. ASSUME NEW i \in 1..(Len(up) - 1) PROVE up[i + 1] = Route(pages[up[i]].entries, k)
    <3>1. i \in 1..(n - 1) /\ i + 1 \in 1..(n - 1)
      BY <1>1, <1>2, <2>6
    <3> QED
      BY <1>2, <1>3, <3>1
  <2>7. Chain(up, k)
    BY <2>5, <2>6 DEF Chain
  <2> QED
    BY <1>2, <1>4, <1>6, <2>4, <2>7
<1> QED
  BY <1>5, <1>6

\* A step that leaves the pages of a path alone.
LEMMA ChainKept ==
    ASSUME NEW path \in Seq(PageId), NEW k, Chain(path, k), Root(pages)' = Root(pages),
           \A i \in 1..Len(path) : pages'[path[i]] = pages[path[i]]
    PROVE  Chain(path, k)'
<1>1. PICK n \in Nat : n = Len(path)
  BY LenProperties
<1>2. \A i \in 1..(n - 1) : i \in 1..n
  BY <1>1
<1>3. \A i \in 1..(Len(path) - 1) : path[i + 1] = Route(pages'[path[i]].entries, k)
  BY <1>1, <1>2 DEF Chain
<1> QED
  BY <1>3 DEF Chain

LEMMA DeleteFromLeafMap ==
    ASSUME TreeInv, MapInv, NEW k \in Key, DeleteFromLeaf(k), Set(k, None)
    PROVE  MapInv'
<1>1. PICK level : TreeAt(level)
  BY TreeInvAt
<1>2. PICK path \in Descent(k) :
         LET id == Last(path)
             entries == RemoveAt(pages[id].entries, Position(pages[id].entries, k))
         IN  /\ call = Idle
             /\ Found(pages[id].entries, k)
             /\ Rewrite(id, Leaf(entries, pages[id].next))
             /\ call' = AfterDelete(Front(path), entries, k)
             /\ UNCHANGED <<next_id, errors>>
  BY DEF DeleteFromLeaf
<1>3. PICK id, E, next : id = Last(path) /\ E = pages[id].entries /\ next = pages[id].next
  OBVIOUS
<1>c. call = Idle /\ Found(E, k) /\ errors' = errors
  BY <1>2, <1>3
<1>4. PICK live, cover, place : Reached(live, cover, place, path, k)
  BY <1>1, <1>c, DescentReaches
<1>5. /\ id \in live /\ k \in cover[id] /\ cover[id] \in SUBSET Key /\ live \subseteq PageId
      /\ HoldsAt(E, cover[id], dict, Lost) /\ 0 \notin live /\ id # 0
  BY <1>1, <1>3, <1>4, ReachedLeaf
<1>7. /\ E \in Seq(LeafEntry) /\ next \in PageId \cup {NoSlot} /\ id \in Nodes /\ IsLeaf(pages[id])
      /\ \A i \in 1..Len(Front(path)) : IsInternal(pages[Front(path)[i]])
  BY <1>1, <1>c, <1>3, DescentFacts
<1>8. PICK R \in Seq(LeafEntry) : R = RemoveAt(E, Position(E, k))
  BY <1>c, <1>7, DeletedFacts
<1>9. PICK p, up : p = Leaf(R, next) /\ up = Front(path)
  OBVIOUS
<1>10. p \in Page /\ IsLeaf(p) /\ ~IsInternal(p) /\ p.entries = R
  BY <1>7, <1>8, <1>9, LeafFacts
<1>11. Rewrite(id, p) /\ call' = AfterDelete(up, R, k)
  BY <1>2, <1>3, <1>8, <1>9
<1>12. pages'[id] = p /\ \A x \in PageId \ {id} : pages'[x] = pages[x]
  BY <1>1, <1>5, <1>10, <1>11, RewriteFacts DEF TreeAt
<1>13. PICK view2, d2, lost2, root, d, lost :
          /\ view2 = pages' /\ d2 = dict' /\ lost2 = Lost' /\ root = Root(pages)
          /\ d = dict /\ lost = Lost
  OBVIOUS
<1>14. (\A x \in Key : x # k => d2[x] = d[x]) /\ lost \ {k} \subseteq lost2 /\ k \in lost2
  BY <1>1, <1>c, <1>13, LostSet DEF TreeAt
<1>15. HoldsAt(R, cover[id], d2, lost2)
  <2>1. HoldsAt(E, cover[id], d, lost)
    BY <1>5, <1>13
  <2>2. lost \cup {k} \subseteq lost2
    BY <1>14
  <2> QED
    BY ONLY <1>5, <1>8, <1>c, <1>14, <2>1, <2>2, HoldsRemoved, k \in Key
<1>16. Good(view2, live, cover, place, {root}, d2, lost2)
  <2>1. /\ \A x \in live \ {id} : view2[x] = pages[x]
        /\ IsLeaf(view2[id]) /\ ~IsInternal(view2[id])
        /\ HoldsAt(view2[id].entries, cover[id], d2, lost2)
        /\ \A x \in Key : x # k => d2[x] = dict[x]
        /\ Lost \ {k} \subseteq lost2
    BY <1>5, <1>10, <1>12, <1>13, <1>14, <1>15
  <2> QED
    BY <1>3, <1>4, <1>13, <2>1, LeafGood
<1>17. root = Root(pages)'
  BY <1>5, <1>12, <1>13, IdFacts, RootKept
<1>18. CASE call' = Idle
  BY <1>13, <1>16, <1>17, <1>18, IdleMap
<1>19. CASE call' # Idle
  <2>1. R = <<>> /\ up # <<>> /\ call' = [op |-> "delete", path |-> up, key |-> k]
    BY <1>11, <1>19 DEF AfterDelete, Unlinking
  <2>2. call'.op = "delete" /\ call'.path = up /\ call'.key = k
    BY <2>1
  <2>3. path \in Seq(PageId) /\ path # <<>> /\ Chain(path, k) /\ \A i \in 1..Len(path) : path[i] \in live
    BY <1>4, FollowsChain DEF Reached
  <2>4. /\ up \in Seq(PageId) /\ Chain(up, k)
        /\ id = Route(pages[Last(up)].entries, k)
        /\ \A i \in 1..Len(up) : i \in 1..Len(path) /\ up[i] = path[i]
    BY <1>3, <1>9, <2>1, <2>3, FrontChain
  <2>5. \A i \in 1..Len(up) : up[i] \in live /\ IsInternal(pages[up[i]])
    BY <1>7, <1>9, <2>3, <2>4
  <2>6. ~IsInternal(pages[id])
    BY <1>1, <1>5, <1>7, PageFacts DEF TreeAt, TypeOK
  <2>7. \A i \in 1..Len(up) : pages'[up[i]] = pages[up[i]]
    BY <1>5, <1>12, <2>5, <2>6
  <2>8. Chain(up, k)'
    BY <1>13, <1>17, <2>4, <2>7, ChainKept
  <2>9. Len(up) \in 1..Len(up) /\ Last(up) = up[Len(up)]
    BY <2>1, <2>4, FrontFacts
  <2>10. Emptied' = id
    BY <2>1, <2>2, <2>4, <2>7, <2>9 DEF Emptied
  <2>11. cover[id] \subseteq lost2
    <3>1. \A i \in 1..Len(R) : FALSE
      BY <2>1, EmptySeq
    <3> QED
      BY <1>15, <3>1 DEF HoldsAt
  <2>12. DeletePending(live, cover)'
    <3>1. \A i \in 1..Len(call'.path) : call'.path[i] \in live
      BY <2>2, <2>5
    <3>2. Chain(call.path, call.key)'
      BY <2>2, <2>8 DEF Chain
    <3>3. cover[Emptied'] \subseteq Lost'
      BY <1>13, <2>10, <2>11
    <3> QED
      BY <3>1, <3>2, <3>3, Zenon DEF DeletePending
  <2>13. View' = view2 /\ Top' = {root}
    BY <1>13, <1>17, <2>2 DEF View, Top
  <2>14. Good(View', live, cover, place, Top', dict', Lost')
    BY <1>13, <1>16, <2>13
  <2>15. call'.op # "insert" /\ call'.op # "closed"
    BY <2>2
  <2>16. MapAt(live, cover, place)'
    BY <2>12, <2>14, <2>15, Zenon DEF MapAt
  <2> QED
    BY <2>15, <2>16, Zenon DEF MapInv
<1> QED
  BY <1>18, <1>19

-----------------------------------------------------------------------------
(* Splits.                                                                 *)

\* A page under a parent was divided, and the parent is to be told.
DividedUnder(view, live, cover, place, top, d, lost, up, k, P, E, id, new, sep,
             live2, cover2, place2) ==
    /\ Good(view, live, cover, place, top, d, lost)
    /\ top = {Root(pages)'} /\ d = dict' /\ lost = Lost' /\ pages' \in [PageId -> Page]
    /\ up \in Seq(PageId) /\ up # <<>> /\ k \in Key /\ Chain(up, k)'
    /\ \A i \in 1..Len(up) : up[i] \in live
    /\ id \in live /\ new \in PageId \ live /\ sep \in cover[id]
    /\ Below(cover[id], sep) # {} /\ call' = Ascending(up, sep, new)
    /\ P = Last(up) /\ P # id /\ IsInternal(view[P])
    /\ E = view[P].entries /\ id = Route(E, k) /\ \A j \in 1..Len(E) : E[j].child # P
    /\ live2 = live \cup {new} /\ cover2 = Divided(cover, id, new, sep)
    /\ place2[new] = P /\ \A c \in live : place[c] # id => place2[c] = place[c]
    /\ \A x \in live \ {id} : pages'[x] = view[x]
    /\ GoodPage(pages'[id], id, live2, cover2, place2, top, d, lost)
    /\ GoodPage(pages'[new], new, live2, cover2, place2, top, d, lost)

LEMMA SplitUnderMap ==
    ASSUME NEW view, NEW live, NEW cover, NEW place, NEW top, NEW d, NEW lost, NEW up, NEW k, NEW P,
           NEW E, NEW id, NEW new, NEW sep, NEW live2, NEW cover2, NEW place2,
           DividedUnder(view, live, cover, place, top, d, lost, up, k, P, E, id, new, sep,
                        live2, cover2, place2)
    PROVE  MapInv'
<1> USE DEF DividedUnder
<1>1. P \in live \ {id} /\ P \in PageId /\ id # new /\ P # new /\ live \subseteq PageId
  <2>1. Len(up) \in 1..Len(up) /\ Last(up) = up[Len(up)]
    BY FrontFacts
  <2> QED
    BY <2>1 DEF Good
<1>2. PICK r \in 1..Len(E) : E[r].child = id
  <2>1. BranchAt(E, P, live, cover, place, top, lost)
    BY <1>1 DEF Good, GoodPage
  <2>2. Separated(E)
    BY <2>1 DEF BranchAt
  <2> QED
    BY <2>2, RouteIs
<1>3. /\ call'.op = "insert" /\ call'.path = up /\ call'.sep = sep /\ call'.child = new
  BY DEF Ascending
<1>4. PICK view2 : view2 = View'
  OBVIOUS
<1>5. view2 = [pages' EXCEPT ![P] = Internal(WithChild(pages'[P].entries, sep, new))]
  BY <1>3, <1>4 DEF View
<1>6. /\ \A x \in PageId \ {P} : view2[x] = pages'[x]
      /\ view2[P] = Internal(WithChild(E, sep, new))
  BY <1>1, <1>5
<1>7. IsInternal(view2[P]) /\ ~IsLeaf(view2[P]) /\ view2[P].entries = WithChild(E, sep, new)
  BY <1>6 DEF Internal, IsInternal, IsLeaf
<1>8. \A x \in live \ {id, P} : view2[x] = view[x]
  BY <1>1, <1>6
<1>9. /\ GoodPage(view2[id], id, live2, cover2, place2, top, d, lost)
      /\ GoodPage(view2[new], new, live2, cover2, place2, top, d, lost)
  BY <1>1, <1>6
<1>11. Good(view2, live2, cover2, place2, top, d, lost)
  <2>1. /\ Good(view, live, cover, place, top, d, lost)
        /\ GoodPage(view2[id], id, live2, cover2, place2, top, d, lost)
        /\ GoodPage(view2[new], new, live2, cover2, place2, top, d, lost)
    BY <1>9
  <2>2. /\ id \in live /\ new \in PageId \ live /\ sep \in cover[id] /\ Below(cover[id], sep) # {}
        /\ P \in live \ {id} /\ IsInternal(view[P]) /\ E = view[P].entries
        /\ r \in 1..Len(E) /\ E[r].child = id /\ \A j \in 1..Len(E) : E[j].child # P
    BY <1>1, <1>2
  <2>3. /\ live2 = live \cup {new} /\ cover2 = Divided(cover, id, new, sep)
        /\ place2[new] = P /\ \A c \in live : place[c] # id => place2[c] = place[c]
    OBVIOUS
  <2> QED
    BY ONLY <1>7, <1>8, <2>1, <2>2, <2>3, SplitUnder
<1>12. Top' = top
  BY <1>3 DEF Top
<1>13. Good(View', live2, cover2, place2, Top', dict', Lost')
  BY <1>4, <1>11, <1>12
<1>14. InsertPending(live2, cover2)'
  <2>1. \A i \in 1..Len(call'.path) : call'.path[i] \in live2
    BY <1>3
  <2>2. \E x \in Key : Chain(call.path, x)'
    BY <1>3 DEF Chain
  <2>3. call'.path # <<>>
    BY <1>3
  <2> QED
    BY <2>1, <2>2, <2>3, Zenon DEF InsertPending
<1>15. call'.op # "delete" /\ call'.op # "closed"
  BY <1>3
<1>16. MapAt(live2, cover2, place2)'
  BY <1>13, <1>14, <1>15, Zenon DEF MapAt
<1> QED
  BY <1>15, <1>16, Zenon DEF MapInv

\* The root was divided.
DividedTop(view, live, cover, place, top, d, lost, id, new, sep, live2, cover2, place2, top2) ==
    /\ top = {id} /\ Good(view, live, cover, place, top, d, lost)
    /\ id = Root(pages)' /\ d = dict' /\ lost = Lost'
    /\ new \in PageId \ live /\ sep \in cover[id]
    /\ Below(cover[id], sep) # {} /\ call' = Ascending(<<>>, sep, new)
    /\ top2 = {id, new} /\ live2 = live \cup {new} /\ cover2 = Divided(cover, id, new, sep)
    /\ \A c \in live : place[c] # id => place2[c] = place[c]
    /\ \A x \in live \ {id} : pages'[x] = view[x]
    /\ GoodPage(pages'[id], id, live2, cover2, place2, top2, d, lost)
    /\ GoodPage(pages'[new], new, live2, cover2, place2, top2, d, lost)

LEMMA SplitTopMap ==
    ASSUME NEW view, NEW live, NEW cover, NEW place, NEW top, NEW d, NEW lost, NEW id, NEW new,
           NEW sep, NEW live2, NEW cover2, NEW place2, NEW top2,
           DividedTop(view, live, cover, place, top, d, lost, id, new, sep,
                      live2, cover2, place2, top2)
    PROVE  MapInv'
<1> USE DEF DividedTop
<1>1. id \in live /\ id # new
  BY DEF Good
<1>2. call'.op = "insert" /\ call'.path = <<>> /\ call'.sep = sep /\ call'.child = new
  BY DEF Ascending
<1>3. PICK view2 : view2 = pages'
  OBVIOUS
<1>4. /\ \A x \in live \ {id} : view2[x] = view[x]
      /\ GoodPage(view2[id], id, live2, cover2, place2, top2, d, lost)
      /\ GoodPage(view2[new], new, live2, cover2, place2, top2, d, lost)
  BY <1>3
<1>5. /\ Good(view2, live2, cover2, place2, top2, d, lost)
      /\ Parted(cover2, id, new, sep)
  <2>0. top = {id} /\ top2 = {id, new}
    OBVIOUS
  <2>1. /\ Good(view, live, cover, place, top, d, lost)
        /\ GoodPage(view2[id], id, live2, cover2, place2, top2, d, lost)
        /\ GoodPage(view2[new], new, live2, cover2, place2, top2, d, lost)
        /\ \A x \in live \ {id} : view2[x] = view[x]
        /\ new \in PageId \ live /\ sep \in cover[id] /\ Below(cover[id], sep) # {}
        /\ live2 = live \cup {new} /\ cover2 = Divided(cover, id, new, sep)
        /\ \A c \in live : place[c] # id => place2[c] = place[c]
    BY <1>4
  <2>2. /\ Good(view2, live2, cover2, place2, top2, d, lost)
        /\ Parted(cover2, id, new, sep)
    BY ONLY <2>0, <2>1, SplitTop
  <2> QED
    BY <2>2
<1>6. View' = view2 /\ Top' = top2
  BY <1>2, <1>3 DEF View, Top
<1>7. Good(View', live2, cover2, place2, Top', dict', Lost')
  BY <1>5, <1>6
<1>8. InsertPending(live2, cover2)'
  <2>1. \A i \in 1..Len(call'.path) : FALSE
    BY <1>2, EmptySeq
  <2>2. /\ \A k \in cover2[Root(pages)'] : k < call'.sep
        /\ \A k \in cover2[call'.child] : call'.sep <= k
        /\ call'.sep \in cover2[call'.child]
        /\ Root(pages)' # call'.child
    BY <1>1, <1>2, <1>5 DEF Parted
  <2> QED
    BY <1>2, <2>1, <2>2, Zenon DEF InsertPending
<1>9. call'.op # "delete" /\ call'.op # "closed"
  BY <1>2
<1>10. MapAt(live2, cover2, place2)'
  BY <1>7, <1>8, <1>9, Zenon DEF MapAt
<1> QED
  BY <1>9, <1>10, Zenon DEF MapInv

\* The parents of pages, with those of some and of a new one.
Placed(place, S, new, P) ==
    [x \in PageId |-> IF x = new THEN P ELSE IF x \in S THEN new ELSE place[x]]

LEMMA PlacedFacts ==
    ASSUME NEW place, NEW S, NEW new \in PageId, NEW P, NEW live, live \subseteq PageId, new \notin live,
           NEW place2, place2 = Placed(place, S, new, P)
    PROVE  /\ place2[new] = P
           /\ \A c \in live : c \in S => place2[c] = new
           /\ \A c \in live : c \notin S => place2[c] = place[c]
BY DEF Placed

\* The halves of a leaf that was too full.
LEMMA LeafHalves ==
    ASSUME NEW U \in Seq(LeafEntry), U # <<>>, NEW C \in SUBSET Key, NEW d, NEW lost,
           HoldsAt(U, C, d, lost), NEW left, NEW right, NEW sep,
           left = Halves(U).left, right = Halves(U).right, sep = right[1].key,
           ~Fits(U), Fits(right)
    PROVE  /\ HoldsAt(left, Below(C, sep), d, lost) /\ HoldsAt(right, From(C, sep), d, lost)
           /\ sep \in C /\ Below(C, sep) # {}
<1>1. right # U
  OBVIOUS
<1> QED
  BY <1>1, HoldsHalves

\* A leaf that an insert overfilled is divided.
LEMMA LeafDivided ==
    ASSUME NEW live, NEW cover, NEW place, NEW path, NEW k \in Key,
           NEW level, TreeAt(level), call = Idle,
           Reached(live, cover, place, path, k), path \in Descent(k),
           NEW id, id = Last(path), NEW up, up = Front(path), NEW n, n = next_id, n \in PageId,
           NEW U \in Seq(LeafEntry), U # <<>>, NEW d, NEW lost, d = dict', lost = Lost',
           HoldsAt(U, cover[id], d, lost),
           \A x \in Key : x # k => d[x] = dict[x], Lost \ {k} \subseteq lost,
           NEW left, NEW right, NEW sep,
           left = Halves(U).left, right = Halves(U).right, sep = right[1].key,
           ~Fits(U), Fits(right),
           pages' \in [PageId -> Page],
           IsLeaf(pages'[id]), ~IsInternal(pages'[id]), pages'[id].entries = left,
           IsLeaf(pages'[n]), ~IsInternal(pages'[n]), pages'[n].entries = right,
           \A x \in PageId \ {id, n} : pages'[x] = pages[x],
           call' = Ascending(up, sep, n)
    PROVE  MapInv'
<1>1. PICK root, next, page, view : /\ root = Root(pages) /\ next = pages[id].next
                                    /\ page = Leaf(U, next) /\ view = [pages EXCEPT ![id] = page]
  OBVIOUS
<1>2. /\ id \in live /\ k \in cover[id] /\ cover[id] \in SUBSET Key /\ live \subseteq PageId
      /\ 0 \notin live /\ id # 0 /\ n \notin live /\ id # n /\ id \in PageId
  BY ReachedLeaf
<1>3. pages \in [PageId -> Page]
  BY DEF TreeAt, TypeOK
<1>4. /\ id \in Nodes /\ IsLeaf(pages[id]) /\ next \in PageId \cup {NoSlot}
      /\ \A i \in 1..Len(up) : IsInternal(pages[up[i]])
  BY <1>1, DescentFacts
<1>5. IsLeaf(page) /\ ~IsInternal(page) /\ page.entries = U
  BY <1>1, <1>4, LeafFacts
<1>6. view[id] = page /\ \A x \in PageId \ {id} : view[x] = pages[x]
  BY <1>1, <1>2, <1>3
<1>7. Good(view, live, cover, place, {root}, d, lost)
  <2>0. /\ Reached(live, cover, place, path, k) /\ id = Last(path) /\ k \in Key
        /\ \A x \in Key : x # k => d[x] = dict[x]
        /\ Lost \ {k} \subseteq lost
    OBVIOUS
  <2>1. /\ \A x \in live \ {id} : view[x] = pages[x]
        /\ IsLeaf(view[id]) /\ ~IsInternal(view[id])
        /\ HoldsAt(view[id].entries, cover[id], d, lost)
    BY <1>2, <1>5, <1>6
  <2> QED
    BY ONLY <1>1, <2>0, <2>1, LeafGood
<1>8. PICK C : C = cover[id]
  OBVIOUS
<1>9. /\ HoldsAt(left, Below(C, sep), d, lost) /\ HoldsAt(right, From(C, sep), d, lost)
      /\ sep \in C /\ Below(C, sep) # {}
  <2>1. HoldsAt(U, C, d, lost) /\ C \in SUBSET Key
    BY <1>2, <1>8
  <2> QED
    BY <2>1, LeafHalves
<1>10. PICK cover2, live2, place2, P, S :
          /\ cover2 = Divided(cover, id, n, sep) /\ live2 = live \cup {n}
          /\ P = Last(up) /\ S = {} /\ place2 = Placed(place, S, n, P)
  OBVIOUS
<1>11. cover2[id] = Below(C, sep) /\ cover2[n] = From(C, sep)
  <2>1. PICK top : top = {root}
    OBVIOUS
  <2>2. Good(view, live, cover, place, top, d, lost)
    BY <1>7, <2>1
  <2>3. id \in live /\ n \in PageId \ live /\ sep \in cover[id] /\ Below(cover[id], sep) # {}
    BY <1>2, <1>8, <1>9
  <2> QED
    BY ONLY <1>8, <1>10, <2>2, <2>3, DividedFacts
<1>12. place2[n] = P /\ \A c \in live : place2[c] = place[c]
  <2>1. /\ place2[n] = P
        /\ \A c \in live : c \notin S => place2[c] = place[c]
    BY <1>2, <1>10 DEF Placed
  <2> QED
    BY <1>10, <2>1
<1>13. \A top : /\ GoodPage(pages'[id], id, live2, cover2, place2, top, d, lost)
                /\ GoodPage(pages'[n], n, live2, cover2, place2, top, d, lost)
  BY <1>9, <1>11 DEF GoodPage
<1>14. \A x \in live \ {id} : pages'[x] = view[x]
  BY <1>2, <1>6
<1>15. root = Root(pages)'
  <2>1. n # 0
    BY DEF TreeAt, TypeOK
  <2>2. pages'[0] = pages[0]
    BY <1>2, <2>1, IdFacts
  <2> QED
    BY <1>1, <2>2, RootKept
<1>16. path \in Seq(PageId) /\ path # <<>> /\ Chain(path, k) /\ \A i \in 1..Len(path) : path[i] \in live
  BY FollowsChain DEF Reached
<1>17. /\ up \in Seq(PageId) /\ Chain(up, k)
       /\ up = <<>> => id = root
       /\ up # <<>> => id = Route(pages[Last(up)].entries, k)
       /\ \A i \in 1..Len(up) : i \in 1..Len(path) /\ up[i] = path[i]
  BY <1>1, <1>16, FrontChain
<1>18. \A i \in 1..Len(up) : up[i] \in live /\ IsInternal(pages[up[i]])
  BY <1>4, <1>16, <1>17
<1>19. CASE up = <<>>
  <2>1. id = root /\ call' = Ascending(<<>>, sep, n)
    BY <1>17, <1>19
  <2>2. PICK top, top2 : top = {id} /\ top2 = {id, n}
    OBVIOUS
  <2>3. /\ Good(view, live, cover, place, top, d, lost) /\ id = Root(pages)'
        /\ d = dict' /\ lost = Lost'
        /\ n \in PageId \ live /\ sep \in cover[id] /\ Below(cover[id], sep) # {}
        /\ live2 = live \cup {n} /\ cover2 = Divided(cover, id, n, sep)
        /\ \A c \in live : place[c] # id => place2[c] = place[c]
        /\ GoodPage(pages'[id], id, live2, cover2, place2, top2, d, lost)
        /\ GoodPage(pages'[n], n, live2, cover2, place2, top2, d, lost)
    BY <1>2, <1>7, <1>8, <1>9, <1>10, <1>12, <1>13, <1>15, <2>1, <2>2
  <2> QED
    <3>1. DividedTop(view, live, cover, place, top, d, lost, id, n, sep, live2, cover2, place2, top2)
      BY ONLY <1>14, <2>1, <2>2, <2>3, Zenon DEF DividedTop
    <3> QED
      BY ONLY <3>1, SplitTopMap
<1>20. CASE up # <<>>
  <2>1. Len(up) \in 1..Len(up) /\ P = up[Len(up)]
    BY <1>10, <1>17, <1>20, FrontFacts
  <2>2. P \in live /\ IsInternal(pages[P]) /\ P \in PageId
    BY <1>2, <1>18, <2>1
  <2>3. P # id
    BY <1>2, <1>3, <1>4, <2>2, PageFacts
  <2>4. PICK E, h : E = pages[P].entries /\ h = level[P]
    OBVIOUS
  <2>5. view[P] = pages[P]
    BY <1>6, <2>2, <2>3
  <2>6. \A j \in 1..Len(E) : E[j].child # P
    BY <2>2, <2>4, InternalPage, NotItsChild
  <2>7. \A i \in 1..Len(up) : pages'[up[i]] = pages[up[i]]
    BY <1>2, <1>3, <1>4, <1>18, PageFacts
  <2>8. Chain(up, k)'
    BY <1>1, <1>15, <1>17, <2>7, ChainKept
  <2>9. /\ up # <<>> /\ n \in PageId \ live /\ sep \in cover[id] /\ Below(cover[id], sep) # {}
        /\ \A i \in 1..Len(up) : up[i] \in live
        /\ P = Last(up) /\ P # id /\ IsInternal(view[P]) /\ E = view[P].entries
        /\ id = Route(E, k)
    BY <1>2, <1>8, <1>9, <1>10, <1>17, <1>18, <1>20, <2>2, <2>3, <2>4, <2>5
  <2>t. PICK top : top = {Root(pages)'} /\ top = {root}
    BY <1>15
  <2>10. /\ Good(view, live, cover, place, top, d, lost)
         /\ GoodPage(pages'[id], id, live2, cover2, place2, top, d, lost)
         /\ GoodPage(pages'[n], n, live2, cover2, place2, top, d, lost)
         /\ \A c \in live : place[c] # id => place2[c] = place[c]
    BY <1>7, <1>12, <1>13, <2>t
  <2>11. /\ d = dict' /\ lost = Lost' /\ pages' \in [PageId -> Page] /\ k \in Key /\ id \in live
         /\ up \in Seq(PageId) /\ call' = Ascending(up, sep, n) /\ place2[n] = P
         /\ live2 = live \cup {n} /\ cover2 = Divided(cover, id, n, sep)
    BY <1>2, <1>10, <1>12, <1>17
  <2> QED
    <3>1. DividedUnder(view, live, cover, place, top, d, lost, up, k, P, E, id, n, sep,
                       live2, cover2, place2)
      BY ONLY <1>14, <2>t, <2>6, <2>8, <2>9, <2>10, <2>11, Zenon DEF DividedUnder
    <3> QED
      BY ONLY <3>1, SplitUnderMap
<1> QED
  BY <1>19, <1>20

LEMMA SplitLeafMap ==
    ASSUME TreeInv, MapInv, NEW k \in Key, NEW v \in Val, SplitLeaf(k, v), Set(k, v)
    PROVE  MapInv'
<1>1. PICK level : TreeAt(level)
  BY TreeInvAt
<1>2. PICK path \in Descent(k) :
         LET id == Last(path)
             entries == Upsert(pages[id].entries, k, v)
             halves == Halves(entries)
         IN  /\ call = Idle
             /\ ~Fits(entries) /\ Fits(halves.right)
             /\ Allocate
             /\ Linked(id, next_id, halves)
             /\ call' = Ascending(Front(path), halves.right[1].key, next_id)
             /\ UNCHANGED errors
  BY DEF SplitLeaf
<1>3. PICK id, n, up, E, next : /\ id = Last(path) /\ n = next_id /\ up = Front(path)
                                /\ E = pages[id].entries /\ next = pages[id].next
  OBVIOUS
<1>4. PICK U : U = Upsert(E, k, v)
  OBVIOUS
<1>5. PICK left, right, sep : left = Halves(U).left /\ right = Halves(U).right /\ sep = right[1].key
  OBVIOUS
<1>6. /\ call = Idle /\ Allocate /\ errors' = errors /\ ~Fits(U) /\ Fits(right)
      /\ RewriteBoth(id, Leaf(left, n), n, Leaf(right, next))
      /\ call' = Ascending(up, sep, n)
  BY <1>2, <1>3, <1>4, <1>5 DEF Linked
<1>7. PICK live, cover, place : Reached(live, cover, place, path, k)
  BY <1>1, <1>6, DescentReaches
<1>8. /\ id \in live /\ k \in cover[id] /\ cover[id] \in SUBSET Key /\ live \subseteq PageId
      /\ HoldsAt(E, cover[id], dict, Lost) /\ id # n /\ id \in PageId
  BY <1>1, <1>3, <1>7, ReachedLeaf
<1>9. E \in Seq(LeafEntry) /\ next \in PageId \cup {NoSlot}
  BY <1>1, <1>3, <1>6, DescentFacts
<1>10. U \in Seq(LeafEntry) /\ U # <<>>
  BY <1>4, <1>9, UpsertFacts
<1>11. left \in Seq(LeafEntry) /\ right \in Seq(LeafEntry)
  BY <1>5, <1>10, HalvesFacts
<1>12. n \in PageId
  BY <1>1, <1>3, <1>6, AllocateFacts DEF TreeAt
<1>13. PICK p, q : p = Leaf(left, n) /\ q = Leaf(right, next)
  OBVIOUS
<1>14. /\ p \in Page /\ IsLeaf(p) /\ ~IsInternal(p) /\ p.entries = left
       /\ q \in Page /\ IsLeaf(q) /\ ~IsInternal(q) /\ q.entries = right
  BY <1>9, <1>11, <1>12, <1>13, LeafFacts
<1>15. /\ pages' \in [PageId -> Page] /\ pages'[id] = p /\ pages'[n] = q
       /\ \A x \in PageId \ {id, n} : pages'[x] = pages[x]
  <2>1. RewriteBoth(id, p, n, q)
    BY <1>6, <1>13
  <2> QED
    BY <1>1, <1>8, <1>12, <1>14, <2>1, RewriteBothFacts DEF TreeAt
<1>16. PICK d2, lost2, d, lost : d2 = dict' /\ lost2 = Lost' /\ d = dict /\ lost = Lost
  OBVIOUS
<1>17. d2[k] = v /\ (\A x \in Key : x # k => d2[x] = d[x]) /\ lost \ {k} \subseteq lost2
  BY <1>1, <1>6, <1>16, LostSet DEF TreeAt
<1>18. HoldsAt(U, cover[id], d2, lost2)
  <2>1. HoldsAt(E, cover[id], d, lost)
    BY <1>8, <1>16
  <2> QED
    BY ONLY <1>8, <1>4, <1>17, <2>1, HoldsSet, v \in Val
<1>19. /\ \A x \in Key : x # k => d2[x] = dict[x]
       /\ Lost \ {k} \subseteq lost2
       /\ IsLeaf(pages'[id]) /\ ~IsInternal(pages'[id]) /\ pages'[id].entries = left
       /\ IsLeaf(pages'[n]) /\ ~IsInternal(pages'[n]) /\ pages'[n].entries = right
  BY <1>14, <1>15, <1>16, <1>17
<1> QED
  BY ONLY <1>1, <1>3, <1>5, <1>6, <1>7, <1>10, <1>12, <1>15, <1>16, <1>18, <1>19, k \in Key,
     path \in Descent(k), LeafDivided

\* The right half was refused: the left one is there, and nothing is promised.
LEMMA RightRefusedMap ==
    ASSUME TreeInv, MapInv, NEW k \in Key, NEW v \in Val, RightRefused(k, v), Set(k, v)
    PROVE  MapInv'
<1>1. PICK level : TreeAt(level)
  BY TreeInvAt
<1>2. PICK path \in Descent(k) :
         LET id == Last(path)
             halves == Halves(Upsert(pages[id].entries, k, v))
         IN  /\ call = Idle
             /\ Allocate
             /\ pages' = [pages EXCEPT ![next_id] = BareLeaf, ![id] = Leaf(halves.left, next_id)]
             /\ Error
  BY DEF RightRefused
<1>3. PICK id, n, E : id = Last(path) /\ n = next_id /\ E = pages[id].entries
  OBVIOUS
<1>4. PICK U : U = Upsert(E, k, v)
  OBVIOUS
<1>5. PICK left, sep : left = Halves(U).left /\ sep = Halves(U).right[1].key
  OBVIOUS
<1>6. /\ call = Idle /\ Allocate /\ Error
      /\ pages' = [pages EXCEPT ![n] = BareLeaf, ![id] = Leaf(left, n)]
  BY <1>2, <1>3, <1>4, <1>5
<1>7. PICK live, cover, place : Reached(live, cover, place, path, k)
  BY <1>1, <1>6, DescentReaches
<1>8. /\ id \in live /\ k \in cover[id] /\ cover[id] \in SUBSET Key /\ live \subseteq PageId
      /\ HoldsAt(E, cover[id], dict, Lost) /\ id # n /\ id # 0 /\ n \notin live
  BY <1>1, <1>3, <1>7, ReachedLeaf
<1>9. E \in Seq(LeafEntry)
  BY <1>1, <1>3, <1>6, DescentFacts
<1>10. U \in Seq(LeafEntry) /\ U # <<>>
  BY <1>4, <1>9, UpsertFacts
<1>11. left \in Seq(LeafEntry)
  BY <1>5, <1>10, HalvesFacts
<1>12. n \in PageId /\ n # 0
  BY <1>1, <1>3, <1>6, AllocateFacts DEF TreeAt
<1>13. PICK p, q : p = Leaf(left, n) /\ q = BareLeaf
  OBVIOUS
<1>14. p \in Page /\ IsLeaf(p) /\ ~IsInternal(p) /\ p.entries = left
  BY <1>11, <1>12, <1>13, LeafFacts
<1>15. pages'[id] = p /\ \A x \in PageId \ {id, n} : pages'[x] = pages[x]
  <2>1. pages' = [pages EXCEPT ![n] = q, ![id] = p] /\ pages \in [PageId -> Page]
    BY <1>1, <1>6, <1>13 DEF TreeAt, TypeOK
  <2> QED
    BY <1>8, <1>12, <2>1
<1>16. PICK view2, d2, lost2, root, d, lost :
          /\ view2 = pages' /\ d2 = dict' /\ lost2 = Lost' /\ root = Root(pages)
          /\ d = dict /\ lost = Lost
  OBVIOUS
<1>17. call' = Idle /\ errors' = errors + 1
  BY <1>6 DEF Error
<1>18. /\ d2[k] = v /\ (\A x \in Key : x # k => d2[x] = d[x]) /\ lost \ {k} \subseteq lost2
       /\ Key \subseteq lost2
  BY <1>1, <1>16, <1>17, LostSet DEF TreeAt
<1>19. HoldsAt(left, cover[id], d2, lost2)
  <2>1. HoldsAt(E, cover[id], d, lost)
    BY <1>8, <1>16
  <2>2. HoldsAt(U, cover[id], d2, lost2)
    BY ONLY <1>8, <1>4, <1>18, <2>1, HoldsSet, v \in Val
  <2>3. HoldsAt(left, Below(cover[id], sep), d2, lost2)
    BY ONLY <1>5, <1>8, <1>10, <2>2, HoldsHalves
  <2>4. Below(cover[id], sep) \subseteq cover[id] /\ cover[id] \subseteq lost2
    BY <1>8, <1>18 DEF Below
  <2> QED
    BY ONLY <2>3, <2>4, HoldsLess
<1>20. Good(view2, live, cover, place, {root}, d2, lost2)
  <2>1. /\ \A x \in live \ {id} : view2[x] = pages[x]
        /\ IsLeaf(view2[id]) /\ ~IsInternal(view2[id])
        /\ HoldsAt(view2[id].entries, cover[id], d2, lost2)
        /\ \A x \in Key : x # k => d2[x] = dict[x]
        /\ Lost \ {k} \subseteq lost2
    BY <1>8, <1>14, <1>15, <1>16, <1>18, <1>19
  <2> QED
    BY <1>3, <1>7, <1>16, <2>1, LeafGood
<1>21. root = Root(pages)'
  BY <1>8, <1>12, <1>15, <1>16, IdFacts, RootKept
<1> QED
  BY <1>16, <1>17, <1>20, <1>21, IdleMap

\* A call that gives up and leaves the pages of the tree as they were.
LEMMA GivesUpMap ==
    ASSUME NEW level, TreeAt(level), MapInv, call = Idle, Error, UNCHANGED dict,
           \A x \in PageId : x # next_id => pages'[x] = pages[x]
    PROVE  MapInv'
<1>1. PICK view, d, lost, root, view2, lost2 :
          /\ view = pages /\ d = dict /\ lost = Lost /\ root = Root(pages)
          /\ view2 = pages' /\ lost2 = Lost'
  OBVIOUS
<1>2. PICK live, cover, place : Good(view, live, cover, place, {root}, d, lost)
  BY <1>1, MapIdle
<1>3. 0 \notin live /\ next_id \notin live /\ live \subseteq PageId
  <2>1. live \subseteq PageId
    BY <1>2 DEF Good
  <2> QED
    BY <1>1, <1>2, <2>1, LiveNodes
<1>4. call' = Idle /\ errors' = errors + 1
  BY DEF Error
<1>5. lost \subseteq lost2 /\ Key \subseteq lost2
  BY <1>1, <1>4, LostKept DEF TreeAt
<1>6. PICK top : top = {root}
  OBVIOUS
<1>7. Good(view2, live, cover, place, top, d, lost2)
  <2>1. Good(view, live, cover, place, top, d, lost) /\ top \subseteq top
    BY <1>2, <1>6
  <2>2. /\ \A x \in live : view2[x] = view[x]
        /\ \A k \in Key : k \in lost2 \/ \E t \in top : k \in cover[t]
    BY <1>1, <1>3, <1>5
  <2> QED
    BY <1>5, <2>1, <2>2, GoodKept
<1>8. root = Root(pages)'
  <2>1. next_id # 0
    BY DEF TreeAt, TypeOK
  <2> QED
    BY <1>1, <2>1, IdFacts, RootKept
<1> QED
  BY <1>1, <1>4, <1>6, <1>7, <1>8, IdleMap

LEMMA LeftRefusedMap ==
    ASSUME TreeInv, MapInv, NEW k \in Key, NEW v \in Val, LeftRefused(k, v), UNCHANGED dict
    PROVE  MapInv'
<1>1. PICK level : TreeAt(level)
  BY TreeInvAt
<1>2. call = Idle /\ Rewrite(next_id, BareLeaf) /\ Error
  BY DEF LeftRefused
<1>3. \A x \in PageId : x # next_id => pages'[x] = pages[x]
  BY <1>1, <1>2 DEF Rewrite, TreeAt, TypeOK
<1> QED
  BY <1>1, <1>2, <1>3, GivesUpMap

LEMMA SplitFailsMap ==
    ASSUME TreeInv, MapInv, NEW k \in Key, NEW v \in Val, SplitFails(k, v), UNCHANGED dict
    PROVE  MapInv'
<1>1. PICK level : TreeAt(level)
  BY TreeInvAt
<1>2. call = Idle /\ Error /\ pages' = pages
  BY DEF SplitFails, IoError
<1> QED
  BY <1>1, <1>2, GivesUpMap

-----------------------------------------------------------------------------
(* Steps in a parent.                                                      *)

\* An insert in a parent that is to take the entries W.
Returned(live, cover, place, id, W, k) ==
    /\ Good(View, live, cover, place, {Root(pages)}, dict, Lost)
    /\ id \in live /\ View[id] = Internal(W) /\ W \in Seq(ChildEntry)
    /\ \A x \in PageId \ {id} : View[x] = pages[x]
    /\ live \subseteq PageId /\ 0 \notin live /\ next_id \notin live
    /\ k \in Key /\ Chain(call.path, k) /\ \A i \in 1..Len(call.path) : call.path[i] \in live

LEMMA Returns ==
    ASSUME NEW level, TreeAt(level), MapInv, call.op = "insert", call.path # <<>>,
           NEW id, id = Last(call.path),
           NEW W, W = WithChild(pages[id].entries, call.sep, call.child)
    PROVE  /\ \E live, cover, place, k : Returned(live, cover, place, id, W, k)
           /\ call.path \in Seq(PageId)
<1>1. PICK live, cover, place : MapAt(live, cover, place)
  BY DEF MapInv
<1>2. PICK view, top, d, lost : view = View /\ top = Top /\ d = dict /\ lost = Lost
  OBVIOUS
<1>3. Good(view, live, cover, place, top, d, lost) /\ InsertPending(live, cover)
  BY <1>1, <1>2 DEF MapAt
<1>4. PICK k \in Key : Chain(call.path, k)
  BY <1>3 DEF InsertPending
<1>5. \A i \in 1..Len(call.path) : call.path[i] \in live
  BY <1>3 DEF InsertPending
<1>6. call.path \in Seq(PageId) /\ pages \in [PageId -> Page]
  BY DEF TreeAt, TypeOK, Idle
<1>7. id \in PageId /\ IsInternal(pages[id]) /\ W \in Seq(ChildEntry)
  BY ParentFacts
<1>8. view[id] = Internal(W) /\ \A x \in PageId \ {id} : view[x] = pages[x]
  BY <1>2, <1>6, <1>7 DEF View
<1>9. id \in live
  <2>1. Len(call.path) \in 1..Len(call.path) /\ id = call.path[Len(call.path)]
    BY <1>6, FrontFacts
  <2> QED
    BY <1>5, <2>1
<1>10. live \subseteq PageId
  BY <1>3 DEF Good
<1>11. \A x \in live : IsLeaf(view[x]) \/ IsInternal(view[x]) =>
                          IsLeaf(pages[x]) \/ IsInternal(pages[x])
  BY <1>7, <1>8, <1>10
<1>12. 0 \notin live /\ next_id \notin live
  BY <1>3, <1>11, LiveNodes
<1>13. top = {Root(pages)}
  BY <1>2 DEF Top
<1>14. Good(View, live, cover, place, {Root(pages)}, dict, Lost)
  BY <1>2, <1>3, <1>13
<1>15. View[id] = Internal(W) /\ \A x \in PageId \ {id} : View[x] = pages[x]
  BY <1>2, <1>8
<1>16. Returned(live, cover, place, id, W, k)
  BY <1>4, <1>5, <1>7, <1>9, <1>10, <1>12, <1>14, <1>15, Zenon DEF Returned
<1> QED
  BY <1>6, <1>16

\* The entries that are to be there are good ones.
LEMMA ReturnedBranch ==
    ASSUME NEW live, NEW cover, NEW place, NEW id, NEW W, NEW k, Returned(live, cover, place, id, W, k),
           NEW view, view = View, NEW root, root = Root(pages), NEW d, d = dict, NEW lost, lost = Lost
    PROVE  /\ Good(view, live, cover, place, {root}, d, lost)
           /\ IsInternal(view[id]) /\ ~IsLeaf(view[id]) /\ view[id].entries = W
           /\ BranchAt(W, id, live, cover, place, {root}, lost)
           /\ \A x \in live \ {id} : view[x] = pages[x]
           /\ id \in live /\ live \subseteq PageId /\ cover[id] \in SUBSET Key /\ Separated(W)
<1>1. Good(view, live, cover, place, {root}, d, lost)
  BY DEF Returned
<1>2. /\ view[id] = Internal(W) /\ W \in Seq(ChildEntry) /\ id \in live /\ live \subseteq PageId
      /\ \A x \in live \ {id} : view[x] = pages[x]
  BY DEF Returned
<1>3. IsInternal(view[id]) /\ ~IsLeaf(view[id]) /\ view[id].entries = W
  BY <1>2, InternalFacts
<1>4. BranchAt(W, id, live, cover, place, {root}, lost)
  BY <1>1, <1>2, <1>3 DEF Good, GoodPage
<1>5. cover[id] \in SUBSET Key
  BY <1>1, <1>2 DEF Good
<1>6. Separated(W)
  BY <1>4 DEF BranchAt
<1> QED
  BY <1>1, <1>2, <1>3, <1>4, <1>5, <1>6

\* The parent keeps a part of them, and the insert returns an error.
LEMMA ParentCut ==
    ASSUME NEW level, TreeAt(level), NEW live, NEW cover, NEW place, NEW id, NEW W, NEW k,
           Returned(live, cover, place, id, W, k), NEW E, NEW g, Part(E, W, g),
           Error, UNCHANGED dict,
           IsInternal(pages'[id]), ~IsLeaf(pages'[id]), pages'[id].entries = E,
           \A x \in PageId \ {id} : pages'[x] = pages[x]
    PROVE  MapInv'
<1>1. PICK view, root, d, lost, view2, lost2, top :
         /\ view = View /\ root = Root(pages) /\ d = dict /\ lost = Lost
         /\ view2 = pages' /\ lost2 = Lost' /\ top = {root}
  OBVIOUS
<1>2. /\ Good(view, live, cover, place, {root}, d, lost)
      /\ BranchAt(W, id, live, cover, place, {root}, lost)
      /\ \A x \in live \ {id} : view[x] = pages[x]
      /\ id \in live /\ live \subseteq PageId /\ cover[id] \in SUBSET Key
  BY <1>1, ReturnedBranch
<1>3. call' = Idle /\ errors' = errors + 1
  BY DEF Error
<1>4. lost \subseteq lost2 /\ Key \subseteq lost2
  BY <1>1, <1>3, LostKept DEF TreeAt
<1>5. BranchAt(E, id, live, cover, place, top, lost2)
  <2>1. BranchAt(W, id, live, cover, place, top, lost) /\ cover[id] \subseteq lost2
    BY <1>1, <1>2, <1>4
  <2> QED
    BY <1>2, <1>4, <2>1, BranchLess
<1>6. GoodPage(view2[id], id, live, cover, place, top, d, lost2)
  BY <1>1, <1>5 DEF GoodPage
<1>7. Good(view2, live, cover, place, top, d, lost2)
  <2>1. Good(view, live, cover, place, top, d, lost) /\ \A x \in live \ {id} : view2[x] = view[x]
    BY <1>1, <1>2
  <2> QED
    BY <1>2, <1>4, <1>6, <2>1, PageReplaced
<1>8. root = Root(pages)'
  <2>1. id # 0
    BY DEF Returned
  <2> QED
    BY <1>1, <2>1, IdFacts, RootKept
<1> QED
  BY <1>1, <1>3, <1>7, <1>8, IdleMap

LEMMA AscendFailsMap ==
    ASSUME TreeInv, MapInv, AscendFails, UNCHANGED dict
    PROVE  MapInv'
<1>1. PICK level : TreeAt(level)
  BY TreeInvAt
<1>2. PICK id, W, left : /\ id = Last(call.path) /\ left = SplitAround(W).left
                         /\ W = WithChild(pages[id].entries, call.sep, call.child)
  OBVIOUS
<1>3. /\ call.op = "insert" /\ call.path # <<>> /\ Len(W) > MaxEntries /\ Error
      /\ pages' = [pages EXCEPT ![id] = Internal(left)]
  BY <1>2 DEF AscendFails, IoError
<1>4. PICK live, cover, place, k : Returned(live, cover, place, id, W, k)
  BY <1>1, <1>2, <1>3, Returns
<1>5. Separated(W) /\ id \in PageId
  BY <1>4, ReturnedBranch
<1>6. Len(W) > 2
  <2>1. Len(W) \in Nat
    BY <1>5, LenProperties DEF Separated
  <2> QED
    BY <1>3, <2>1, SpaceAssumption
<1>7. PICK g : Part(left, W, g)
  BY <1>2, <1>5, <1>6, SplitAroundParts
<1>8. pages'[id] = Internal(left) /\ \A x \in PageId \ {id} : pages'[x] = pages[x]
  BY <1>1, <1>3, <1>5 DEF TreeAt, TypeOK
<1>9. IsInternal(pages'[id]) /\ ~IsLeaf(pages'[id]) /\ pages'[id].entries = left
  BY <1>8 DEF Internal, IsInternal, IsLeaf
<1> QED
  BY <1>1, <1>3, <1>4, <1>7, <1>8, <1>9, ParentCut

\* The parent is as it was: it lacks the new child.
LEMMA InsertFetchFailsMap ==
    ASSUME TreeInv, MapInv, FetchFails, call.op = "insert", UNCHANGED dict
    PROVE  MapInv'
<1>1. PICK level : TreeAt(level)
  BY TreeInvAt
<1>2. PICK id, E, W, sep, child :
         /\ id = Last(call.path) /\ E = pages[id].entries
         /\ sep = call.sep /\ child = call.child /\ W = WithChild(E, sep, child)
  OBVIOUS
<1>3. call.path # <<>> /\ Error /\ pages' = pages
  BY DEF FetchFails, IoError
<1>4. PICK live, cover, place, k : Returned(live, cover, place, id, W, k)
  BY <1>1, <1>2, <1>3, Returns
<1>5. Separated(W)
  BY <1>4, ReturnedBranch
<1>6. id \in PageId /\ IsInternal(pages[id]) /\ child \in Nodes
  BY <1>1, <1>2, <1>3, ParentFacts
<1>7. PICK h, nodes : h = level[id] /\ nodes = Nodes
  OBVIOUS
<1>8. E \in Seq(ChildEntry) /\ OneAbove(E, h, level, nodes) /\ nodes \subseteq PageId
  BY <1>1, <1>2, <1>6, <1>7, InternalPage
<1>9. Len(E) >= 1 /\ sep \in Key /\ child \in PageId
  BY <1>1, <1>2, <1>6, <1>7, <1>8, OneAboveFacts DEF TreeAt, TypeOK, Idle
<1>10. PICK i \in 2..Len(E) + 1 : Without(E, W, i) /\ Len(W) = Len(E) + 1
  BY <1>2, <1>8, <1>9, WithChildUndone
<1>11. i \in 2..Len(W)
  BY <1>10
<1>12. PICK g : Part(E, W, g)
  BY <1>5, <1>10, <1>11, WithoutPart
<1>13. ~IsLeaf(pages[id])
  BY <1>1, <1>6, PageFacts DEF TreeAt, TypeOK
<1> QED
  BY <1>1, <1>2, <1>3, <1>4, <1>6, <1>12, <1>13, ParentCut

\* The parent takes the new child in.
LEMMA AscendTakesMap ==
    ASSUME NEW level, TreeAt(level), NEW live, NEW cover, NEW place, NEW id, NEW W, NEW k,
           Returned(live, cover, place, id, W, k), call.op = "insert", call.path # <<>>,
           pages' = View, call' = Idle, UNCHANGED <<errors, dict>>
    PROVE  MapInv'
<1>1. PICK view, root, d, lost :
         view = View /\ root = Root(pages) /\ d = dict /\ lost = Lost
  OBVIOUS
<1>2. Good(view, live, cover, place, {root}, d, lost)
  BY <1>1, ReturnedBranch
<1>3. lost = Lost' /\ d = dict' /\ view = pages'
  BY <1>1, LostKept DEF TreeAt
<1>4. root = Root(pages)'
  <2>1. id # 0 /\ \A x \in PageId \ {id} : pages'[x] = pages[x]
    BY DEF Returned
  <2> QED
    BY <1>1, <2>1, IdFacts, RootKept
<1> QED
  BY <1>2, <1>3, <1>4, IdleMap

\* The parent is divided.
LEMMA ParentDivided ==
    ASSUME NEW level, TreeAt(level), NEW live, NEW cover, NEW place, NEW id, NEW W, NEW k,
           Returned(live, cover, place, id, W, k), call.op = "insert", call.path # <<>>,
           call.path \in Seq(PageId),
           id = Last(call.path), W = WithChild(pages[id].entries, call.sep, call.child),
           NEW n, n = next_id, n \in PageId, NEW up, up = Front(call.path), Len(W) > 2,
           NEW left, NEW right, NEW sep, left = SplitAround(W).left, right = SplitAround(W).right,
           sep = SplitAround(W).promoted, pages' \in [PageId -> Page],
           IsInternal(pages'[id]), ~IsLeaf(pages'[id]), pages'[id].entries = left,
           IsInternal(pages'[n]), ~IsLeaf(pages'[n]), pages'[n].entries = right,
           \A x \in PageId \ {id, n} : pages'[x] = pages[x],
           call' = Ascending(up, sep, n), UNCHANGED <<errors, dict>>
    PROVE  MapInv'
<1>1. PICK view, root, d, lost, top :
         view = View /\ root = Root(pages) /\ d = dict /\ lost = Lost /\ top = {root}
  OBVIOUS
<1>2. /\ Good(view, live, cover, place, top, d, lost)
      /\ IsInternal(view[id]) /\ view[id].entries = W
      /\ BranchAt(W, id, live, cover, place, top, lost)
      /\ \A x \in live \ {id} : view[x] = pages[x]
      /\ id \in live /\ live \subseteq PageId /\ cover[id] \in SUBSET Key
  <2>1. /\ Good(view, live, cover, place, {root}, d, lost)
        /\ IsInternal(view[id]) /\ view[id].entries = W
        /\ BranchAt(W, id, live, cover, place, {root}, lost)
        /\ \A x \in live \ {id} : view[x] = pages[x]
        /\ id \in live /\ live \subseteq PageId /\ cover[id] \in SUBSET Key
    BY ONLY <1>1, Returned(live, cover, place, id, W, k), ReturnedBranch
  <2> QED
    BY <1>1, <2>1
<1>3. /\ 0 \notin live /\ n \notin live /\ k \in Key /\ Chain(call.path, k)
      /\ \A i \in 1..Len(call.path) : call.path[i] \in live
  BY DEF Returned
<1>4. lost = Lost' /\ d = dict'
  BY <1>1, LostKept DEF TreeAt
<1>5. root = Root(pages)'
  <2>1. n # 0
    BY DEF TreeAt, TypeOK
  <2>2. pages'[0] = pages[0]
    BY <1>2, <1>3, <2>1, IdFacts
  <2> QED
    BY <1>1, <2>2, RootKept
<1>6. \A j \in 1..Len(W) : W[j].child # id
  <2>1. id \in PageId /\ W \in Seq(ChildEntry) /\ OneAbove(W, level[id], level, Nodes)
    BY ParentFacts
  <2> QED
    BY <2>1, NotItsChild
<1>7. PICK P, S, live2, cover2, place2 :
         /\ P = Last(up) /\ S = {right[i].child : i \in 1..Len(right)}
         /\ live2 = live \cup {n} /\ cover2 = Divided(cover, id, n, sep)
         /\ place2 = Placed(place, S, n, P)
  OBVIOUS
<1>8. /\ place2[n] = P
      /\ \A c \in live : c \in S => place2[c] = n
      /\ \A c \in live : c \notin S => place2[c] = place[c]
  BY <1>2, <1>3, <1>7 DEF Placed
<1>9. \A c : c \in S <=> \E i \in 1..Len(right) : right[i].child = c
  BY <1>7
<1>10. Resettled(place2, place, live, right, n)
  BY <1>8, <1>9 DEF Resettled
<1>11. ASSUME NEW top2, top2 \subseteq top \cup {n}
       PROVE  /\ sep \in cover[id] /\ Below(cover[id], sep) # {}
              /\ BranchAt(left, id, live2, cover2, place2, top2, lost)
              /\ BranchAt(right, n, live2, cover2, place2, top2, lost)
              /\ NamesOnly(right, W)
  <2>1. /\ W = view[id].entries /\ n \in PageId \ live /\ Len(W) > 2
        /\ left = SplitAround(W).left /\ right = SplitAround(W).right /\ sep = SplitAround(W).promoted
        /\ live2 = live \cup {n} /\ cover2 = Divided(cover, id, n, sep)
    BY <1>2, <1>3, <1>7
  <2> QED
    <3>1. Halving(view, live, cover, place, top, d, lost, id, W, left, right, sep, n,
                  live2, cover2, place2, top2)
      BY ONLY <1>2, <1>6, <1>10, <1>11, <2>1, Zenon DEF Halving
    <3> QED
      BY ONLY <3>1, BranchHalves
<1>12. sep \in cover[id] /\ Below(cover[id], sep) # {}
  <2>1. top \subseteq top \cup {n}
    OBVIOUS
  <2> QED
    BY <1>11, <2>1
<1>13. \A top2 : top2 \subseteq top \cup {n} =>
          /\ GoodPage(pages'[id], id, live2, cover2, place2, top2, d, lost)
          /\ GoodPage(pages'[n], n, live2, cover2, place2, top2, d, lost)
  BY <1>11 DEF GoodPage
<1>14. \A c \in live : place[c] # id => place2[c] = place[c]
  <2>1. top \subseteq top \cup {n}
    OBVIOUS
  <2>2. NamesOnly(right, W)
    BY <1>11, <2>1
  <2>3. \A j \in 1..Len(W) : place[W[j].child] = id
    BY <1>2 DEF BranchAt
  <2>4. \A i \in 1..Len(right) : place[right[i].child] = id
    BY <2>2, <2>3 DEF NamesOnly
  <2>5. \A c \in S : place[c] = id
    BY <1>9, <2>4
  <2> QED
    BY <1>8, <2>5
<1>15. \A x \in live \ {id} : pages'[x] = view[x]
  BY <1>2, <1>3
<1>16. /\ up \in Seq(PageId) /\ Chain(up, k)
       /\ up = <<>> => id = root
       /\ up # <<>> => id = Route(pages[Last(up)].entries, k)
       /\ \A i \in 1..Len(up) : i \in 1..Len(call.path) /\ up[i] = call.path[i]
  <2>1. PICK path : path = call.path
    OBVIOUS
  <2>2. path \in Seq(PageId) /\ path # <<>> /\ Chain(path, k) /\ up = Front(path)
    BY <1>3, <2>1
  <2> QED
    BY <1>1, <2>1, <2>2, FrontChain
<1>17. \A i \in 1..Len(up) : up[i] \in live \ {id} /\ IsInternal(pages[up[i]])
  <2> TAKE i \in 1..Len(up)
  <2>1. IsInternal(pages[up[i]]) /\ level[up[i]] = level[id] + Len(up) + 1 - i
    BY ParentFacts
  <2>2. level[id] \in Nat /\ Len(up) \in Nat
    BY <1>2, <1>16, LenProperties DEF TreeAt
  <2>3. PICK a, m, b : a = level[id] /\ m = Len(up) /\ b = level[up[i]]
    OBVIOUS
  <2>4. a \in Nat /\ m \in Nat /\ i \in 1..m /\ b = a + m + 1 - i
    BY <2>1, <2>2, <2>3
  <2>5. b # a
    BY ONLY <2>4
  <2> QED
    BY <1>3, <1>16, <2>1, <2>3, <2>5
<1>18. CASE up = <<>>
  <2>1. id = root /\ call' = Ascending(<<>>, sep, n)
    BY <1>16, <1>18
  <2>2. PICK top2 : top = {id} /\ top2 = {id, n}
    BY <1>1, <2>1
  <2>3. top2 \subseteq top \cup {n}
    BY <2>2
  <2>4. /\ Good(view, live, cover, place, top, d, lost) /\ id = Root(pages)'
        /\ d = dict' /\ lost = Lost'
        /\ n \in PageId \ live /\ sep \in cover[id] /\ Below(cover[id], sep) # {}
        /\ live2 = live \cup {n} /\ cover2 = Divided(cover, id, n, sep)
        /\ \A c \in live : place[c] # id => place2[c] = place[c]
        /\ GoodPage(pages'[id], id, live2, cover2, place2, top2, d, lost)
        /\ GoodPage(pages'[n], n, live2, cover2, place2, top2, d, lost)
    BY <1>2, <1>3, <1>4, <1>5, <1>7, <1>12, <1>13, <1>14, <2>1, <2>3
  <2> QED
    <3>1. DividedTop(view, live, cover, place, top, d, lost, id, n, sep, live2, cover2, place2, top2)
      BY ONLY <1>15, <2>1, <2>2, <2>4, Zenon DEF DividedTop
    <3> QED
      BY ONLY <3>1, SplitTopMap
<1>19. CASE up # <<>>
  <2>1. Len(up) \in 1..Len(up) /\ P = up[Len(up)]
    BY <1>7, <1>16, <1>19, FrontFacts
  <2>2. P \in live \ {id} /\ IsInternal(pages[P]) /\ P \in PageId
    BY <1>2, <1>17, <2>1
  <2>4. PICK E : E = pages[P].entries
    OBVIOUS
  <2>5. view[P] = pages[P]
    BY <1>2, <2>2
  <2>6. \A j \in 1..Len(E) : E[j].child # P
    BY <2>2, <2>4, InternalPage, NotItsChild
  <2>7. \A i \in 1..Len(up) : pages'[up[i]] = pages[up[i]]
    BY <1>2, <1>3, <1>17
  <2>8. Chain(up, k)'
    BY <1>1, <1>5, <1>16, <2>7, ChainKept
  <2>9. /\ up # <<>> /\ n \in PageId \ live /\ sep \in cover[id] /\ Below(cover[id], sep) # {}
        /\ \A i \in 1..Len(up) : up[i] \in live
        /\ P = Last(up) /\ P # id /\ IsInternal(view[P]) /\ E = view[P].entries
        /\ id = Route(E, k)
    BY <1>3, <1>7, <1>12, <1>16, <1>17, <1>19, <2>2, <2>4, <2>5
  <2>10. /\ Good(view, live, cover, place, top, d, lost)
         /\ GoodPage(pages'[id], id, live2, cover2, place2, top, d, lost)
         /\ GoodPage(pages'[n], n, live2, cover2, place2, top, d, lost)
         /\ \A c \in live : place[c] # id => place2[c] = place[c]
    <3>1. top \subseteq top \cup {n}
      OBVIOUS
    <3> QED
      BY <1>2, <1>13, <1>14, <3>1
  <2>11. /\ d = dict' /\ lost = Lost' /\ pages' \in [PageId -> Page] /\ k \in Key /\ id \in live
         /\ up \in Seq(PageId) /\ call' = Ascending(up, sep, n) /\ place2[n] = P
         /\ live2 = live \cup {n} /\ cover2 = Divided(cover, id, n, sep)
         /\ top = {Root(pages)'}
    BY <1>1, <1>2, <1>3, <1>4, <1>5, <1>7, <1>8, <1>16
  <2>12. DividedUnder(view, live, cover, place, top, d, lost, up, k, P, E, id, n, sep,
                      live2, cover2, place2)
    BY ONLY <1>15, <2>6, <2>8, <2>9, <2>10, <2>11, Zenon DEF DividedUnder
  <2> QED
    BY ONLY <2>12, SplitUnderMap
<1> QED
  BY <1>18, <1>19

LEMMA AscendMap ==
    ASSUME TreeInv, MapInv, Ascend, UNCHANGED dict
    PROVE  MapInv'
<1>1. PICK level : TreeAt(level)
  BY TreeInvAt
<1>2. PICK id, W : id = Last(call.path) /\ W = WithChild(pages[id].entries, call.sep, call.child)
  OBVIOUS
<1>3. /\ call.op = "insert" /\ call.path # <<>> /\ UNCHANGED errors
      /\ IF Len(W) <= MaxEntries
         THEN Rewrite(id, Internal(W)) /\ call' = Idle
         ELSE /\ Allocate
              /\ RewriteBoth(id, Internal(SplitAround(W).left), next_id, Internal(SplitAround(W).right))
              /\ call' = Told(SplitAround(W))
  BY <1>2 DEF Ascend
<1>4. PICK live, cover, place, k : Returned(live, cover, place, id, W, k)
  BY <1>1, <1>2, <1>3, Returns
<1>5. id \in PageId /\ Separated(W) /\ id \in live /\ pages \in [PageId -> Page]
  BY <1>1, <1>4, ReturnedBranch DEF TreeAt, TypeOK
<1>6. CASE Len(W) <= MaxEntries
  <2>1. pages' = [pages EXCEPT ![id] = Internal(W)] /\ call' = Idle
    BY <1>3, <1>6 DEF Rewrite
  <2>2. pages' = View
    BY <1>2, <1>3, <2>1 DEF View
  <2> QED
    BY <1>1, <1>3, <1>4, <2>1, <2>2, AscendTakesMap
<1>7. CASE ~(Len(W) <= MaxEntries)
  <2>1. PICK n, up, left, right, sep, halves :
           /\ n = next_id /\ up = Front(call.path) /\ halves = SplitAround(W)
           /\ left = halves.left /\ right = halves.right /\ sep = halves.promoted
    OBVIOUS
  <2>2. /\ Allocate /\ RewriteBoth(id, Internal(left), n, Internal(right))
        /\ call' = Ascending(up, sep, n)
    BY <1>3, <1>7, <2>1 DEF Told
  <2>3. Len(W) > MaxEntries /\ Len(W) > 2
    <3>1. Len(W) \in Nat
      BY <1>5, LenProperties DEF Separated
    <3> QED
      BY <1>7, <3>1, SpaceAssumption
  <2>4. left \in Seq(ChildEntry) /\ right \in Seq(ChildEntry)
    BY <1>1, <1>2, <1>3, <2>1, <2>3, ParentSplit
  <2>5. n \in PageId
    BY <1>1, <2>1, <2>2, AllocateFacts DEF TreeAt
  <2>6. PICK p, q : p = Internal(left) /\ q = Internal(right)
    OBVIOUS
  <2>7. /\ p \in Page /\ IsInternal(p) /\ ~IsLeaf(p) /\ p.entries = left
        /\ q \in Page /\ IsInternal(q) /\ ~IsLeaf(q) /\ q.entries = right
    BY <2>4, <2>6, InternalFacts
  <2>8. id # n
    BY <1>4, <1>5, <2>1 DEF Returned
  <2>9. /\ pages' \in [PageId -> Page] /\ pages'[id] = p /\ pages'[n] = q
        /\ \A x \in PageId \ {id, n} : pages'[x] = pages[x]
    <3>1. RewriteBoth(id, p, n, q)
      BY <2>2, <2>6
    <3> QED
      BY <1>1, <1>5, <2>5, <2>7, <2>8, <3>1, RewriteBothFacts DEF TreeAt
  <2>10. /\ IsInternal(pages'[id]) /\ ~IsLeaf(pages'[id]) /\ pages'[id].entries = left
         /\ IsInternal(pages'[n]) /\ ~IsLeaf(pages'[n]) /\ pages'[n].entries = right
    BY <2>7, <2>9
  <2>11. call.path \in Seq(PageId)
    BY <1>1, <1>2, <1>3, Returns
  <2>12. /\ left = SplitAround(W).left /\ right = SplitAround(W).right
         /\ sep = SplitAround(W).promoted /\ UNCHANGED <<errors, dict>>
    BY <1>3, <2>1
  <2> QED
    BY ONLY <1>1, <1>2, <1>3, <1>4, <2>1, <2>2, <2>3, <2>5, <2>9, <2>10, <2>11, <2>12, ParentDivided
<1> QED
  BY <1>6, <1>7

-----------------------------------------------------------------------------
(* Steps at the root.                                                      *)

\* The root is split, and nothing is above its halves.
TwoRoots(live, cover, place) ==
    /\ Good(pages, live, cover, place, {Root(pages), call.child}, dict, Lost)
    /\ Parted(cover, Root(pages), call.child, call.sep) /\ Root(pages) # call.child
    /\ live \subseteq PageId /\ 0 \notin live /\ next_id \notin live

LEMMA AtTop ==
    ASSUME NEW level, TreeAt(level), MapInv, call.op = "insert", call.path = <<>>
    PROVE  \E live, cover, place : TwoRoots(live, cover, place)
<1>1. PICK live, cover, place : MapAt(live, cover, place)
  BY DEF MapInv
<1>2. PICK view, top, d, lost : view = pages /\ top = Top /\ d = dict /\ lost = Lost
  OBVIOUS
<1>3. View = pages
  BY DEF View
<1>4. Good(view, live, cover, place, top, d, lost) /\ InsertPending(live, cover)
  BY <1>1, <1>2, <1>3 DEF MapAt
<1>5. live \subseteq PageId
  BY <1>4 DEF Good
<1>6. 0 \notin live /\ next_id \notin live
  BY <1>2, <1>4, LiveNodes
<1>7. top = {Root(pages), call.child}
  BY <1>2 DEF Top
<1>8. Good(pages, live, cover, place, {Root(pages), call.child}, dict, Lost)
  BY <1>2, <1>4, <1>7
<1>9. Parted(cover, Root(pages), call.child, call.sep) /\ Root(pages) # call.child
  BY <1>4 DEF InsertPending, Parted
<1>10. TwoRoots(live, cover, place)
  BY <1>5, <1>6, <1>8, <1>9, Zenon DEF TwoRoots
<1> QED
  BY <1>10

LEMMA GrowRootMap ==
    ASSUME TreeInv, MapInv, GrowRoot, UNCHANGED dict
    PROVE  MapInv'
<1>1. PICK level : TreeAt(level)
  BY TreeInvAt
<1>2. PICK n, p, q : n = next_id /\ p = NewRootPage /\ q = Meta(n)
  OBVIOUS
<1>3. /\ call.op = "insert" /\ call.path = <<>> /\ Allocate /\ RewriteBoth(n, p, 0, q)
      /\ call' = Idle /\ UNCHANGED errors
  BY <1>2, IdFacts DEF GrowRoot
<1>4. n \in PageId /\ n # 0
  BY <1>1, <1>2, <1>3, AllocateFacts DEF TreeAt
<1>5. p \in Page /\ q \in Page /\ q.entries[1].child = n
  BY <1>1, <1>2, <1>3, <1>4, NewRootIsPage, MetaFacts
<1>6. /\ pages'[n] = p /\ pages'[0] = q
      /\ \A x \in PageId \ {n, 0} : pages'[x] = pages[x]
  BY <1>1, <1>3, <1>4, <1>5, IdFacts, RewriteBothFacts DEF TreeAt
<1>7. PICK live, cover, place : TwoRoots(live, cover, place)
  BY <1>1, <1>3, AtTop
<1>8. PICK view, d, lost, a, b, sep, view2, lost2 :
         /\ view = pages /\ d = dict /\ lost = Lost /\ a = Root(pages) /\ b = call.child
         /\ sep = call.sep /\ view2 = pages' /\ lost2 = Lost'
  OBVIOUS
<1>9. /\ Good(view, live, cover, place, {a, b}, d, lost) /\ Parted(cover, a, b, sep) /\ a # b
      /\ live \subseteq PageId /\ 0 \notin live /\ n \notin live
  BY <1>2, <1>7, <1>8 DEF TwoRoots
<1>10. a \in PageId /\ b \in PageId
  BY <1>9 DEF Good
<1>11. sep \in Key
  BY <1>1, <1>3, <1>8 DEF TreeAt, TypeOK, Idle
<1>12. PICK e1, e2 : e1 = Leftmost(a) /\ e2 = InternalEntry(sep, b)
  OBVIOUS
<1>13. /\ e1 \in ChildEntry /\ e1.child = a
       /\ e2 \in ChildEntry /\ e2.child = b /\ e2.key = sep
  BY <1>10, <1>11, <1>12 DEF Leftmost, InternalEntry, ChildEntry
<1>14. PICK E : E = <<e1, e2>>
  OBVIOUS
<1>15. E \in Seq(ChildEntry) /\ Len(E) = 2 /\ E[1] = e1 /\ E[2] = e2
  BY <1>13, <1>14
<1>16. p = Internal(E)
  BY <1>2, <1>8, <1>12, <1>14 DEF NewRootPage
<1>17. IsInternal(p) /\ ~IsLeaf(p) /\ p.entries = E
  BY <1>15, <1>16, InternalFacts
<1>18. PICK live2, cover2, place2 :
          /\ live2 = live \cup {n}
          /\ cover2 = Joined(cover, n, a, b) /\ place2 = Reparented(place, n, a, b)
  OBVIOUS
<1>19. Joining(view, live, cover, place, d, lost, a, b, sep, n, view2, E, live2, cover2, place2)
  <2>1. n \in PageId \ live /\ \A x \in live : view2[x] = view[x]
    BY <1>4, <1>6, <1>8, <1>9
  <2>2. /\ IsInternal(view2[n]) /\ ~IsLeaf(view2[n]) /\ E = view2[n].entries
        /\ E[1].child = a /\ E[2].key = sep /\ E[2].child = b
    BY <1>6, <1>8, <1>13, <1>15, <1>17
  <2> QED
    BY ONLY <1>9, <1>15, <1>18, <2>1, <2>2, Zenon DEF Joining
<1>20. Good(view2, live2, cover2, place2, {n}, d, lost)
  BY ONLY <1>19, GrowsTop
<1>21. lost = Lost' /\ d = dict'
  BY <1>1, <1>3, <1>8, LostKept DEF TreeAt
<1>22. n = Root(pages)'
  BY <1>5, <1>6, IdFacts DEF Root
<1> QED
  BY <1>3, <1>8, <1>20, <1>21, <1>22, IdleMap

\* The half that was the root remains.
LEMMA GrowRootFailsMap ==
    ASSUME TreeInv, MapInv, GrowRootFails, UNCHANGED dict
    PROVE  MapInv'
<1>1. PICK level : TreeAt(level)
  BY TreeInvAt
<1>2. /\ call.op = "insert" /\ call.path = <<>> /\ Error
      /\ UNCHANGED <<pages, dirty>> \/ Rewrite(next_id, NewRootPage)
  BY DEF GrowRootFails, IoError
<1>3. \A x \in PageId : x # next_id => pages'[x] = pages[x]
  BY <1>1, <1>2 DEF Rewrite, TreeAt, TypeOK
<1>4. PICK live, cover, place : TwoRoots(live, cover, place)
  BY <1>1, <1>2, AtTop
<1>5. PICK view, d, lost, root, top, top2, view2, lost2 :
         /\ view = pages /\ d = dict /\ lost = Lost /\ root = Root(pages)
         /\ top = {root, call.child} /\ top2 = {root} /\ view2 = pages' /\ lost2 = Lost'
  OBVIOUS
<1>6. /\ Good(view, live, cover, place, top, d, lost)
      /\ live \subseteq PageId /\ 0 \notin live /\ next_id \notin live
  BY <1>4, <1>5 DEF TwoRoots
<1>7. call' = Idle /\ errors' = errors + 1
  BY <1>2 DEF Error
<1>8. lost \subseteq lost2 /\ Key \subseteq lost2
  BY <1>1, <1>5, <1>7, LostKept DEF TreeAt
<1>9. Good(view2, live, cover, place, top2, d, lost2)
  <2>1. /\ \A x \in live : view2[x] = view[x]
        /\ \A k \in Key : k \in lost2 \/ \E t \in top2 : k \in cover[t]
        /\ top2 \subseteq top
    BY <1>3, <1>5, <1>6, <1>8
  <2> QED
    BY ONLY <1>6, <1>8, <2>1, GoodKept
<1>10. root = Root(pages)'
  <2>1. next_id # 0
    BY <1>1 DEF TreeAt, TypeOK
  <2> QED
    BY <1>3, <1>5, <2>1, IdFacts, RootKept
<1> QED
  BY <1>5, <1>7, <1>9, <1>10, IdleMap

-----------------------------------------------------------------------------
(* A delete on its way up.                                                 *)

Deleting(live, cover, place) ==
    /\ Good(pages, live, cover, place, {Root(pages)}, dict, Lost) /\ DeletePending(live, cover)
    /\ live \subseteq PageId /\ 0 \notin live /\ next_id \notin live

LEMMA Deletes ==
    ASSUME NEW level, TreeAt(level), MapInv, call.op = "delete"
    PROVE  /\ \E live, cover, place : Deleting(live, cover, place)
           /\ call.path \in Seq(PageId) /\ call.key \in Key
           /\ \A i \in 1..Len(call.path) : IsInternal(pages[call.path[i]])
<1>1. PICK live, cover, place : MapAt(live, cover, place)
  BY DEF MapInv
<1>2. PICK view, top, d, lost : view = pages /\ top = {Root(pages)} /\ d = dict /\ lost = Lost
  OBVIOUS
<1>3. View = view /\ Top = top
  BY <1>2 DEF View, Top
<1>4. Good(view, live, cover, place, top, d, lost) /\ DeletePending(live, cover)
  BY <1>1, <1>2, <1>3 DEF MapAt
<1>5. live \subseteq PageId
  BY <1>4 DEF Good
<1>6. 0 \notin live /\ next_id \notin live
  BY <1>2, <1>4, LiveNodes
<1>7. Good(pages, live, cover, place, {Root(pages)}, dict, Lost)
  BY <1>2, <1>4
<1>8. Deleting(live, cover, place)
  BY <1>4, <1>5, <1>6, <1>7, Zenon DEF Deleting
<1>9. call.path \in Seq(PageId) /\ call.key \in Key
  BY DEF TreeAt, TypeOK, Idle
<1>10. DOMAIN call.path = 1..Len(call.path)
  BY <1>9, LenProperties
<1>11. \A i \in 1..Len(call.path) : IsInternal(pages[call.path[i]])
  BY <1>10 DEF TreeAt, OnItsWayUp
<1> QED
  BY <1>8, <1>9, <1>11

\* The parent has one child: it covers lost keys, as the child does.
LEMMA OnlyChildLost ==
    ASSUME NEW E, NEW x, NEW live, NEW cover, NEW place, NEW top, NEW lost,
           BranchAt(E, x, live, cover, place, top, lost), Len(E) = 1, NEW k \in Key,
           cover[Route(E, k)] \subseteq lost
    PROVE  cover[x] \subseteq lost
<1>1. Separated(E)
  BY DEF BranchAt
<1>2. 1 \in 1..Len(E) /\ (\A i \in 1..Len(E) : i = 1) /\ \A j \in 2..Len(E) : FALSE
  OBVIOUS
<1>3. Route(E, k) = E[1].child
  BY <1>1, <1>2, RouteIs
<1>4. \A y : RoutesTo(E, y, 1)
  BY <1>2 DEF RoutesTo
<1> QED
  BY <1>2, <1>3, <1>4 DEF BranchAt

LEMMA UnlinkMap ==
    ASSUME TreeInv, MapInv, Unlink, UNCHANGED dict
    PROVE  MapInv'
<1>1. PICK level : TreeAt(level)
  BY TreeInvAt
<1>2. PICK path, id, E, k, up :
         /\ path = call.path /\ id = Last(path) /\ E = pages[id].entries
         /\ k = call.key /\ up = Front(path)
  OBVIOUS
<1>3. /\ call.op = "delete" /\ path # <<>> /\ UNCHANGED errors
      /\ IF Len(E) = 1
         THEN call' = Unlinking(up, k) /\ UNCHANGED pages
         ELSE Rewrite(id, Internal(WithoutChild(E, RouteIndex(E, k)))) /\ call' = Idle
  BY <1>2 DEF Unlink
<1>4. PICK live, cover, place : Deleting(live, cover, place)
  BY <1>1, <1>3, Deletes
<1>5. path \in Seq(PageId) /\ k \in Key /\ \A i \in 1..Len(path) : IsInternal(pages[path[i]])
  BY <1>1, <1>2, <1>3, Deletes
<1>6. PICK view, root, top, d, lost :
         view = pages /\ root = Root(pages) /\ top = {root} /\ d = dict /\ lost = Lost
  OBVIOUS
<1>7. /\ Good(view, live, cover, place, top, d, lost)
      /\ live \subseteq PageId /\ 0 \notin live
      /\ \A i \in 1..Len(path) : path[i] \in live
      /\ Chain(path, k)
  BY <1>2, <1>4, <1>6 DEF Deleting, DeletePending
<1>8. cover[Route(E, k)] \subseteq lost
  BY <1>2, <1>3, <1>4, <1>6 DEF Deleting, DeletePending, Emptied
<1>9. id \in live /\ IsInternal(view[id]) /\ id \in PageId /\ id # 0
  <2>1. Len(path) \in 1..Len(path) /\ id = path[Len(path)]
    BY <1>2, <1>3, <1>5, FrontFacts
  <2> QED
    BY <1>5, <1>6, <1>7, <2>1
<1>10. BranchAt(E, id, live, cover, place, top, lost) /\ cover[id] \in SUBSET Key
  BY <1>2, <1>6, <1>7, <1>9 DEF Good, GoodPage
<1>11. lost = Lost' /\ d = dict'
  BY <1>1, <1>3, <1>6, LostKept DEF TreeAt
<1>12. CASE Len(E) = 1
  <2>1. call' = Unlinking(up, k) /\ pages' = pages
    BY <1>3, <1>12
  <2>2. call'.op = "delete" /\ call'.path = up /\ call'.key = k
    BY <2>1 DEF Unlinking
  <2>3. cover[id] \subseteq lost
    BY <1>5, <1>8, <1>10, <1>12, OnlyChildLost
  <2>4. /\ up \in Seq(PageId) /\ Chain(up, k)
        /\ up = <<>> => id = root
        /\ up # <<>> => id = Route(pages[Last(up)].entries, k)
        /\ \A i \in 1..Len(up) : i \in 1..Len(path) /\ up[i] = path[i]
    BY <1>2, <1>3, <1>5, <1>6, <1>7, FrontChain
  <2>5. root = Root(pages)'
    BY <1>6, <2>1, RootKept
  <2>6. Emptied' = id
    BY <2>1, <2>2, <2>4, <2>5 DEF Emptied
  <2>7. Chain(up, k)'
    BY <1>6, <2>1, <2>4, <2>5, ChainKept
  <2>8. DeletePending(live, cover)'
    <3>1. \A i \in 1..Len(call'.path) : call'.path[i] \in live
      BY <1>7, <2>2, <2>4
    <3>2. Chain(call.path, call.key)'
      BY <2>2, <2>7 DEF Chain
    <3>3. cover[Emptied'] \subseteq Lost'
      BY <1>11, <2>3, <2>6
    <3> QED
      BY <3>1, <3>2, <3>3, Zenon DEF DeletePending
  <2>9. View' = view /\ Top' = top
    BY <1>6, <2>1, <2>2, <2>5 DEF View, Top
  <2>10. Good(View', live, cover, place, Top', dict', Lost')
    BY <1>7, <1>11, <2>9
  <2>11. call'.op # "insert" /\ call'.op # "closed"
    BY <2>2
  <2>12. MapAt(live, cover, place)'
    BY <2>8, <2>10, <2>11, Zenon DEF MapAt
  <2> QED
    BY <2>11, <2>12, Zenon DEF MapInv
<1>13. CASE Len(E) # 1
  <2>1. PICK E2, p, view2 : /\ E2 = WithoutChild(E, RouteIndex(E, k)) /\ p = Internal(E2)
                            /\ view2 = pages'
    OBVIOUS
  <2>2. Rewrite(id, p) /\ call' = Idle
    BY <1>3, <1>13, <2>1
  <2>3. view2[id] = p /\ \A x \in PageId \ {id} : view2[x] = pages[x]
    BY <1>1, <1>9, <2>1, <2>2 DEF Rewrite, TreeAt, TypeOK
  <2>4. IsInternal(p) /\ ~IsLeaf(p) /\ p.entries = E2
    BY <2>1 DEF Internal, IsInternal, IsLeaf
  <2>5. BranchAt(E2, id, live, cover, place, top, lost)
    BY <1>5, <1>8, <1>10, <1>13, <2>1, BranchUnlinked
  <2>6. GoodPage(view2[id], id, live, cover, place, top, d, lost)
    BY <2>3, <2>4, <2>5 DEF GoodPage
  <2>7. Good(view2, live, cover, place, top, d, lost)
    <3>1. lost \subseteq lost /\ \A x \in live \ {id} : view2[x] = view[x]
      BY <1>6, <1>7, <2>3
    <3> QED
      BY <1>7, <1>9, <2>6, <3>1, PageReplaced
  <2>8. root = Root(pages)'
    BY <1>6, <1>9, <2>1, <2>3, IdFacts, RootKept
  <2> QED
    BY <1>6, <1>11, <2>1, <2>2, <2>7, <2>8, IdleMap
<1> QED
  BY <1>12, <1>13

LEMMA ShrinkRootMap ==
    ASSUME TreeInv, MapInv, ShrinkRoot, UNCHANGED dict
    PROVE  MapInv'
<1>1. PICK level : TreeAt(level)
  BY TreeInvAt
<1>2. PICK root, E, c, page : /\ root = Root(pages) /\ E = pages[root].entries /\ c = E[1].child
                              /\ page = Meta(c)
  OBVIOUS
<1>3. /\ call.op = "delete" /\ call.path = <<>> /\ Rewrite(0, page) /\ call' = Idle
      /\ UNCHANGED errors
  BY <1>2, IdFacts DEF ShrinkRoot
<1>4. PICK live, cover, place : Deleting(live, cover, place)
  BY <1>1, <1>3, Deletes
<1>5. PICK view, top, d, lost, view2 :
         view = pages /\ top = {root} /\ d = dict /\ lost = Lost /\ view2 = pages'
  OBVIOUS
<1>6. /\ Good(view, live, cover, place, top, d, lost)
      /\ live \subseteq PageId /\ 0 \notin live /\ cover[root] \subseteq lost
  BY <1>2, <1>3, <1>4, <1>5 DEF Deleting, DeletePending, Emptied
<1>7. Key \subseteq lost /\ root \in live
  BY <1>5, <1>6 DEF Good
<1>8. IsInternal(view[root])
  BY <1>1, <1>2, <1>3, <1>5 DEF TreeAt, OnItsWayUp
<1>9. BranchAt(E, root, live, cover, place, top, lost)
  BY <1>2, <1>5, <1>6, <1>7, <1>8 DEF Good, GoodPage
<1>10. 1 \in 1..Len(E)
  <2>1. Len(E) \in Nat /\ Len(E) >= 1
    BY <1>9, LenProperties DEF BranchAt, Separated
  <2> QED
    BY <2>1
<1>11. c \in live \ top /\ place[c] = root
  BY <1>2, <1>9, <1>10 DEF BranchAt
<1>12. page \in Page /\ page.entries[1].child = c
  BY <1>2, <1>6, <1>11, MetaFacts
<1>13. pages'[0] = page /\ \A x \in PageId \ {0} : pages'[x] = pages[x]
  BY <1>1, <1>3, <1>12, IdFacts, RewriteFacts DEF TreeAt
<1>14. PICK live2 : live2 = live \ {root}
  OBVIOUS
<1>15. Good(view2, live2, cover, place, {c}, d, lost)
  <2>1. /\ Good(view, live, cover, place, {root}, d, lost)
        /\ c \in live \ {root} /\ \A x \in live2 : view2[x] = view[x]
    BY <1>5, <1>6, <1>11, <1>13, <1>14
  <2> QED
    BY ONLY <1>7, <1>11, <1>14, <2>1, ShrinksTop
<1>16. lost = Lost' /\ d = dict'
  BY <1>1, <1>3, <1>5, LostKept DEF TreeAt
<1>17. c = Root(pages)'
  BY <1>12, <1>13, IdFacts DEF Root
<1> QED
  BY <1>3, <1>5, <1>15, <1>16, <1>17, IdleMap

\* The empty page stays where it is.
LEMMA DeleteFetchFailsMap ==
    ASSUME TreeInv, MapInv, FetchFails, call.op = "delete", UNCHANGED dict
    PROVE  MapInv'
<1>1. PICK level : TreeAt(level)
  BY TreeInvAt
<1>2. Error /\ pages' = pages
  BY DEF FetchFails, IoError
<1>3. PICK live, cover, place : Deleting(live, cover, place)
  BY <1>1, Deletes
<1>4. PICK view, root, top, d, lost, lost2 :
         /\ view = pages /\ root = Root(pages) /\ top = {root} /\ d = dict /\ lost = Lost
         /\ lost2 = Lost'
  OBVIOUS
<1>5. Good(view, live, cover, place, top, d, lost)
  BY <1>3, <1>4 DEF Deleting
<1>6. call' = Idle /\ errors' = errors + 1
  BY <1>2 DEF Error
<1>7. lost \subseteq lost2 /\ Key \subseteq lost2
  BY <1>1, <1>4, <1>6, LostKept DEF TreeAt
<1>8. Good(view, live, cover, place, top, d, lost2)
  <2>1. /\ \A x \in live : view[x] = view[x]
        /\ \A k \in Key : k \in lost2 \/ \E t \in top : k \in cover[t]
        /\ top \subseteq top
    BY <1>7
  <2> QED
    BY ONLY <1>5, <1>7, <2>1, GoodKept
<1>9. root = Root(pages)'
  BY <1>2, <1>4, RootKept
<1> QED
  BY <1>2, <1>4, <1>6, <1>8, <1>9, IdleMap

-----------------------------------------------------------------------------
(* The tree at its start, and every step.                                  *)

\* A store that was never opened gets an empty leaf, which covers every key.
LEMMA OpenMap ==
    ASSUME TreeInv, MapInv, Open, UNCHANGED dict
    PROVE  MapInv'
<1>1. PICK level : TreeAt(level)
  BY TreeInvAt
<1>2. call.op = "closed" /\ call' = Idle /\ UNCHANGED errors
  BY DEF Open
<1>3. pages[0] = Blank /\ dict = [k \in Key |-> None]
  BY <1>2 DEF MapInv
<1>4. PICK n, p, q : n = next_id /\ p = Leaf(<<>>, NO_SIBLING) /\ q = Meta(n)
  OBVIOUS
<1>5. Allocate /\ RewriteBoth(n, p, 0, q)
  BY <1>3, <1>4, IdFacts, BlankFacts DEF Open
<1>6. n \in PageId /\ n # 0
  BY <1>1, <1>4, <1>5, AllocateFacts DEF TreeAt
<1>7. NO_SIBLING \in PageId
  BY IdFacts DEF NO_SIBLING
<1>8. /\ p \in Page /\ IsLeaf(p) /\ ~IsInternal(p) /\ p.entries = <<>>
      /\ q \in Page /\ q.entries[1].child = n
  BY <1>4, <1>6, <1>7, LeafFacts, MetaFacts, EmptySeq
<1>9. pages'[n] = p /\ pages'[0] = q
  BY <1>1, <1>5, <1>6, <1>8, IdFacts, RewriteBothFacts DEF TreeAt
<1>10. PICK cover : cover = [x \in PageId |-> Key]
  OBVIOUS
<1>11. PICK view, d, lost, live : view = pages' /\ d = dict' /\ lost = Lost' /\ live = {n}
  OBVIOUS
<1>12. Key \subseteq lost
  BY <1>3, <1>11 DEF Lost
<1>13. PICK E : E = p.entries
  OBVIOUS
<1>14. E \in Seq(LeafEntry) /\ Len(E) = 0
  BY <1>8, <1>13, EmptySeq
<1>15. \A i \in 1..Len(E) : FALSE
  BY <1>14
<1>16. HoldsAt(E, Key, d, lost)
  BY <1>12, <1>14, <1>15 DEF HoldsAt, Sorted
<1>17. GoodPage(view[n], n, live, cover, cover, live, d, lost)
  BY <1>6, <1>8, <1>9, <1>10, <1>11, <1>13, <1>16 DEF GoodPage
<1>18. Good(view, live, cover, cover, live, d, lost)
  <2>1. cover \in [PageId -> SUBSET Key] /\ cover[n] = Key
    BY <1>6, <1>10
  <2> QED
    BY <1>6, <1>11, <1>12, <1>17, <2>1 DEF Good
<1>19. n = Root(pages)'
  BY <1>8, <1>9, IdFacts DEF Root
<1>20. Good(view, live, cover, cover, {n}, d, lost)
  BY <1>11, <1>18
<1> QED
  BY ONLY <1>2, <1>11, <1>19, <1>20, IdleMap

LEMMA MapInit == Init => MapInv
<1> SUFFICES ASSUME Init PROVE MapInv
  OBVIOUS
<1>1. call.op = "closed"
  BY DEF Init
<1>2. pages[0] = Blank /\ dict = [k \in Key |-> None]
  BY IdFacts DEF Init
<1> QED
  BY <1>1, <1>2, Zenon DEF MapInv

LEMMA MapKept ==
    ASSUME MapInv, UNCHANGED <<pages, call, errors, dict>>
    PROVE  MapInv'
<1>1. pages' = pages /\ call' = call /\ errors' = errors /\ dict' = dict
  OBVIOUS
<1>2. CASE call.op = "closed"
  BY <1>1, <1>2 DEF MapInv
<1>3. CASE call.op # "closed"
  <2>1. PICK live, cover, place : MapAt(live, cover, place)
    BY <1>3 DEF MapInv
  <2>2. View' = View /\ Top' = Top /\ Lost' = Lost /\ Emptied' = Emptied /\ Root(pages)' = Root(pages)
    BY <1>1 DEF View, Top, Lost, Emptied, Root
  <2>3. Good(View', live, cover, place, Top', dict', Lost')
    BY <1>1, <2>1, <2>2 DEF MapAt
  <2>4. \A k : Chain(call.path, k) => Chain(call.path, k)'
    BY <1>1, <2>2 DEF Chain
  <2>5. InsertPending(live, cover) => InsertPending(live, cover)'
    BY <1>1, <2>2, <2>4 DEF InsertPending
  <2>6. DeletePending(live, cover) => DeletePending(live, cover)'
    <3>1. Chain(call.path, call.key) => Chain(call.path, call.key)'
      BY <1>1, <2>2 DEF Chain
    <3> QED
      BY <1>1, <2>2, <3>1 DEF DeletePending
  <2>7. MapAt(live, cover, place)'
    BY <1>1, <2>1, <2>3, <2>5, <2>6, Zenon DEF MapAt
  <2> QED
    BY <1>1, <1>3, <2>7, Zenon DEF MapInv
<1> QED
  BY <1>2, <1>3

LEMMA MapStep ==
    ASSUME TreeInv, MapInv, [Next]_vars
    PROVE  MapInv'
<1>1. CASE UNCHANGED vars
  BY <1>1, MapKept DEF vars
<1>2. CASE /\ Open \/ Ascend \/ GrowRoot \/ Unlink \/ ShrinkRoot
              \/ FetchFails \/ AscendFails \/ GrowRootFails
           /\ UNCHANGED dict
  <2>1. FetchFails => call.op = "insert" \/ call.op = "delete"
    BY DEF FetchFails
  <2> QED
    BY <1>2, <2>1, OpenMap, AscendMap, GrowRootMap, UnlinkMap, ShrinkRootMap,
       InsertFetchFailsMap, DeleteFetchFailsMap, AscendFailsMap, GrowRootFailsMap
<1>3. CASE \E k \in Key : DeleteFromLeaf(k) /\ Set(k, None)
  BY <1>3, DeleteFromLeafMap
<1>4. CASE \E k \in Key, v \in Val :
              \/ (InsertInLeaf(k, v) \/ SplitLeaf(k, v) \/ RightRefused(k, v)) /\ Set(k, v)
              \/ (LeftRefused(k, v) \/ SplitFails(k, v)) /\ UNCHANGED dict
  BY <1>4, InsertInLeafMap, SplitLeafMap, RightRefusedMap, LeftRefusedMap, SplitFailsMap
<1> QED
  BY <1>1, <1>2, <1>3, <1>4 DEF Next

\* Each key has one page at a time that answers for it, and that page has what
\* the key was last set to, through every split, unlinking, change of root and
\* error, in the middle of a call too (btree.rs insert_recursive,
\* delete_recursive).
THEOREM MapInvariance == Spec => []MapInv
BY TreeInvariance, MapInit, MapStep, PTL DEF Spec

\* What get reads at the end of its path.
LEMMA LeafGives ==
    ASSUME NEW E, NEW C, NEW d, NEW lost, HoldsAt(E, C, d, lost), NEW k \in Key,
           k \in lost \/ k \in C, NEW g,
           g = LET found == {i \in DOMAIN E : E[i].key = k}
               IN  IF found = {} THEN None ELSE E[Min(found)].value
    PROVE  g = d[k] \/ (g = None /\ k \in lost)
<1>1. Sorted(E)
  BY DEF HoldsAt
<1>2. PICK n \in Nat : n = Len(E) /\ DOMAIN E = 1..n
  BY <1>1, SortedFacts
<1>3. PICK found : found = {i \in 1..n : E[i].key = k}
  OBVIOUS
<1>4. g = IF found = {} THEN None ELSE E[Min(found)].value
  BY <1>2, <1>3
<1>5. CASE found = {}
  <2>1. \A i \in 1..n : E[i].key # k
    BY <1>3, <1>5
  <2>2. k \in lost
    BY <1>2, <2>1 DEF HoldsAt
  <2> QED
    BY <1>4, <1>5, <2>2
<1>6. CASE found # {}
  <2>1. found \in SUBSET Nat
    <3>1. \A i \in 1..n : i \in Nat
      OBVIOUS
    <3> QED
      BY <1>3, <3>1
  <2>2. PICK m \in found : m = Min(found)
    BY <1>6, <2>1, MinIs
  <2>3. m \in 1..n /\ E[m].key = k
    BY <1>3, <2>2
  <2>4. E[m].value = d[k]
    BY <1>2, <2>3 DEF HoldsAt
  <2> QED
    BY <1>4, <1>6, <2>2, <2>4
<1> QED
  BY <1>5, <1>6

LEMMA MapGets ==
    ASSUME TreeInv, MapInv
    PROVE  GetIsLatest
<1> SUFFICES ASSUME call = Idle, NEW k \in Key
             PROVE  Get(pages, k) = dict[k] \/ (errors > 0 /\ Get(pages, k) = None)
  BY DEF GetIsLatest
<1>1. PICK level : TreeAt(level)
  BY TreeInvAt
<1>2. PICK root, view, d, lost, path :
         root = Root(pages) /\ view = pages /\ d = dict /\ lost = Lost /\ path = PathTo(pages, k)
  OBVIOUS
<1>3. PICK live, cover, place : Good(view, live, cover, place, {root}, d, lost)
  BY <1>2, MapIdle
<1>4. Follows(path, root, view, k)
  BY <1>1, <1>2, PathReaches
<1>5. PICK n \in Nat : n = Len(path) /\ n >= 1
  BY <1>4, LenProperties DEF Follows
<1>6. PICK x : x = path[n]
  OBVIOUS
<1>7. x = Last(path) /\ n \in 1..n
  BY <1>5, <1>6 DEF Last
<1>8. x \in live /\ (k \in lost \/ k \in cover[x])
  BY <1>3, <1>4, <1>5, <1>6, <1>7, WayIsLive
<1>9. ~IsInternal(view[x])
  BY <1>4, <1>5, <1>6 DEF Follows
<1>10. PICK E : E = view[x].entries
  OBVIOUS
<1>11. HoldsAt(E, cover[x], d, lost)
  BY <1>3, <1>8, <1>9, <1>10 DEF Good, GoodPage
<1>12. PICK g : g = Get(pages, k)
  OBVIOUS
<1>13. g = LET found == {i \in DOMAIN E : E[i].key = k}
           IN  IF found = {} THEN None ELSE E[Min(found)].value
  BY <1>2, <1>7, <1>10, <1>12 DEF Get
<1>14. PICK C : C = cover[x]
  OBVIOUS
<1>15. HoldsAt(E, C, d, lost) /\ (k \in lost \/ k \in C)
  BY <1>8, <1>11, <1>14
<1>16. g = d[k] \/ (g = None /\ k \in lost)
  BY ONLY k \in Key, <1>13, <1>15, LeafGives
<1> QED
  BY <1>2, <1>12, <1>16 DEF Lost

\* get returns what a key was last set to, and after a call that returned an
\* error at worst nothing, however often pages were split, unlinked and the
\* root replaced (btree.rs get_recursive).
THEOREM TreeGetsLatest == Spec => []GetIsLatest
BY TreeInvariance, MapInvariance, MapGets, PTL

-----------------------------------------------------------------------------
(* The pages that keys lead to, in any set of pages.                       *)

\* The pages on the way of k.
OnWay(p, k) ==
    {x \in PageId : \E path : Follows(path, Root(p), p, k) /\ \E i \in 1..Len(path) : path[i] = x}

\* Every key has a way.
Walkable(p) == Root(p) \in PageId /\ \A k \in Key : \E path : Follows(path, Root(p), p, k)

\* The pages some key leads to, and the keys that lead to each.
Reach(p) == {x \in PageId : \E k \in Key : x \in OnWay(p, k)}
Cover(p) == [x \in PageId |-> {k \in Key : x \in OnWay(p, k)}]

\* The child of x that k leads to.
Turn(p, x, k) == Route(p[x].entries, k)

\* Two ways are the same as long as they turn the same way.
LEMMA SameWay ==
    ASSUME NEW p, NEW root, NEW k, NEW s, NEW path, NEW path2,
           Follows(path, root, p, k), Follows(path2, root, p, s), NEW n \in 1..Len(path),
           \A j \in 1..(n - 1) : Turn(p, path[j], s) = path[j + 1]
    PROVE  n <= Len(path2) /\ path2[n] = path[n]
<1> DEFINE Ok(i) == i <= Len(path2) /\ path2[i] = path[i]
           Bad == {i \in 1..n : ~Ok(i)}
<1>0. PICK l, m \in Nat : l = Len(path) /\ m = Len(path2) /\ l >= 1 /\ m >= 1
  BY LenProperties DEF Follows
<1>1. ASSUME NEW i \in Bad, \A x \in Bad : i <= x PROVE FALSE
  <2>1. i \in 1..n /\ ~Ok(i)
    BY <1>1
  <2>2. CASE i = 1
    BY <1>0, <2>1, <2>2 DEF Follows
  <2>3. CASE i # 1
    <3>1. PICK j \in 1..n : j = i - 1 /\ j + 1 = i /\ j \in 1..(n - 1) /\ ~(i <= j) /\ j \in 1..(l - 1)
      <4>1. i - 1 \in 1..n /\ (i - 1) + 1 = i /\ i - 1 \in 1..(n - 1) /\ ~(i <= i - 1) /\ i - 1 \in 1..(l - 1)
        BY <1>0, <2>1, <2>3
      <4> QED
        BY <4>1
    <3>2. Ok(j)
      BY <1>1, <3>1, Zenon
    <3>3. IsInternal(p[path[j]])
      BY <1>0, <3>1 DEF Follows
    <3>4. j # m
      BY <1>0, <3>2, <3>3 DEF Follows
    <3>5. j \in 1..(m - 1) /\ i <= m
      BY <1>0, <3>1, <3>2, <3>4
    <3>6. path2[j + 1] = Turn(p, path2[j], s)
      BY <1>0, <3>5 DEF Follows, Turn
    <3> QED
      BY <1>0, <2>1, <3>1, <3>2, <3>5, <3>6
  <2> QED
    BY <2>2, <2>3
<1>2. Bad = {}
  <2>1. Bad \in SUBSET Nat
    <3>1. \A i \in 1..n : i \in Nat
      OBVIOUS
    <3> QED
      BY <3>1, Zenon
  <2> HIDE DEF Bad
  <2> QED
    BY <1>1, <2>1, SmallestNat
<1>3. n \in 1..n
  BY <1>0
<1> QED
  BY <1>2, <1>3

\* A key that a page covers is covered by the pages above it, and turns to it there.
LEMMA CoveredAbove ==
    ASSUME NEW p, NEW live, NEW cover, NEW place, NEW root, NEW d, NEW lost,
           Good(p, live, cover, place, {root}, d, lost), NEW k \in Key, NEW s \in Key,
           NEW path, Follows(path, root, p, k), NEW j \in 1..(Len(path) - 1),
           NEW x, NEW y, x = path[j], y = path[j + 1], s \in cover[y]
    PROVE  s \in cover[x] /\ Turn(p, x, s) = y
<1>1. PICK n \in Nat : n = Len(path)
  BY LenProperties DEF Follows
<1>2. j \in 1..n
  BY <1>1
<1>3. path[j] \in live
  BY <1>1, <1>2, WayIsLive
<1>4. PICK E : E = p[x].entries
  OBVIOUS
<1>5. IsInternal(p[x]) /\ y = Route(E, k)
  BY <1>4 DEF Follows
<1>6. BranchAt(E, x, live, cover, place, {root}, lost)
  BY <1>3, <1>4, <1>5 DEF Good, GoodPage
<1>7. PICK i \in 1..Len(E) : Route(E, k) = E[i].child
  BY <1>6, RouteIs DEF BranchAt
<1>8. s \in cover[x] /\ RoutesTo(E, s, i)
  BY <1>5, <1>6, <1>7 DEF BranchAt
<1>9. Route(E, s) = E[i].child
  BY <1>6, <1>8, RouteIs DEF BranchAt
<1> QED
  BY <1>4, <1>5, <1>7, <1>8, <1>9 DEF Turn

LEMMA CoveredOnWay ==
    ASSUME NEW p, NEW live, NEW cover, NEW place, NEW root, NEW d, NEW lost, root = Root(p),
           Good(p, live, cover, place, {root}, d, lost), Walkable(p), NEW k \in Key, NEW s \in Key,
           NEW x \in OnWay(p, k), s \in cover[x]
    PROVE  x \in OnWay(p, s)
<1>1. PICK path : Follows(path, root, p, k) /\ \E i \in 1..Len(path) : path[i] = x
  BY DEF OnWay
<1>2. PICK path2 : Follows(path2, root, p, s)
  BY DEF Walkable
<1>3. PICK n \in 1..Len(path) : path[n] = x
  BY <1>1
<1>4. PICK l \in Nat : l = Len(path)
  BY <1>1, LenProperties DEF Follows
<1> DEFINE Bad == {m \in 0..(n - 1) : s \notin cover[path[n - m]]}
<1>5. ASSUME NEW m \in Bad, \A y \in Bad : m <= y PROVE FALSE
  <2>1. m \in 0..(n - 1) /\ s \notin cover[path[n - m]]
    BY <1>5
  <2>2. m # 0
    <3>1. n - 0 = n
      BY <1>4
    <3> QED
      BY <1>3, <2>1, <3>1
  <2>3. PICK j : j = n - m
    OBVIOUS
  <2>4. j \in 1..(l - 1) /\ m - 1 \in 0..(n - 1) /\ n - (m - 1) = j + 1 /\ ~(m <= m - 1)
    BY <1>4, <2>1, <2>2, <2>3
  <2>5. s \in cover[path[j + 1]]
    BY <1>5, <2>4
  <2>6. PICK z, y : z = path[j] /\ y = path[j + 1]
    OBVIOUS
  <2>7. s \in cover[y] /\ s \notin cover[z]
    BY <2>1, <2>3, <2>5, <2>6
  <2> QED
    BY <1>1, <1>4, <2>4, <2>6, <2>7, CoveredAbove
<1>6. Bad = {}
  <2>1. Bad \in SUBSET Nat
    <3>1. \A i \in 0..(n - 1) : i \in Nat
      OBVIOUS
    <3> QED
      BY <3>1, Zenon
  <2> HIDE DEF Bad
  <2> QED
    BY <1>5, <2>1, SmallestNat
<1>7. ASSUME NEW j \in 1..(n - 1) PROVE Turn(p, path[j], s) = path[j + 1]
  <2>1. j \in 1..(l - 1) /\ n - (j + 1) \in 0..(n - 1) /\ n - (n - (j + 1)) = j + 1
    BY <1>4
  <2>2. s \in cover[path[j + 1]]
    BY <1>6, <2>1
  <2>3. j \in 1..(Len(path) - 1)
    BY <1>4, <2>1
  <2>4. Follows(path, root, p, k)
    BY <1>1
  <2>5. PICK z, y : z = path[j] /\ y = path[j + 1]
    OBVIOUS
  <2>6. s \in cover[y]
    BY <2>2, <2>5
  <2>7. Turn(p, z, s) = y
    BY ONLY <2>3, <2>4, <2>5, <2>6, CoveredAbove, Good(p, live, cover, place, {root}, d, lost),
            k \in Key, s \in Key
  <2> QED
    BY <2>5, <2>7
<1>8. n <= Len(path2) /\ path2[n] = path[n]
  BY <1>1, <1>2, <1>7, SameWay
<1>9. n \in 1..Len(path2)
  BY <1>2, <1>4, <1>8, LenProperties DEF Follows
<1> QED
  BY <1>2, <1>3, <1>8, <1>9 DEF OnWay

LEMMA NextOnWay ==
    ASSUME NEW p, NEW k, NEW x \in OnWay(p, k), IsInternal(p[x])
    PROVE  Route(p[x].entries, k) \in OnWay(p, k)
<1>1. PICK path : Follows(path, Root(p), p, k) /\ \E i \in 1..Len(path) : path[i] = x
  BY DEF OnWay
<1>2. PICK n \in 1..Len(path) : path[n] = x
  BY <1>1
<1>3. PICK l \in Nat : l = Len(path) /\ path \in Seq(PageId)
  BY <1>1, LenProperties DEF Follows
<1>4. n # l
  BY <1>1, <1>2, <1>3 DEF Follows
<1>5. n \in 1..(l - 1) /\ n + 1 \in 1..l
  BY <1>2, <1>3, <1>4
<1>6. path[n + 1] = Route(p[x].entries, k)
  BY <1>1, <1>2, <1>3, <1>5 DEF Follows
<1>7. path[n + 1] \in PageId
  BY <1>3, <1>5, ElementOfSeq
<1> QED
  BY <1>1, <1>3, <1>5, <1>6, <1>7 DEF OnWay

\* A way ends in one page.
LEMMA OneEnd ==
    ASSUME NEW p, NEW k, NEW x \in OnWay(p, k), NEW y \in OnWay(p, k),
           ~IsInternal(p[x]), ~IsInternal(p[y])
    PROVE  x = y
<1>1. PICK path : Follows(path, Root(p), p, k) /\ \E i \in 1..Len(path) : path[i] = x
  BY DEF OnWay
<1>2. PICK path2 : Follows(path2, Root(p), p, k) /\ \E i \in 1..Len(path2) : path2[i] = y
  BY DEF OnWay
<1>3. PICK n, m \in Nat : n = Len(path) /\ m = Len(path2) /\ n >= 1 /\ m >= 1
  BY <1>1, <1>2, LenProperties DEF Follows
<1>4. path[n] = x
  <2>1. PICK i \in 1..n : path[i] = x
    BY <1>1, <1>3
  <2>2. i \in 1..(n - 1) => IsInternal(p[path[i]])
    BY <1>1, <1>3 DEF Follows
  <2>3. i = n
    BY <1>3, <2>1, <2>2
  <2> QED
    BY <2>1, <2>3
<1>5. path2[m] = y
  <2>1. PICK i \in 1..m : path2[i] = y
    BY <1>2, <1>3
  <2>2. i \in 1..(m - 1) => IsInternal(p[path2[i]])
    BY <1>2, <1>3 DEF Follows
  <2>3. i = m
    BY <1>3, <2>1, <2>2
  <2> QED
    BY <2>1, <2>3
<1>6. \A j \in 1..(n - 1) : Turn(p, path[j], k) = path[j + 1]
  <2> TAKE j \in 1..(n - 1)
  <2>1. path[j + 1] = Route(p[path[j]].entries, k)
    BY <1>1, <1>3 DEF Follows
  <2> QED
    BY <2>1 DEF Turn
<1>7. n \in 1..n
  BY <1>3
<1>8. n <= m /\ path2[n] = path[n]
  <2>1. PICK root : root = Root(p)
    OBVIOUS
  <2>2. Follows(path, root, p, k) /\ Follows(path2, root, p, k) /\ n \in 1..Len(path)
    BY <1>1, <1>2, <1>3, <1>7, <2>1
  <2>3. n <= Len(path2) /\ path2[n] = path[n]
    BY ONLY <1>6, <2>2, SameWay
  <2> QED
    BY <1>3, <2>3
<1>9. n \in 1..(m - 1) => IsInternal(p[path2[n]])
  BY <1>2, <1>3 DEF Follows
<1>10. n = m
  BY <1>3, <1>4, <1>8, <1>9
<1> QED
  BY <1>4, <1>5, <1>8, <1>10

LEMMA OnWayIsLive ==
    ASSUME NEW p, NEW live, NEW cover, NEW place, NEW root, NEW d, NEW lost, root = Root(p),
           Good(p, live, cover, place, {root}, d, lost), NEW k \in Key, NEW x \in OnWay(p, k)
    PROVE  x \in live /\ (k \in lost \/ k \in cover[x])
<1>1. PICK path : Follows(path, root, p, k) /\ \E i \in 1..Len(path) : path[i] = x
  BY DEF OnWay
<1>2. PICK n \in Nat : n = Len(path)
  BY <1>1, LenProperties DEF Follows
<1> QED
  BY <1>1, <1>2, WayIsLive

\* k leads through y to x.
Leads(p, y, k, x, live) == y \in OnWay(p, k) /\ IsInternal(p[y]) /\ x = Turn(p, y, k) /\ y \in live

LEMMA ComesFrom ==
    ASSUME NEW p, NEW live, NEW cover, NEW place, NEW root, NEW d, NEW lost, root = Root(p),
           Good(p, live, cover, place, {root}, d, lost), NEW k \in Key, NEW x \in OnWay(p, k), x # root
    PROVE  \E y : Leads(p, y, k, x, live)
<1>1. PICK path : Follows(path, root, p, k) /\ \E i \in 1..Len(path) : path[i] = x
  BY DEF OnWay
<1>2. PICK n \in Nat : n = Len(path) /\ path \in Seq(PageId)
  BY <1>1, LenProperties DEF Follows
<1>3. PICK i \in 1..n : path[i] = x
  BY <1>1, <1>2
<1>4. i # 1
  BY <1>1, <1>3 DEF Follows
<1>5. PICK j : j = i - 1
  OBVIOUS
<1>6. j \in 1..(n - 1) /\ j + 1 = i /\ j \in 1..n
  BY <1>2, <1>3, <1>4, <1>5
<1>7. IsInternal(p[path[j]]) /\ x = Turn(p, path[j], k)
  BY <1>1, <1>2, <1>3, <1>6 DEF Follows, Turn
<1>8. path[j] \in PageId
  BY <1>2, <1>6, ElementOfSeq
<1>9. path[j] \in OnWay(p, k)
  BY <1>1, <1>2, <1>6, <1>8 DEF OnWay
<1>10. path[j] \in live
  BY <1>9, OnWayIsLive
<1> QED
  BY <1>7, <1>9, <1>10 DEF Leads

\* The pages that keys lead to are a good tree by themselves, and lose no key.
LEMMA ReachedBranch ==
    ASSUME NEW p, NEW live, NEW cover, NEW place, NEW root, NEW d, NEW lost, root = Root(p),
           Good(p, live, cover, place, {root}, d, lost), Walkable(p),
           NEW x \in Reach(p), IsInternal(p[x]), NEW E, E = p[x].entries
    PROVE  BranchAt(E, x, Reach(p), Cover(p), place, {root}, {})
<1>1. PICK k0 \in Key : x \in OnWay(p, k0) /\ x \in PageId
  BY DEF Reach
<1>2. x \in live
  BY <1>1, OnWayIsLive
<1>3. BranchAt(E, x, live, cover, place, {root}, lost)
  BY <1>2 DEF Good, GoodPage
<1>4. Separated(E) /\ \A i, j \in 1..Len(E) : E[i].child = E[j].child => i = j
  BY <1>3 DEF BranchAt
<1>5. \A y \in PageId : Cover(p)[y] = {k \in Key : y \in OnWay(p, k)}
  BY DEF Cover
<1>6. \A s \in Key : s \in cover[x] => s \in Cover(p)[x]
  BY <1>1, <1>5, CoveredOnWay
<1>7. \A i \in 2..Len(E) : E[i].key \in Cover(p)[x]
  <2> TAKE i \in 2..Len(E)
  <2>1. E[i].key \in Key /\ E[i].key \in cover[x]
    BY <1>3 DEF BranchAt, Separated
  <2> QED
    BY <1>6, <2>1
<1>8. ASSUME NEW i \in 1..Len(E), NEW k \in Cover(p)[x], RoutesTo(E, k, i)
      PROVE  k \in Key /\ E[i].child \in OnWay(p, k) /\ E[i].child \in PageId
  <2>1. k \in Key /\ x \in OnWay(p, k)
    BY <1>1, <1>5
  <2>2. Route(E, k) = E[i].child
    BY <1>3, <1>8, <2>1, RouteIs DEF BranchAt
  <2>3. Route(E, k) \in OnWay(p, k)
    BY <2>1, NextOnWay
  <2> QED
    BY <2>1, <2>2, <2>3 DEF OnWay
<1>9. ASSUME NEW i \in 1..Len(E) PROVE E[i].child \in Reach(p) \ {root} /\ place[E[i].child] = x
  <2>1. PICK c : c = E[i].child
    OBVIOUS
  <2>2. c \in live \ {root} /\ place[c] = x
    BY <1>3, <2>1 DEF BranchAt
  <2>3. PICK k \in cover[c] : k \in Key
    BY <1>1, <2>2 DEF Good
  <2>4. k \in cover[x] /\ RoutesTo(E, k, i)
    BY <1>3, <2>1, <2>3 DEF BranchAt
  <2>5. c \in OnWay(p, k) /\ c \in PageId
    BY <1>6, <1>8, <2>1, <2>3, <2>4
  <2> QED
    BY <2>1, <2>2, <2>3, <2>5 DEF Reach
<1>10. ASSUME NEW i \in 1..Len(E), NEW k \in Cover(p)[E[i].child]
       PROVE  k \in Cover(p)[x] /\ RoutesTo(E, k, i)
  <2>1. PICK c : c = E[i].child
    OBVIOUS
  <2>2. c \in PageId /\ c # root /\ place[c] = x
    BY <1>9, <2>1 DEF Reach
  <2>3. k \in Key /\ c \in OnWay(p, k)
    BY <1>5, <1>10, <2>1, <2>2
  <2>4. PICK y \in OnWay(p, k) : IsInternal(p[y]) /\ c = Turn(p, y, k) /\ y \in live
    <3>1. \E y : Leads(p, y, k, c, live)
      BY <2>2, <2>3, ComesFrom
    <3> QED
      BY <3>1 DEF Leads
  <2>5. PICK F : F = p[y].entries /\ c = Route(F, k)
    BY <2>4 DEF Turn
  <2>6. BranchAt(F, y, live, cover, place, {root}, lost)
    BY <2>4, <2>5 DEF Good, GoodPage
  <2>7. place[c] = y
    BY <2>3, <2>4, <2>5, <2>6, RouteChild
  <2>8. y = x /\ F = E
    BY <2>2, <2>5, <2>7
  <2>9. RoutesTo(E, k, i)
    BY <1>3, <2>1, <2>3, <2>4, <2>5, <2>8, RouteChild
  <2>10. k \in Cover(p)[x]
    BY <1>1, <1>5, <2>3, <2>4, <2>8
  <2> QED
    BY <2>9, <2>10
<1>11. ASSUME NEW i \in 1..Len(E), NEW k \in Cover(p)[x], RoutesTo(E, k, i)
       PROVE  k \in Cover(p)[E[i].child]
  BY <1>5, <1>8, <1>11
<1> QED
  BY <1>4, <1>7, <1>9, <1>10, <1>11 DEF BranchAt

LEMMA ReachedHolds ==
    ASSUME NEW p, NEW live, NEW cover, NEW place, NEW root, NEW d, NEW lost, root = Root(p),
           Good(p, live, cover, place, {root}, d, lost), Walkable(p),
           NEW x \in Reach(p), ~IsInternal(p[x]), NEW E, E = p[x].entries, NEW C, C = Cover(p)[x]
    PROVE  IsLeaf(p[x]) /\ HoldsAt(E, C, d, lost)
<1>1. PICK k0 \in Key : x \in OnWay(p, k0) /\ x \in PageId
  BY DEF Reach
<1>2. x \in live
  BY <1>1, OnWayIsLive
<1>3. IsLeaf(p[x]) /\ HoldsAt(E, cover[x], d, lost)
  BY <1>2 DEF Good, GoodPage
<1>4. C = {k \in Key : x \in OnWay(p, k)}
  BY <1>1 DEF Cover
<1>5. cover[x] \subseteq C
  <2>1. cover[x] \subseteq Key
    BY <1>1 DEF Good
  <2> QED
    BY <1>1, <1>4, <2>1, CoveredOnWay
<1>6. \A k \in C : k \in lost \/ k \in cover[x]
  BY <1>4, OnWayIsLive
<1> QED
  BY <1>3, <1>5, <1>6 DEF HoldsAt

-----------------------------------------------------------------------------
(* A copy of the pages, behind in some leaves.                             *)

\* The same pages but for what is in the leaves.
Alike(q, p) == \A id \in PageId : q[id] = p[id] \/ (IsLeaf(q[id]) /\ IsLeaf(p[id]))

\* The keys that are not set.
Unset(d) == {k \in Key : d[k] = None}

LEMMA AlikeFacts ==
    ASSUME NEW q, NEW p, Alike(q, p)
    PROVE  \A id \in PageId : /\ IsInternal(q[id]) <=> IsInternal(p[id])
                              /\ IsInternal(p[id]) => q[id] = p[id]
BY DEF Alike, IsInternal, IsLeaf

LEMMA AlikeFollows ==
    ASSUME NEW q, NEW p, Alike(q, p), NEW path, NEW root, NEW k, Follows(path, root, p, k)
    PROVE  Follows(path, root, q, k)
<1>1. PICK n \in Nat : n = Len(path) /\ n >= 1 /\ path \in Seq(PageId) /\ path[1] = root
  BY LenProperties DEF Follows
<1>2. \A i \in 1..n : path[i] \in PageId
  BY <1>1, ElementOfSeq
<1>3. ASSUME NEW i \in 1..(n - 1)
      PROVE  IsInternal(q[path[i]]) /\ path[i + 1] = Route(q[path[i]].entries, k)
  <2>1. IsInternal(p[path[i]]) /\ path[i + 1] = Route(p[path[i]].entries, k) /\ i \in 1..n
    BY <1>1 DEF Follows
  <2>2. q[path[i]] = p[path[i]]
    BY <1>2, <2>1, AlikeFacts
  <2> QED
    BY <2>1, <2>2
<1>4. ~IsInternal(q[path[n]])
  <2>1. ~IsInternal(p[path[n]]) /\ n \in 1..n
    BY <1>1 DEF Follows
  <2> QED
    BY <1>2, <2>1, AlikeFacts
<1> QED
  BY <1>1, <1>3, <1>4 DEF Follows

LEMMA AlikeReach ==
    ASSUME NEW q, NEW p, Alike(q, p), Root(q) = Root(p)
    PROVE  /\ Reach(q) = Reach(p) /\ Cover(q) = Cover(p)
           /\ Walkable(p) => Walkable(q)
<1>1. Alike(p, q)
  BY DEF Alike
<1>2. ASSUME NEW k PROVE OnWay(q, k) = OnWay(p, k)
  <2>1. \A path : Follows(path, Root(p), p, k) => Follows(path, Root(q), q, k)
    BY AlikeFollows
  <2>2. \A path : Follows(path, Root(q), q, k) => Follows(path, Root(p), p, k)
    BY <1>1, AlikeFollows
  <2> QED
    BY <2>1, <2>2, Zenon DEF OnWay
<1>3. Walkable(p) => Walkable(q)
  <2>1. \A path, k : Follows(path, Root(p), p, k) => Follows(path, Root(q), q, k)
    BY AlikeFollows
  <2> QED
    BY <2>1 DEF Walkable
<1> QED
  BY <1>2, <1>3 DEF Reach, Cover

\* r is q with the page id as p has it.
Overlay(r, q, p, id) == r[id] = p[id] /\ \A x \in PageId : x # id => r[x] = q[x]

\* Each key is as in d1 or as in d2.
Mixed(d, d1, d2) == d = [k \in Key |-> d[k]] /\ \A k \in Key : d[k] = d1[k] \/ d[k] = d2[k]

\* The keys of a leaf that is copied are as p has them, the others as in q.
LEMMA Overlaid ==
    ASSUME NEW p, NEW live1, NEW cover1, NEW place1, NEW root, NEW d1, root = Root(p),
           Good(p, live1, cover1, place1, {root}, d1, Unset(d1)), Walkable(p), Key # {},
           NEW q, NEW live2, NEW cover2, NEW place2, NEW d2, root = Root(q),
           Good(q, live2, cover2, place2, {root}, d2, Unset(d2)), Alike(q, p),
           NEW id \in PageId, NEW r, Overlay(r, q, p, id)
    PROVE  \E live, cover, place, d :
              /\ Good(r, live, cover, place, {root}, d, Unset(d))
              /\ Mixed(d, d1, d2)
<1>1. PICK R, C : R = Reach(p) /\ C = Cover(p)
  OBVIOUS
<1>2. R = Reach(q) /\ C = Cover(q) /\ Walkable(q)
  BY <1>1, AlikeReach
<1>3. \A y \in PageId : C[y] = {k \in Key : y \in OnWay(p, k)}
  BY <1>1 DEF Cover
<1>4. PICK d : d = [k \in Key |-> IF k \in C[id] /\ ~IsInternal(p[id]) THEN d1[k] ELSE d2[k]]
  OBVIOUS
<1>5. PICK lost : lost = Unset(d)
  OBVIOUS
<1>6. R \subseteq PageId
  BY <1>1 DEF Reach
<1>7. ASSUME NEW x \in R PROVE GoodPage(r[x], x, R, C, place1, {root}, d, lost)
  <2>1. PICK E : E = r[x].entries
    OBVIOUS
  <2>2. CASE IsInternal(p[x])
    <3>1. r[x] = p[x]
      BY <1>6, <2>2, AlikeFacts DEF Overlay
    <3>2. BranchAt(E, x, R, C, place1, {root}, {})
      BY <1>1, <2>1, <2>2, <3>1, ReachedBranch
    <3>3. BranchAt(E, x, R, C, place1, {root}, lost)
      BY <3>2, Zenon DEF BranchAt
    <3>4. ~IsLeaf(p[x])
      BY <2>2 DEF IsInternal, IsLeaf
    <3> QED
      BY <2>1, <2>2, <3>1, <3>3, <3>4 DEF GoodPage
  <2>3. CASE ~IsInternal(p[x]) /\ x = id
    <3>1. PICK D : D = C[x]
      OBVIOUS
    <3>2. r[x] = p[x]
      BY <2>3 DEF Overlay
    <3>3. IsLeaf(p[x]) /\ HoldsAt(E, D, d1, Unset(d1))
      BY <1>1, <2>1, <2>3, <3>1, <3>2, ReachedHolds
    <3>4. D \subseteq Key /\ \A k \in D : d[k] = d1[k]
      BY <1>3, <1>4, <2>3, <3>1
    <3>5. HoldsAt(E, D, d, lost)
      BY <1>5, <3>3, <3>4 DEF HoldsAt, Unset
    <3> QED
      BY <2>1, <2>3, <3>1, <3>2, <3>3, <3>5 DEF GoodPage
  <2>4. CASE ~IsInternal(p[x]) /\ x # id
    <3>1. PICK D : D = C[x]
      OBVIOUS
    <3>2. r[x] = q[x] /\ x \in PageId
      BY <1>6, <2>4 DEF Overlay
    <3>3. ~IsInternal(q[x])
      BY <2>4, <3>2, AlikeFacts
    <3>4. IsLeaf(q[x]) /\ HoldsAt(E, D, d2, Unset(d2))
      BY <1>2, <2>1, <3>1, <3>2, <3>3, ReachedHolds
    <3>5. D \subseteq Key /\ \A k \in D : x \in OnWay(p, k)
      BY <1>3, <3>1, <3>2
    <3>6. \A k \in D : d[k] = d2[k]
      <4> TAKE k \in D
      <4>1. k \in Key /\ x \in OnWay(p, k)
        BY <3>5
      <4>2. ~IsInternal(p[id]) => id \notin OnWay(p, k)
        BY <2>4, <4>1, OneEnd
      <4> QED
        BY <1>3, <1>4, <4>1, <4>2
    <3>7. HoldsAt(E, D, d, lost)
      BY <1>5, <3>4, <3>5, <3>6 DEF HoldsAt, Unset
    <3> QED
      BY <2>1, <3>1, <3>2, <3>3, <3>4, <3>7 DEF GoodPage
  <2> QED
    BY <2>2, <2>3, <2>4
<1>8. \A k \in Key : root \in OnWay(p, k)
  <2> TAKE k \in Key
  <2>1. root \in PageId /\ \E path : Follows(path, root, p, k)
    BY DEF Walkable
  <2>2. PICK path : Follows(path, root, p, k)
    BY <2>1
  <2>3. path[1] = root /\ 1 \in 1..Len(path)
    BY <2>2, LenProperties DEF Follows
  <2> QED
    BY <2>1, <2>2, <2>3 DEF OnWay
<1>9. root \in PageId
  BY DEF Walkable
<1>10. root \in R /\ \A k \in Key : k \in C[root]
  BY <1>1, <1>3, <1>8, <1>9 DEF Reach
<1>11. C \in [PageId -> SUBSET Key]
  BY <1>1 DEF Cover
<1>12. \A x \in R : C[x] # {}
  BY <1>1, <1>3 DEF Reach
<1>13. Good(r, R, C, place1, {root}, d, lost)
  BY <1>6, <1>7, <1>10, <1>11, <1>12 DEF Good
<1>14. Mixed(d, d1, d2)
  BY <1>4 DEF Mixed
<1> QED
  BY <1>5, <1>13, <1>14

-----------------------------------------------------------------------------
(* The pages of a tree that no call is changing, with ids up to n.         *)

NodesOf(p, n) == {id \in 1..n - 1 : IsLeaf(p[id]) \/ IsInternal(p[id])}

Shaped(p, n, level) ==
    /\ p \in [PageId -> Page] /\ n \in 1..MaxPage + 1 /\ level \in [PageId -> Nat]
    /\ \A id \in PageId : id # 0 => (p[id] = Blank <=> id >= n)
    /\ \A id \in PageId : p[id].next < n
    /\ \/ p[0] = Blank /\ n = 1
       \/ p[0] = Meta(Root(p)) /\ Root(p) \in NodesOf(p, n)
    /\ \A id \in PageId : InPlace(p[id], id, level, NodesOf(p, n))

\* The same of the tree's own pages, which a call may be changing.
Filled ==
    /\ \A id \in PageId : id # 0 => (pages[id] = Blank <=> id >= next_id)
    /\ \A id \in PageId : pages[id].next < next_id

LEMMA TreeShaped ==
    ASSUME NEW level, TreeAt(level), call.op # "closed", Filled
    PROVE  Shaped(pages, next_id, level)
<1>1. pages \in [PageId -> Page] /\ next_id \in 1..MaxPage + 1 /\ level \in [PageId -> Nat]
  BY TypeParts DEF TreeAt, StateOK
<1>2. NodesOf(pages, next_id) = Nodes
  BY DEF NodesOf, Nodes
<1>3. pages[0] = Meta(Root(pages)) /\ Root(pages) \in Nodes
  BY NodeFacts DEF TreeAt
<1>4. \A id \in PageId : InPlace(pages[id], id, level, Nodes)
  BY DEF TreeAt, Levelled
<1> QED
  BY <1>1, <1>2, <1>3, <1>4 DEF Shaped, Filled

LEMMA ShapedTree ==
    ASSUME NEW p, NEW n, NEW level, Shaped(p, n, level), p = pages', n = next_id',
           call' = [op |-> "closed"], StateOK'
    PROVE  TreeInv' /\ Filled'
<1>1. Filled'
  BY DEF Shaped, Filled
<1>2. Nodes' = NodesOf(p, n)
  BY DEF NodesOf, Nodes, IsLeaf, IsInternal
<1>3. call'.op = "closed"
  OBVIOUS
<1>4. PICK root : root = Root(p)
  OBVIOUS
<1>5. Root(pages)' = root
  BY <1>4 DEF Root
<1>6. RootIsNode'
  <2>1. \A id \in n..MaxPage : p[id] = Blank
    <3>1. n \in 1..MaxPage + 1
      BY DEF Shaped
    <3>2. \A id \in n..MaxPage : id \in PageId /\ id # 0 /\ id >= n
      BY <3>1, IdFacts
    <3> QED
      BY <3>2 DEF Shaped
  <2>2. p[0] = Blank \/ (p[0] = Meta(root) /\ root \in NodesOf(p, n))
    BY <1>4 DEF Shaped
  <2>3. \A id \in next_id'..MaxPage : pages'[id] = Blank
    BY <2>1
  <2>4. pages'[0] = Blank \/ (pages'[0] = Meta(root) /\ root \in Nodes')
    BY <1>2, <2>2
  <2> QED
    BY <1>3, <1>5, <2>3, <2>4, IdFacts, Zenon DEF RootIsNode
<1>7. TypeOK'
  <2>1. (TypeOK <=> pages \in [PageId -> Page] /\ StateOK /\ CallOK)'
    BY TypeParts, PTL
  <2>2. pages' \in [PageId -> Page]
    BY DEF Shaped
  <2>3. CallOK'
    BY DEF CallOK
  <2> QED
    BY <2>1, <2>2, <2>3
<1>8. level \in [PageId -> Nat] /\ \A id \in PageId : InPlace(p[id], id, level, NodesOf(p, n))
  BY DEF Shaped
<1>9. Levelled(level)'
  <2>1. \A id \in PageId : InPlace(pages'[id], id, level, Nodes')
    BY <1>2, <1>8
  <2> QED
    BY <2>1, Zenon DEF Levelled
<1>10. OnItsWayUp(level)'
  BY <1>3, Zenon DEF OnItsWayUp
<1> QED
  BY <1>1, <1>6, <1>7, <1>8, <1>9, <1>10, Zenon DEF TreeInv

LEMMA ShapedNodes ==
    ASSUME NEW p, NEW n, NEW level, Shaped(p, n, level)
    PROVE  NodesOf(p, n) \subseteq PageId /\ 0 \notin NodesOf(p, n)
<1>1. n \in 1..MaxPage + 1
  BY DEF Shaped
<1> QED
  BY <1>1, IdFacts DEF NodesOf

\* Pages that differ in their leaves only are as well shaped as each other.
LEMMA AlikeShaped ==
    ASSUME NEW p, NEW n, NEW level, Shaped(p, n, level), NEW q \in [PageId -> Page], Alike(q, p),
           \A id \in PageId : q[id].next < n
    PROVE  Shaped(q, n, level)
<1>1. \A id \in PageId : /\ IsLeaf(q[id]) <=> IsLeaf(p[id])
                         /\ IsInternal(q[id]) <=> IsInternal(p[id])
                         /\ ~IsLeaf(p[id]) => q[id] = p[id]
  BY DEF Alike, IsLeaf, IsInternal
<1>2. n \in 1..MaxPage + 1 /\ \A id \in 1..n - 1 : id \in PageId
  <2>1. n \in 1..MaxPage + 1
    BY DEF Shaped
  <2> QED
    BY <2>1, IdFacts
<1>3. NodesOf(q, n) = NodesOf(p, n)
  BY <1>1, <1>2, Zenon DEF NodesOf
<1>4. ~IsLeaf(p[0])
  <2>1. CASE p[0] = Blank
    BY <2>1, BlankFacts
  <2>2. CASE p[0] = Meta(Root(p)) /\ Root(p) \in NodesOf(p, n)
    BY <2>2, ShapedNodes, MetaFacts
  <2> QED
    BY <2>1, <2>2 DEF Shaped
<1>5. q[0] = p[0] /\ Root(q) = Root(p)
  BY <1>1, <1>4, IdFacts DEF Root
<1>6. ASSUME NEW id \in PageId, id # 0 PROVE q[id] = Blank <=> id >= n
  <2>1. CASE IsLeaf(p[id])
    <3>1. q[id] # Blank /\ p[id] # Blank
      BY <1>1, <2>1, BlankFacts
    <3> QED
      BY <1>6, <3>1 DEF Shaped
  <2>2. CASE ~IsLeaf(p[id])
    BY <1>1, <1>6, <2>2 DEF Shaped
  <2> QED
    BY <2>1, <2>2
<1>7. ASSUME NEW id \in PageId PROVE InPlace(q[id], id, level, NodesOf(q, n))
  <2>1. InPlace(p[id], id, level, NodesOf(p, n))
    BY DEF Shaped
  <2>2. CASE IsLeaf(p[id])
    <3>1. level[id] = 0 /\ IsLeaf(q[id]) /\ ~IsInternal(q[id])
      BY <1>1, <2>1, <2>2 DEF InPlace, IsLeaf, IsInternal
    <3> QED
      BY <3>1, LeafInPlace
  <2>3. CASE ~IsLeaf(p[id])
    BY <1>1, <1>3, <2>1, <2>3
  <2> QED
    BY <2>2, <2>3
<1>8. (p[0] = Blank /\ n = 1) \/ (p[0] = Meta(Root(p)) /\ Root(p) \in NodesOf(p, n))
  BY DEF Shaped
<1>9. (q[0] = Blank /\ n = 1) \/ (q[0] = Meta(Root(q)) /\ Root(q) \in NodesOf(q, n))
  BY <1>3, <1>5, <1>8
<1>10. level \in [PageId -> Nat]
  BY DEF Shaped
<1> QED
  BY <1>2, <1>6, <1>7, <1>9, <1>10, Zenon DEF Shaped

\* A page of p written over q leaves it well shaped, and like p.
LEMMA ShapedWritten ==
    ASSUME NEW p, NEW n, NEW level, Shaped(p, n, level), NEW q, NEW level2, Shaped(q, n, level2),
           Alike(q, p), NEW id \in PageId, NEW r, Overlay(r, q, p, id), r \in [PageId -> Page]
    PROVE  Shaped(r, n, level) /\ Alike(r, p)
<1>1. \A x \in PageId : r[x] = p[x] \/ r[x] = q[x]
  BY DEF Overlay
<1>2. Alike(r, p)
  BY <1>1 DEF Alike
<1>3. \A x \in PageId : r[x].next < n
  BY <1>1 DEF Shaped
<1> QED
  BY <1>2, <1>3, AlikeShaped

LEMMA ShapedRoutes ==
    ASSUME NEW p, NEW n, NEW level, Shaped(p, n, level), NEW k
    PROVE  /\ RoutesDown(p, k, level)
           /\ \A id \in PageId : IsInternal(p[id]) => Route(p[id].entries, k) \in NodesOf(p, n)
<1>0. NodesOf(p, n) \subseteq PageId
  BY ShapedNodes
<1>1. ASSUME NEW id \in PageId, IsInternal(p[id])
      PROVE  /\ Route(p[id].entries, k) \in NodesOf(p, n)
             /\ level[id] = level[Route(p[id].entries, k)] + 1
  <2>1. PICK entries, h, nodes : entries = p[id].entries /\ h = level[id] /\ nodes = NodesOf(p, n)
    OBVIOUS
  <2>2. p[id] \in Page
    BY DEF Shaped
  <2>3. entries \in Seq(ChildEntry)
    BY <1>1, <2>1, <2>2, PageFacts
  <2>4. OneAbove(entries, h, level, nodes)
    BY <1>1, <2>1 DEF Shaped, InPlace
  <2>5. Route(entries, k) \in nodes /\ h = level[Route(entries, k)] + 1
    BY <2>3, <2>4, RouteIsBelow
  <2> QED
    BY <2>1, <2>5
<1> QED
  BY <1>0, <1>1 DEF RoutesDown

LEMMA ShapedFollows ==
    ASSUME NEW p, NEW n, NEW level, Shaped(p, n, level), p[0] # Blank, NEW k
    PROVE  Follows(PathTo(p, k), Root(p), p, k) /\ Root(p) \in PageId /\ Root(p) \in NodesOf(p, n)
<1>1. Root(p) \in NodesOf(p, n)
  BY DEF Shaped
<1>2. Root(p) \in PageId
  BY <1>1, ShapedNodes
<1>3. RoutesDown(p, k, level) /\ level \in [PageId -> Nat]
  BY ShapedRoutes DEF Shaped
<1> QED
  BY <1>1, <1>2, <1>3, PathToFollows

LEMMA ShapedWalkable ==
    ASSUME NEW p, NEW n, NEW level, Shaped(p, n, level), p[0] # Blank
    PROVE  Walkable(p)
<1>1. \A k \in Key : Follows(PathTo(p, k), Root(p), p, k) /\ Root(p) \in PageId
  BY ShapedFollows
<1>2. Root(p) \in PageId
  BY ShapedNodes DEF Shaped
<1> QED
  BY <1>1, <1>2 DEF Walkable

\* What get finds in a good tree, and in any well-shaped one.
LEMMA GoodGets ==
    ASSUME NEW p, NEW live, NEW cover, NEW place, NEW root, NEW d, NEW lost,
           Good(p, live, cover, place, {root}, d, lost), root = Root(p), lost = Unset(d),
           NEW k \in Key, NEW path, path = PathTo(p, k), Follows(path, root, p, k)
    PROVE  Get(p, k) = d[k]
<1>1. PICK n \in Nat : n = Len(path) /\ n >= 1
  BY LenProperties DEF Follows
<1>2. PICK x : x = path[n]
  OBVIOUS
<1>3. x = Last(path) /\ n \in 1..n
  BY <1>1, <1>2 DEF Last
<1>4. x \in live /\ (k \in lost \/ k \in cover[x])
  BY <1>1, <1>2, <1>3, WayIsLive
<1>5. ~IsInternal(p[x])
  BY <1>1, <1>2 DEF Follows
<1>6. PICK E, C : E = p[x].entries /\ C = cover[x]
  OBVIOUS
<1>7. HoldsAt(E, C, d, lost)
  BY <1>4, <1>5, <1>6 DEF Good, GoodPage
<1>8. PICK g : g = Get(p, k)
  OBVIOUS
<1>9. g = LET found == {i \in DOMAIN E : E[i].key = k}
          IN  IF found = {} THEN None ELSE E[Min(found)].value
  BY <1>3, <1>6, <1>8 DEF Get
<1>10. HoldsAt(E, C, d, lost) /\ (k \in lost \/ k \in C)
  BY <1>4, <1>6, <1>7
<1>11. g = d[k] \/ (g = None /\ k \in lost)
  BY ONLY k \in Key, <1>9, <1>10, LeafGives
<1> QED
  BY <1>8, <1>11 DEF Unset

LEMMA ShapedGets ==
    ASSUME NEW p, NEW n, NEW level, Shaped(p, n, level), p[0] # Blank, NEW k
    PROVE  Get(p, k) \in Val \cup {None}
<1>1. PICK path, root : path = PathTo(p, k) /\ root = Root(p)
  OBVIOUS
<1>2. Follows(path, root, p, k) /\ root \in NodesOf(p, n)
  BY <1>1, ShapedFollows
<1>3. PICK m \in Nat : m = Len(path) /\ m >= 1
  BY <1>2, LenProperties DEF Follows
<1>4. PICK x : x = path[m]
  OBVIOUS
<1>5. x = Last(path) /\ ~IsInternal(p[x])
  BY <1>2, <1>3, <1>4 DEF Last, Follows
<1>6. x \in NodesOf(p, n)
  <2>1. CASE m = 1
    BY <1>2, <1>4, <2>1 DEF Follows
  <2>2. CASE m # 1
    <3>1. m - 1 \in 1..(m - 1) /\ (m - 1) + 1 = m /\ m - 1 \in 1..m
      BY <1>3, <2>2
    <3>2. PICK y : y = path[m - 1]
      OBVIOUS
    <3>3. IsInternal(p[y]) /\ x = Route(p[y].entries, k) /\ path \in Seq(PageId)
      BY <1>2, <1>3, <1>4, <3>1, <3>2 DEF Follows
    <3>4. y \in PageId
      BY <1>3, <3>1, <3>2, <3>3, ElementOfSeq
    <3> QED
      BY <3>3, <3>4, ShapedRoutes
  <2> QED
    BY <2>1, <2>2
<1>7. IsLeaf(p[x]) /\ x \in PageId
  BY <1>5, <1>6, ShapedNodes DEF NodesOf
<1>8. PICK E \in Seq(LeafEntry) : E = p[x].entries
  <2>1. p[x] \in Page
    BY <1>7 DEF Shaped
  <2> QED
    BY <1>7, <2>1, PageFacts
<1>9. PICK l \in Nat : l = Len(E) /\ DOMAIN E = 1..l
  BY LenProperties
<1>10. PICK found : found = {i \in 1..l : E[i].key = k}
  OBVIOUS
<1>11. Get(p, k) = IF found = {} THEN None ELSE E[Min(found)].value
  BY <1>1, <1>5, <1>8, <1>9, <1>10 DEF Get
<1>12. ASSUME found # {} PROVE E[Min(found)].value \in Val
  <2>1. found \in SUBSET Nat
    <3>1. \A i \in 1..l : i \in Nat
      OBVIOUS
    <3> QED
      BY <1>10, <3>1
  <2>2. PICK i \in found : i = Min(found)
    BY <1>12, <2>1, MinIs
  <2>3. i \in 1..l
    BY <1>10, <2>2
  <2>4. E[i] \in LeafEntry
    BY <1>9, <2>3, ElementOfSeq
  <2> QED
    BY <2>2, <2>4 DEF LeafEntry
<1> QED
  BY <1>11, <1>12

-----------------------------------------------------------------------------
(* Ids stay in order.                                                      *)

LEMMA PageShapes ==
    /\ Blank.next = NoSlot /\ \A e : Internal(e).next = NoSlot /\ Internal(e) # Blank
    /\ \A e, n : Leaf(e, n).next = n /\ Leaf(e, n) # Blank /\ IsLeaf(Leaf(e, n))
    /\ \A r : Meta(r).next = NoSlot /\ Meta(r) # Blank
<1>1. Blank.type = "data" /\ Blank.next = NoSlot
  BY DEF Blank
<1>2. \A e : Internal(e).next = NoSlot /\ Internal(e).type = "internal"
  BY DEF Internal
<1>3. \A e, n : Leaf(e, n).next = n /\ Leaf(e, n).type = "leaf"
  BY DEF Leaf
<1>4. \A r : Meta(r).next = NoSlot /\ Meta(r).type = "meta"
  BY DEF Meta
<1>5. "data" # "internal" /\ "data" # "leaf" /\ "data" # "meta"
  OBVIOUS
<1> QED
  BY <1>1, <1>2, <1>3, <1>4, <1>5 DEF IsLeaf

\* A step that puts pages at C, the new id among them.
LEMMA FilledAfter ==
    ASSUME TypeOK, Filled, NEW C, next_id' = next_id \/ (next_id' = next_id + 1 /\ next_id \in C),
           \A id \in PageId : id \notin C => pages'[id] = pages[id],
           \A id \in PageId : id \in C => pages'[id] # Blank /\ pages'[id].next < next_id',
           \A id \in C : id < next_id'
    PROVE  Filled'
<1>1. PICK n, m \in Nat : n = next_id /\ m = next_id' /\ n <= m /\ n >= 1
  BY IdFacts, TypeParts DEF StateOK
<1>2. ASSUME NEW id \in PageId, id # 0 PROVE pages'[id] = Blank <=> id >= next_id'
  <2>1. CASE id \in C
    <3>1. id \in Nat /\ id < m /\ pages'[id] # Blank
      BY <1>1, <2>1, IdFacts
    <3> QED
      BY <1>1, <3>1
  <2>2. CASE id \notin C
    <3>1. pages'[id] = Blank <=> id >= n
      BY <1>1, <1>2, <2>2 DEF Filled
    <3>2. m = n \/ (m = n + 1 /\ id # n)
      BY <1>1, <2>2
    <3>3. id >= n <=> id >= m
      BY <1>1, <3>2, IdFacts
    <3> QED
      BY <1>1, <3>1, <3>3
  <2> QED
    BY <2>1, <2>2
<1>3. ASSUME NEW id \in PageId PROVE pages'[id].next < next_id'
  <2>1. CASE id \in C
    BY <2>1
  <2>2. CASE id \notin C
    <3>1. PICK x : x = pages[id].next
      OBVIOUS
    <3>2. x < n
      BY <1>1, <3>1 DEF Filled
    <3>3. x \in Int
      <4>1. pages[id] \in Page
        BY TypeParts
      <4> QED
        BY <3>1, <4>1, IdFacts DEF Page, Blank, NoSlot
    <3>4. x < m
      BY <1>1, <3>2, <3>3
    <3> QED
      BY <1>1, <2>2, <3>1, <3>4
  <2> QED
    BY <2>1, <2>2
<1> QED
  BY <1>2, <1>3 DEF Filled

LEMMA PutOne ==
    ASSUME TypeOK, NEW a \in PageId, NEW p, Rewrite(a, p)
    PROVE  pages'[a] = p /\ \A id \in PageId : id # a => pages'[id] = pages[id]
BY DEF TypeOK, Rewrite

LEMMA PutTwo ==
    ASSUME TypeOK, NEW a \in PageId, NEW p, NEW b \in PageId, NEW q, a # b, RewriteBoth(a, p, b, q)
    PROVE  /\ pages'[a] = p /\ pages'[b] = q
           /\ \A id \in PageId : id # a /\ id # b => pages'[id] = pages[id]
BY DEF TypeOK, RewriteBoth

\* What FilledAfter needs of the ids and links of old pages.
LEMMA OldIds ==
    ASSUME TypeOK, RootIsNode, Filled, next_id' = next_id \/ next_id' = next_id + 1
    PROVE  /\ \A id \in Nodes : id < next_id'
           /\ 0 < next_id' /\ NoSlot < next_id'
           /\ next_id' = next_id + 1 => next_id < next_id'
           /\ \A id \in PageId : pages[id].next < next_id'
<1>1. PICK n, m \in Nat : n = next_id /\ m = next_id' /\ n <= m /\ n >= 1
  BY IdFacts, TypeParts DEF StateOK
<1>2. ASSUME NEW id \in Nodes PROVE id < m
  <2>1. id \in 1..n - 1
    BY <1>1, <1>2 DEF Nodes
  <2> QED
    BY <1>1, <2>1
<1>3. 0 < m /\ NoSlot < m
  BY <1>1 DEF NoSlot
<1>4. m = n + 1 => n < m
  BY <1>1
<1>5. ASSUME NEW id \in PageId PROVE pages[id].next < m
  <2>1. PICK x : x = pages[id].next
    OBVIOUS
  <2>2. x < n
    BY <1>1, <2>1 DEF Filled
  <2>3. x \in Int
    <3>1. pages[id] \in Page
      BY TypeParts
    <3> QED
      BY <2>1, <3>1, IdFacts DEF Page, Blank, NoSlot
  <2> QED
    BY <1>1, <2>1, <2>2, <2>3
<1> QED
  BY <1>1, <1>2, <1>3, <1>4, <1>5

\* What a step rewrites is dirty after it.
Dirtied ==
    /\ dirty \subseteq dirty' /\ dirty' # {}
    /\ \A id \in PageId : id \notin dirty' => pages'[id] = pages[id]

LEMMA RewriteDirties ==
    ASSUME TypeOK, NEW a \in PageId, NEW p, Rewrite(a, p)
    PROVE  Dirtied /\ a \in dirty'
BY PutOne DEF Rewrite, Dirtied

LEMMA RewriteBothDirties ==
    ASSUME TypeOK, NEW a \in PageId, NEW p, NEW b \in PageId, NEW q, a # b, RewriteBoth(a, p, b, q)
    PROVE  Dirtied /\ a \in dirty' /\ b \in dirty'
<1>1. dirty' = dirty \cup {a, b}
  BY DEF RewriteBoth
<1>2. \A id \in PageId : id # a /\ id # b => pages'[id] = pages[id]
  BY PutTwo
<1> QED
  BY <1>1, <1>2 DEF Dirtied

LEMMA InsertInLeafShape ==
    ASSUME TreeInv, Filled, NEW k \in Key, NEW v \in Val, InsertInLeaf(k, v)
    PROVE  Filled' /\ Dirtied /\ next_id' = next_id /\ call' = Idle /\ Alike(pages', pages)
<1>1. PICK level : TreeAt(level)
  BY TreeInvAt
<1>2. PICK path \in Descent(k) :
         /\ call = Idle
         /\ Rewrite(Last(path), Leaf(Upsert(pages[Last(path)].entries, k, v), pages[Last(path)].next))
         /\ UNCHANGED <<next_id, call, errors>>
  BY DEF InsertInLeaf
<1>3. PICK id, n, e : id = Last(path) /\ n = pages[id].next /\ e = Upsert(pages[id].entries, k, v)
  OBVIOUS
<1>4. TypeOK /\ RootIsNode /\ next_id' = next_id /\ call' = Idle
  BY <1>1, <1>2 DEF TreeAt
<1>5. id \in Nodes /\ id \in PageId /\ IsLeaf(pages[id])
  BY <1>1, <1>2, <1>3, <1>4, DescentFacts, NodeFacts
<1>6. PICK p : p = Leaf(e, n) /\ Rewrite(id, p)
  BY <1>2, <1>3
<1>7. pages'[id] = p /\ \A x \in PageId : x # id => pages'[x] = pages[x]
  BY <1>4, <1>5, <1>6, PutOne
<1>8. Dirtied
  BY <1>4, <1>5, <1>6, RewriteDirties
<1>9. p # Blank /\ p.next = n /\ IsLeaf(p)
  BY <1>6, PageShapes
<1>10. Alike(pages', pages)
  BY <1>5, <1>7, <1>9 DEF Alike
<1>11. n < next_id' /\ id < next_id'
  BY <1>3, <1>4, <1>5, OldIds
<1>12. PICK C : C = {id}
  OBVIOUS
<1>13. /\ \A x \in PageId : x \notin C => pages'[x] = pages[x]
       /\ \A x \in PageId : x \in C => pages'[x] # Blank /\ pages'[x].next < next_id'
       /\ \A x \in C : x < next_id'
  BY <1>7, <1>9, <1>11, <1>12
<1>14. Filled'
  BY ONLY <1>4, <1>13, Filled, FilledAfter
<1> QED
  BY <1>4, <1>8, <1>10, <1>14

LEMMA TwoFilled ==
    ASSUME TypeOK, RootIsNode, Filled, Allocate, NEW id, id \in Nodes \/ id = 0, NEW p, NEW q,
           RewriteBoth(id, p, next_id, q) \/ RewriteBoth(next_id, q, id, p),
           p # Blank, q # Blank, p.next < next_id', q.next < next_id'
    PROVE  Filled' /\ Dirtied /\ next_id' = next_id + 1 /\ 0 < next_id' /\ pages'[id] = p /\ pages'[next_id] = q
           /\ id \in dirty' /\ next_id \in PageId
           /\ \A x \in PageId : x # id /\ x # next_id => pages'[x] = pages[x]
<1>1. PICK n : n = next_id
  OBVIOUS
<1>2. n \in PageId /\ n # 0 /\ n \notin Nodes /\ next_id' = n + 1
  BY <1>1, AllocateFacts
<1>3. id \in PageId /\ id # n
  BY <1>1, <1>2, NodeFacts, IdFacts
<1>5. /\ pages'[id] = p /\ pages'[n] = q /\ Dirtied /\ id \in dirty' /\ n \in dirty'
      /\ \A x \in PageId : x # id /\ x # n => pages'[x] = pages[x]
  BY <1>1, <1>2, <1>3, PutTwo, RewriteBothDirties
<1>6. id < next_id' /\ n < next_id' /\ 0 < next_id'
  BY <1>1, <1>2, OldIds
<1>7. PICK C : C = {id, n}
  OBVIOUS
<1>8. /\ \A x \in PageId : x \notin C => pages'[x] = pages[x]
      /\ \A x \in PageId : x \in C => pages'[x] # Blank /\ pages'[x].next < next_id'
      /\ \A x \in C : x < next_id'
  BY <1>5, <1>6, <1>7
<1>9. next_id' = next_id + 1 /\ next_id \in C
  BY <1>1, <1>2, <1>7
<1>10. Filled'
  BY ONLY <1>8, <1>9, TypeOK, Filled, FilledAfter
<1> QED
  BY <1>1, <1>2, <1>5, <1>6, <1>10

LEMMA SplitLeafShape ==
    ASSUME TreeInv, Filled, NEW k \in Key, NEW v \in Val, SplitLeaf(k, v)
    PROVE  Filled' /\ Dirtied /\ next_id' = next_id + 1 /\ call'.op = "insert"
<1>1. PICK level : TreeAt(level)
  BY TreeInvAt
<1>2. PICK path \in Descent(k) :
         LET id == Last(path)
             halves == Halves(Upsert(pages[id].entries, k, v))
         IN  /\ call = Idle
             /\ Allocate
             /\ Linked(id, next_id, halves)
             /\ call' = Ascending(Front(path), halves.right[1].key, next_id)
  BY DEF SplitLeaf
<1>3. PICK id, n, halves : /\ id = Last(path) /\ n = pages[id].next
                           /\ halves = Halves(Upsert(pages[id].entries, k, v))
  OBVIOUS
<1>4. TypeOK /\ RootIsNode /\ call = Idle /\ Allocate /\ call'.op = "insert"
  BY <1>1, <1>2 DEF TreeAt, Ascending
<1>5. id \in Nodes /\ id \in PageId
  BY <1>1, <1>2, <1>3, <1>4, DescentFacts, NodeFacts
<1>6. PICK p, q : /\ p = Leaf(halves.left, next_id) /\ q = Leaf(halves.right, n)
                  /\ RewriteBoth(id, p, next_id, q)
  BY <1>2, <1>3 DEF Linked
<1>7. next_id' = next_id + 1
  BY <1>4 DEF Allocate
<1>8. p # Blank /\ q # Blank /\ p.next < next_id' /\ q.next < next_id'
  BY <1>3, <1>4, <1>5, <1>6, <1>7, PageShapes, OldIds
<1>9. Filled' /\ Dirtied
  BY ONLY <1>4, <1>5, <1>6, <1>8, Filled, TwoFilled
<1> QED
  BY <1>4, <1>7, <1>9

LEMMA AscendShape ==
    ASSUME TreeInv, Filled, Ascend
    PROVE  Filled' /\ Dirtied /\ (next_id' = next_id \/ next_id' = next_id + 1)
           /\ (call' = Idle \/ (call'.op = "insert" /\ next_id' = next_id + 1))
<1>1. PICK level : TreeAt(level)
  BY TreeInvAt
<1>2. PICK id : id = Last(call.path)
  OBVIOUS
<1>3. PICK entries : entries = WithChild(pages[id].entries, call.sep, call.child)
  OBVIOUS
<1>4. call.op = "insert" /\ call.path # <<>>
  BY DEF Ascend
<1>5. TypeOK /\ RootIsNode
  BY <1>1 DEF TreeAt
<1>6. id \in Nodes /\ id \in PageId
  BY <1>1, <1>2, <1>3, <1>4, <1>5, ParentFacts, NodeFacts
<1>7. CASE Len(entries) <= MaxEntries
  <2>1. PICK p : p = Internal(entries) /\ Rewrite(id, p) /\ call' = Idle /\ next_id' = next_id
    BY <1>2, <1>3, <1>7 DEF Ascend
  <2>2. pages'[id] = p /\ \A x \in PageId : x # id => pages'[x] = pages[x]
    BY <1>5, <1>6, <2>1, PutOne
  <2>3. Dirtied
    BY <1>5, <1>6, <2>1, RewriteDirties
  <2>4. p # Blank /\ p.next < next_id' /\ id < next_id'
    BY <1>5, <1>6, <2>1, PageShapes, OldIds
  <2>5. PICK C : C = {id}
    OBVIOUS
  <2>6. /\ \A x \in PageId : x \notin C => pages'[x] = pages[x]
        /\ \A x \in PageId : x \in C => pages'[x] # Blank /\ pages'[x].next < next_id'
        /\ \A x \in C : x < next_id'
    BY <2>2, <2>4, <2>5
  <2>7. Filled'
    BY ONLY <1>5, <2>1, <2>6, Filled, FilledAfter
  <2> QED
    BY <2>1, <2>3, <2>7
<1>8. CASE ~(Len(entries) <= MaxEntries)
  <2>1. PICK halves : halves = SplitAround(entries)
    OBVIOUS
  <2>2. PICK p, q : /\ p = Internal(halves.left) /\ q = Internal(halves.right)
                    /\ RewriteBoth(id, p, next_id, q) /\ Allocate /\ call' = Told(halves)
    BY <1>2, <1>3, <1>8, <2>1 DEF Ascend
  <2>3. next_id' = next_id + 1 /\ call'.op = "insert"
    BY <2>2 DEF Allocate, Told, Ascending
  <2>4. p # Blank /\ q # Blank /\ p.next < next_id' /\ q.next < next_id'
    BY <1>5, <2>2, <2>3, PageShapes, OldIds
  <2>5. Filled' /\ Dirtied
    BY ONLY <1>5, <1>6, <2>2, <2>4, Filled, TwoFilled
  <2> QED
    BY <2>3, <2>5
<1> QED
  BY <1>7, <1>8

LEMMA GrowRootShape ==
    ASSUME TreeInv, Filled, GrowRoot
    PROVE  Filled' /\ Dirtied /\ next_id' = next_id + 1 /\ call' = Idle
<1>1. PICK level : TreeAt(level)
  BY TreeInvAt
<1>2. TypeOK /\ RootIsNode
  BY <1>1 DEF TreeAt
<1>3. PICK p, q, z : /\ q = NewRootPage /\ p = Meta(next_id) /\ z = 0
                     /\ RewriteBoth(next_id, q, z, p) /\ Allocate /\ call' = Idle
  BY IdFacts DEF GrowRoot
<1>4. next_id' = next_id + 1
  BY <1>3 DEF Allocate
<1>5. p # Blank /\ q # Blank /\ p.next < next_id' /\ q.next < next_id'
  BY <1>2, <1>3, <1>4, PageShapes, OldIds DEF NewRootPage
<1>6. Filled' /\ Dirtied
  BY ONLY <1>2, <1>3, <1>5, Filled, TwoFilled
<1> QED
  BY <1>3, <1>4, <1>6

\* The first open puts an empty leaf below the meta page; a later one changes no page.
LEMMA OpenShape ==
    ASSUME TreeInv, Filled, Open
    PROVE  /\ Filled' /\ Dirtied /\ call' = Idle
           /\ pages[0] = Blank =>
                /\ next_id' = next_id + 1 /\ next_id \in PageId
                /\ pages'[0] = Meta(next_id) /\ pages'[next_id] = Leaf(<<>>, NO_SIBLING)
                /\ \A x \in PageId : x # 0 /\ x # next_id => pages'[x] = pages[x]
           /\ pages[0] # Blank => pages' = pages /\ next_id' = next_id
<1>1. PICK level : TreeAt(level)
  BY TreeInvAt
<1>2. TypeOK /\ RootIsNode
  BY <1>1 DEF TreeAt
<1>3. call' = Idle
  BY DEF Open
<1>4. CASE pages[0] = Blank
  <2>1. PICK p, q, z : /\ q = Leaf(<<>>, NO_SIBLING) /\ p = Meta(next_id) /\ z = 0
                       /\ RewriteBoth(next_id, q, z, p) /\ Allocate
    BY <1>4, IdFacts, BlankFacts DEF Open
  <2>2. next_id' = next_id + 1
    BY <2>1 DEF Allocate
  <2>3. p # Blank /\ q # Blank /\ p.next < next_id' /\ q.next < next_id'
    BY <1>2, <2>1, <2>2, PageShapes, OldIds DEF NO_SIBLING
  <2>4. /\ Filled' /\ Dirtied /\ pages'[z] = p /\ pages'[next_id] = q /\ next_id \in PageId
        /\ \A x \in PageId : x # z /\ x # next_id => pages'[x] = pages[x]
    BY ONLY <1>2, <2>1, <2>3, Filled, TwoFilled
  <2> QED
    BY <1>3, <1>4, <2>1, <2>2, <2>4
<1>5. CASE pages[0] # Blank
  <2>1. pages[0] = Meta(Root(pages)) /\ Root(pages) \in PageId
    BY <1>2, <1>5, NodeFacts, IdFacts DEF RootIsNode
  <2>2. pages[0].entries # <<>>
    BY <2>1, MetaFacts
  <2>3. PICK p, z : p = pages[0] /\ z = 0 /\ Rewrite(z, p) /\ next_id' = next_id
    BY <2>2, IdFacts DEF Open
  <2>4. Dirtied
    BY <1>2, <2>3, RewriteDirties, IdFacts
  <2>5. pages' = pages
    <3>1. pages' = [pages EXCEPT ![0] = pages[0]] /\ pages \in [PageId -> Page]
      BY <1>2, <2>3, TypeParts DEF Rewrite
    <3> QED
      BY <3>1
  <2>6. Filled'
    BY <2>3, <2>5 DEF Filled
  <2> QED
    BY <1>3, <1>5, <2>3, <2>4, <2>5, <2>6
<1> QED
  BY <1>4, <1>5
=============================================================================
