--------------------------- MODULE IndexedProofs ---------------------------
(***************************************************************************)
(* The indexed store, for any keys, values, page sizes and checkpoint      *)
(* interval: if no crash finds the disk torn and no call fails in the      *)
(* middle of a split, the index reflects the log, the sentinel is sound    *)
(* and a checkpoint leaves nothing.                                        *)
(***************************************************************************)
EXTENDS Indexed, InductionProofs

\* What is proved of the tree, with the keys and values of the index.
M == INSTANCE BTreeProofs WITH
        Key <- IndexKey, Val <- IndexValue, Size <- [v \in IndexValue |-> 1],
        IoMayFail <- FALSE, MaxErrors <- 0, errors <- 0

LEMMA TreeAssumptions == M!KeyAssumption /\ M!SpaceAssumption /\ M!BoundsAssumption
BY EntryAssumption, SpaceAssumption, BoundsAssumption
   DEF M!KeyAssumption, M!SpaceAssumption, M!BoundsAssumption, IndexKey, Sentinel

-----------------------------------------------------------------------------
(* The operators of the tree in Indexed are those of the proofs.           *)

LEMMA SameIds == T!PageId = M!PageId /\ T!META_PAGE_ID = M!META_PAGE_ID /\ T!Idle = M!Idle
                 /\ T!NO_SIBLING = M!NO_SIBLING /\ T!NoSlot = M!NoSlot
BY Zenon DEF T!PageId, M!PageId, T!META_PAGE_ID, M!META_PAGE_ID, T!Idle, M!Idle,
             T!NO_SIBLING, M!NO_SIBLING, T!NoSlot, M!NoSlot

LEMMA SameEntries ==
    ASSUME NEW k, NEW c, NEW p
    PROVE  /\ T!Entry(k, c) = M!Entry(k, c) /\ T!InternalEntry(k, c) = M!InternalEntry(k, c)
           /\ T!Leftmost(c) = M!Leftmost(c)
           /\ (T!IsLeaf(p) <=> M!IsLeaf(p)) /\ (T!IsInternal(p) <=> M!IsInternal(p))
           /\ T!Root(p) = M!Root(p)
BY Zenon DEF T!Entry, M!Entry, T!InternalEntry, M!InternalEntry, T!Leftmost, M!Leftmost,
             T!IsLeaf, M!IsLeaf, T!IsInternal, M!IsInternal, T!Root, M!Root,
             T!META_PAGE_ID, M!META_PAGE_ID

LEMMA SamePages ==
    ASSUME NEW e, NEW n
    PROVE  /\ T!Leaf(e, n) = M!Leaf(e, n) /\ T!Internal(e) = M!Internal(e)
           /\ T!Meta(n) = M!Meta(n) /\ T!Blank = M!Blank
BY Zenon DEF T!Leaf, M!Leaf, T!Internal, M!Internal, T!Meta, M!Meta, T!Blank, M!Blank,
             T!NoSlot, M!NoSlot, T!Leftmost, M!Leftmost, T!InternalEntry, M!InternalEntry

LEMMA SameMax ==
    ASSUME NEW S
    PROVE  T!Max(S) = M!Max(S) /\ T!Min(S) = M!Min(S)
BY Zenon DEF T!Max, M!Max, T!Min, M!Min

LEMMA SameSequences ==
    ASSUME NEW s, NEW i, NEW e
    PROVE  /\ T!InsertAt(s, i, e) = M!InsertAt(s, i, e)
           /\ T!Last(s) = M!Last(s) /\ T!Front(s) = M!Front(s)
BY Zenon DEF T!InsertAt, M!InsertAt, T!Last, M!Last, T!Front, M!Front

LEMMA SamePath ==
    ASSUME NEW p, NEW k
    PROVE  T!PathTo(p, k) = M!PathTo(p, k)
BY Zenon DEF T!PathTo, M!PathTo, T!Route, M!Route, T!RouteIndex, M!RouteIndex, T!Root, M!Root,
             T!IsInternal, M!IsInternal, T!PageId, M!PageId, T!META_PAGE_ID, M!META_PAGE_ID,
             T!Max, M!Max

LEMMA SameFits ==
    ASSUME NEW s
    PROVE  T!Fits(s) <=> M!Fits(s)
BY DEF T!Fits, M!Fits, T!FoldLeft, M!FoldLeft, T!MapThenFoldSet, M!MapThenFoldSet, T!Max, M!Max

LEMMA SameGet ==
    ASSUME NEW p, NEW k
    PROVE  T!Get(p, k) = M!Get(p, k)
<1>1. PICK path : path = T!PathTo(p, k) /\ path = M!PathTo(p, k)
  BY SamePath
<1>2. PICK x : x = T!Last(path) /\ x = M!Last(path)
  BY SameSequences
<1> QED
  BY <1>1, <1>2, SameMax DEF T!Get, M!Get

LEMMA SameUpsert ==
    ASSUME NEW e, NEW k, NEW v
    PROVE  T!Upsert(e, k, v) = M!Upsert(e, k, v)
<1>1. T!Position(e, k) = M!Position(e, k)
  BY Zenon DEF T!Position, M!Position, T!Max, M!Max
<1>2. T!Found(e, k) <=> M!Found(e, k)
  BY <1>1, Zenon DEF T!Found, M!Found
<1> QED
  BY <1>1, <1>2, SameEntries, SameSequences, Zenon DEF T!Upsert, M!Upsert

LEMMA SameDescent ==
    ASSUME NEW k
    PROVE  T!Descent(k) = M!Descent(k)
<1>1. PICK path : path = T!PathTo(pages, k) /\ path = M!PathTo(pages, k)
  BY SamePath
<1>2. PICK x : x = T!Last(path) /\ x = M!Last(path)
  BY SameSequences
<1>3. T!NoSlot = M!NoSlot /\ (T!IsLeaf(pages[x]) <=> M!IsLeaf(pages[x]))
  BY SameIds, SameEntries
<1>4. T!Descent(k) = {y \in {path} : T!IsLeaf(pages[T!Last(y)]) /\ pages[T!Last(y)].next # T!NoSlot}
  BY <1>1, Zenon DEF T!Descent
<1>5. M!Descent(k) = {y \in {path} : M!IsLeaf(pages[M!Last(y)]) /\ pages[M!Last(y)].next # M!NoSlot}
  BY <1>1, Zenon DEF M!Descent
<1>6. \A y \in {path} : T!Last(y) = x /\ M!Last(y) = x
  BY <1>2
<1> QED
  BY <1>3, <1>4, <1>5, <1>6, Zenon

LEMMA SameInsertInLeaf ==
    ASSUME NEW k, NEW v, T!InsertInLeaf(k, v)
    PROVE  M!InsertInLeaf(k, v)
BY Zenon, SameIds, SameDescent, SameUpsert, SameFits, SamePages, SameSequences
   DEF T!InsertInLeaf, M!InsertInLeaf, T!Rewrite, M!Rewrite

LEMMA SameSplitLeaf ==
    ASSUME NEW k, NEW v, T!SplitLeaf(k, v)
    PROVE  M!SplitLeaf(k, v)
<1>1. \A e : T!Halves(e) = M!Halves(e)
  BY Zenon DEF T!Halves, M!Halves
<1>2. \A id, n, h : T!Linked(id, n, h) => M!Linked(id, n, h)
  BY Zenon DEF T!Linked, M!Linked, T!RewriteBoth, M!RewriteBoth, T!Leaf, M!Leaf
<1>3. \A a, b, c : T!Ascending(a, b, c) = M!Ascending(a, b, c)
  BY Zenon DEF T!Ascending, M!Ascending
<1>4. T!Allocate <=> M!Allocate
  BY Zenon DEF T!Allocate, M!Allocate
<1>5. call = M!Idle
  BY SameIds DEF T!SplitLeaf
<1>6. PICK path \in M!Descent(k) :
         LET id == T!Last(path)
             entries == T!Upsert(pages[id].entries, k, v)
             halves == T!Halves(entries)
         IN  /\ ~T!Fits(entries) /\ T!Fits(halves.left) /\ T!Fits(halves.right)
             /\ T!Allocate
             /\ T!Linked(id, next_id, halves)
             /\ call' = T!Ascending(T!Front(path), halves.right[1].key, next_id)
  BY SameDescent, Zenon DEF T!SplitLeaf
<1>7. PICK id, up : id = T!Last(path) /\ up = T!Front(path)
  OBVIOUS
<1>8. id = M!Last(path) /\ up = M!Front(path)
  BY <1>7, SameSequences
<1>9. PICK entries : entries = T!Upsert(pages[id].entries, k, v) /\ entries = M!Upsert(pages[id].entries, k, v)
  BY SameUpsert
<1>10. PICK halves : halves = T!Halves(entries) /\ halves = M!Halves(entries)
  BY <1>1
<1>11. /\ ~T!Fits(entries) /\ T!Fits(halves.left) /\ T!Fits(halves.right)
       /\ T!Allocate
       /\ T!Linked(id, next_id, halves)
       /\ call' = T!Ascending(up, halves.right[1].key, next_id)
  BY <1>6, <1>7, <1>9, <1>10, Zenon
<1>12. /\ ~M!Fits(entries) /\ M!Fits(halves.left) /\ M!Fits(halves.right)
       /\ M!Allocate
       /\ M!Linked(id, next_id, halves)
       /\ call' = M!Ascending(up, halves.right[1].key, next_id)
  BY <1>2, <1>3, <1>4, <1>11, SameFits, Zenon
<1> QED
  BY <1>5, <1>8, <1>9, <1>10, <1>12, Zenon DEF M!SplitLeaf

LEMMA SameAscend == T!Ascend => M!Ascend
<1>1. \A e, s, c : T!WithChild(e, s, c) = M!WithChild(e, s, c)
  <2> TAKE e, s, c
  <2>1. PICK S : S = {i \in 2..Len(e) : e[i].key > s}
    OBVIOUS
  <2>2. PICK x : x = T!Min(S) /\ x = M!Min(S)
    BY SameMax
  <2>3. PICK at : at = IF S = {} THEN Len(e) + 1 ELSE x
    OBVIOUS
  <2>4. T!WithChild(e, s, c) = T!InsertAt(e, at, T!InternalEntry(s, c))
    BY <2>1, <2>2, <2>3, Zenon DEF T!WithChild
  <2>5. M!WithChild(e, s, c) = M!InsertAt(e, at, M!InternalEntry(s, c))
    BY <2>1, <2>2, <2>3, Zenon DEF M!WithChild
  <2> QED
    BY <2>4, <2>5, SameEntries, SameSequences, Zenon
<1>2. \A e : T!SplitAround(e) = M!SplitAround(e)
  BY Zenon DEF T!SplitAround, M!SplitAround, T!Max, M!Max, T!Leftmost, M!Leftmost,
               T!InternalEntry, M!InternalEntry
<1>3. \A h : T!Told(h) = M!Told(h)
  BY SameSequences, Zenon DEF T!Told, M!Told, T!Ascending, M!Ascending
<1>4. T!Allocate <=> M!Allocate
  BY Zenon DEF T!Allocate, M!Allocate
<1>5. \A id, e : T!Rewrite(id, T!Internal(e)) => M!Rewrite(id, M!Internal(e))
  BY Zenon DEF T!Rewrite, M!Rewrite, T!Internal, M!Internal, T!NoSlot, M!NoSlot
<1>6. \A id, e, n, f : T!RewriteBoth(id, T!Internal(e), n, T!Internal(f)) =>
                       M!RewriteBoth(id, M!Internal(e), n, M!Internal(f))
  BY Zenon DEF T!RewriteBoth, M!RewriteBoth, T!Internal, M!Internal, T!NoSlot, M!NoSlot
<1> SUFFICES ASSUME T!Ascend PROVE M!Ascend
  OBVIOUS
<1>7. PICK id : id = T!Last(call.path) /\ id = M!Last(call.path)
  BY SameSequences
<1>8. PICK e : e = T!WithChild(pages[id].entries, call.sep, call.child)
            /\ e = M!WithChild(pages[id].entries, call.sep, call.child)
  BY <1>1
<1>9. PICK h : h = T!SplitAround(e) /\ h = M!SplitAround(e)
  BY <1>2
<1>10. call.op = "insert" /\ call.path # <<>>
  BY DEF T!Ascend
<1>11. IF Len(e) <= MaxEntries
       THEN T!Rewrite(id, T!Internal(e)) /\ call' = T!Idle /\ UNCHANGED next_id
       ELSE /\ T!Allocate /\ call' = T!Told(h)
            /\ T!RewriteBoth(id, T!Internal(h.left), next_id, T!Internal(h.right))
  BY <1>7, <1>8, <1>9, Zenon DEF T!Ascend
<1>12. IF Len(e) <= MaxEntries
       THEN M!Rewrite(id, M!Internal(e)) /\ call' = M!Idle /\ UNCHANGED next_id
       ELSE /\ M!Allocate /\ call' = M!Told(h)
            /\ M!RewriteBoth(id, M!Internal(h.left), next_id, M!Internal(h.right))
  BY <1>3, <1>4, <1>5, <1>6, <1>11, SameIds, Zenon
<1> QED
  BY <1>7, <1>8, <1>9, <1>10, <1>12, Zenon DEF M!Ascend

LEMMA SameGrowRoot == T!GrowRoot => M!GrowRoot
<1>1. T!NewRootPage = M!NewRootPage
  BY SamePages, SameEntries, Zenon DEF T!NewRootPage, M!NewRootPage
<1> QED
  BY <1>1, SamePages, SameIds, Zenon
     DEF T!GrowRoot, M!GrowRoot, T!RewriteBoth, M!RewriteBoth, T!Allocate, M!Allocate

LEMMA SameOpen == T!Open => M!Open
BY SamePages, SameIds, Zenon
   DEF T!Open, M!Open, T!RewriteBoth, M!RewriteBoth, T!Rewrite, M!Rewrite, T!Allocate, M!Allocate

LEMMA SameTypes == T!Page = M!Page /\ (T!TypeOK <=> M!TypeOK)
<1>1. T!Page = M!Page
  BY Zenon DEF T!Page, M!Page, T!Blank, M!Blank, T!LeafEntry, M!LeafEntry, T!ChildEntry, M!ChildEntry,
               T!PageId, M!PageId, T!NoSlot, M!NoSlot
<1> QED
  BY <1>1, SameIds, Zenon DEF T!TypeOK, M!TypeOK

-----------------------------------------------------------------------------
(* What the tree does, without its pages.                                  *)

\* The tree in the pool is sound, and ids are handed out in order.
TreeOK == M!TreeInv /\ M!Filled

\* It is a map, once it is open.
MapOK == call.op # "closed" => M!MapInv

LEMMA Insertion ==
    ASSUME TreeOK, NEW k \in IndexKey, NEW v \in IndexValue, Insert(k, v)
    PROVE  /\ TreeOK' /\ M!Dirtied /\ call = M!Idle
           /\ dict' = [dict EXCEPT ![k] = v]
           /\ \/ next_id' = next_id /\ call' = M!Idle /\ M!Alike(pages', pages)
              \/ next_id' = next_id + 1 /\ call'.op = "insert"
<1>1. M!InsertInLeaf(k, v) \/ M!SplitLeaf(k, v)
  BY SameInsertInLeaf, SameSplitLeaf DEF Insert
<1>2. dict' = [dict EXCEPT ![k] = v]
  BY DEF Insert, T!Set
<1>3. M!DictOK'
  <2>1. dict \in [IndexKey -> IndexValue \cup {None}]
    BY DEF TreeOK, M!TreeInv, M!TypeOK
  <2> QED
    BY <1>2, <2>1 DEF M!DictOK
<1>4. call = M!Idle
  BY <1>1 DEF M!InsertInLeaf, M!SplitLeaf
<1>5. CASE M!InsertInLeaf(k, v)
  <2>1. M!TreeInv'
    BY <1>3, <1>5, TreeAssumptions, M!InsertInLeafStep DEF TreeOK
  <2>2. M!Filled' /\ M!Dirtied /\ next_id' = next_id /\ call' = M!Idle /\ M!Alike(pages', pages)
    BY <1>5, TreeAssumptions, M!InsertInLeafShape DEF TreeOK
  <2> QED
    BY <1>2, <1>4, <2>1, <2>2 DEF TreeOK
<1>6. CASE M!SplitLeaf(k, v)
  <2>1. M!TreeInv'
    BY <1>3, <1>6, TreeAssumptions, M!SplitLeafStep DEF TreeOK
  <2>2. M!Filled' /\ M!Dirtied /\ next_id' = next_id + 1 /\ call'.op = "insert"
    BY <1>6, TreeAssumptions, M!SplitLeafShape DEF TreeOK
  <2> QED
    BY <1>2, <1>4, <2>1, <2>2 DEF TreeOK
<1> QED
  BY <1>1, <1>5, <1>6

LEMMA InsertionMaps ==
    ASSUME TreeOK, MapOK, NEW k \in IndexKey, NEW v \in IndexValue, Insert(k, v)
    PROVE  MapOK'
<1>1. M!InsertInLeaf(k, v) \/ M!SplitLeaf(k, v)
  BY SameInsertInLeaf, SameSplitLeaf DEF Insert
<1>2. M!Set(k, v)
  BY DEF Insert, T!Set, M!Set
<1>3. call.op # "closed"
  BY <1>1 DEF M!InsertInLeaf, M!SplitLeaf, M!Idle
<1>4. M!TreeInv /\ M!MapInv
  BY <1>3 DEF TreeOK, MapOK
<1>5. M!MapInv'
  BY <1>1, <1>2, <1>4, TreeAssumptions, M!InsertInLeafMap, M!SplitLeafMap
<1> QED
  BY <1>5 DEF MapOK

LEMMA DictTyped == TreeOK => dict \in [IndexKey -> IndexValue \cup {None}]
BY DEF TreeOK, M!TreeInv, M!TypeOK

LEMMA Ascension ==
    ASSUME TreeOK, T!Ascend \/ T!GrowRoot, dict' = dict
    PROVE  /\ TreeOK' /\ M!Dirtied /\ call.op = "insert"
           /\ next_id' = next_id \/ next_id' = next_id + 1
           /\ call' = M!Idle \/ (call'.op = "insert" /\ next_id' = next_id + 1)
           /\ MapOK => MapOK'
<1>1. M!Ascend \/ M!GrowRoot
  BY SameAscend, SameGrowRoot
<1>2. M!DictOK'
  BY DictTyped DEF M!DictOK
<1>3. M!TreeInv /\ M!Filled /\ call.op = "insert"
  BY <1>1 DEF TreeOK, M!Ascend, M!GrowRoot
<1>4. M!TreeInv'
  BY <1>1, <1>2, <1>3, TreeAssumptions, M!AscendStep, M!GrowRootStep
<1>5. CASE M!Ascend
  <2>1. M!Filled' /\ M!Dirtied /\ (next_id' = next_id \/ next_id' = next_id + 1)
        /\ (call' = M!Idle \/ (call'.op = "insert" /\ next_id' = next_id + 1))
    BY <1>3, <1>5, TreeAssumptions, M!AscendShape
  <2>2. MapOK => M!MapInv'
    BY <1>3, <1>5, TreeAssumptions, M!AscendMap DEF MapOK
  <2> QED
    BY <1>3, <1>4, <2>1, <2>2 DEF TreeOK, MapOK
<1>6. CASE M!GrowRoot
  <2>1. M!Filled' /\ M!Dirtied /\ next_id' = next_id + 1 /\ call' = M!Idle
    BY <1>3, <1>6, TreeAssumptions, M!GrowRootShape
  <2>2. MapOK => M!MapInv'
    BY <1>3, <1>6, TreeAssumptions, M!GrowRootMap DEF MapOK
  <2> QED
    BY <1>3, <1>4, <2>1, <2>2 DEF TreeOK, MapOK
<1> QED
  BY <1>1, <1>5, <1>6

LEMMA Opening ==
    ASSUME TreeOK, T!Open, dict' = dict
    PROVE  /\ TreeOK' /\ M!Dirtied /\ call.op = "closed" /\ call' = M!Idle
           /\ pages[0] = M!Blank =>
                /\ next_id' = next_id + 1 /\ next_id \in M!PageId
                /\ pages'[0] = M!Meta(next_id) /\ pages'[next_id] = M!Leaf(<<>>, M!NO_SIBLING)
                /\ \A x \in M!PageId : x # 0 /\ x # next_id => pages'[x] = pages[x]
           /\ pages[0] # M!Blank => pages' = pages /\ next_id' = next_id
<1>1. M!Open
  BY SameOpen
<1>2. M!DictOK'
  BY DictTyped DEF M!DictOK
<1>3. M!TreeInv /\ M!Filled
  BY DEF TreeOK
<1>4. M!TreeInv'
  BY <1>1, <1>2, <1>3, TreeAssumptions, M!OpenStep
<1>5. call.op = "closed"
  BY <1>1 DEF M!Open
<1>6. /\ M!Filled' /\ M!Dirtied /\ call' = M!Idle
      /\ pages[0] = M!Blank =>
           /\ next_id' = next_id + 1 /\ next_id \in M!PageId
           /\ pages'[0] = M!Meta(next_id) /\ pages'[next_id] = M!Leaf(<<>>, M!NO_SIBLING)
           /\ \A x \in M!PageId : x # 0 /\ x # next_id => pages'[x] = pages[x]
      /\ pages[0] # M!Blank => pages' = pages /\ next_id' = next_id
  BY ONLY <1>1, <1>3, TreeAssumptions, M!OpenShape
<1> QED
  BY <1>4, <1>5, <1>6, Zenon DEF TreeOK

LEMMA PoolGets ==
    ASSUME TreeOK, MapOK, call = M!Idle, NEW k \in IndexKey
    PROVE  M!Get(pages, k) = dict[k]
<1>1. call.op # "closed"
  BY DEF M!Idle
<1>2. M!TreeInv /\ M!MapInv
  BY <1>1 DEF TreeOK, MapOK
<1>3. M!GetIsLatest
  BY <1>2, TreeAssumptions, M!MapGets
<1>4. ~(0 > 0)
  OBVIOUS
<1> QED
  BY <1>3, <1>4 DEF M!GetIsLatest

\* Pages that are a map from d, where get finds it.
IsMap(p, d) ==
    \E live, cover, place : M!Good(p, live, cover, place, {M!Root(p)}, d, M!Unset(d))

LEMMA PoolIsMap ==
    ASSUME TreeOK, MapOK, call = M!Idle
    PROVE  IsMap(pages, dict)
<1>1. call.op # "closed"
  BY DEF M!Idle
<1>2. M!MapInv
  BY <1>1 DEF MapOK
<1>3. \E live, cover, place : M!Good(pages, live, cover, place, {M!Root(pages)}, dict, M!Lost)
  BY <1>2, TreeAssumptions, M!MapIdle
<1>4. M!Lost = M!Unset(dict)
  <2>1. ~(0 > 0)
    OBVIOUS
  <2> QED
    BY <2>1 DEF M!Lost, M!Unset
<1> QED
  BY <1>3, <1>4, Zenon DEF IsMap

-----------------------------------------------------------------------------
(* The disk.                                                               *)

\* What the disk has for each key.
StoredMap == [k \in IndexKey |-> Stored(k)]

\* But in the middle of a split the pages on disk are a tree, and the pool has
\* other leaves at most, until pages are allocated.  A whole disk is a map.
DiskShaped == torn # "split" => \E level : M!Shaped(disk, settled, level)
DiskAlike == torn # "split" /\ settled = next_id => M!Alike(disk, pages)
DiskIsMap == torn = "no" /\ disk[0] # M!Blank => IsMap(disk, StoredMap)

DiskOK == DiskInStep /\ DiskShaped /\ DiskAlike /\ DiskIsMap

\* DiskInStep, with the operators of the proofs.
LEMMA InStep ==
    DiskInStep <=>
        /\ \A id \in M!PageId : id \notin dirty => disk[id] = pages[id]
        /\ settled <= next_id /\ (torn = "split" => settled # next_id)
        /\ call.op = "insert" => settled # next_id
        /\ pc = "down" => dirty = {} /\ torn = "no" /\ settled = next_id
        /\ pc # "down" /\ call = M!Idle /\ dirty = {} => torn = "no" /\ settled = next_id
BY SameIds, Zenon DEF DiskInStep

LEMMA InStepNext ==
    ASSUME \A id \in M!PageId : id \notin dirty' => disk'[id] = pages'[id],
           settled' <= next_id', torn' = "split" => settled' # next_id',
           call'.op = "insert" => settled' # next_id',
           pc' = "down" => dirty' = {} /\ torn' = "no" /\ settled' = next_id',
           pc' # "down" /\ call' = M!Idle /\ dirty' = {} => torn' = "no" /\ settled' = next_id'
    PROVE  DiskInStep'
<1>1. (DiskInStep <=>
          /\ \A id \in M!PageId : id \notin dirty => disk[id] = pages[id]
          /\ settled <= next_id /\ (torn = "split" => settled # next_id)
          /\ call.op = "insert" => settled # next_id
          /\ pc = "down" => dirty = {} /\ torn = "no" /\ settled = next_id
          /\ pc # "down" /\ call = M!Idle /\ dirty = {} => torn = "no" /\ settled = next_id)'
  BY InStep, PTL
<1> QED
  BY <1>1, Zenon

LEMMA StoredKept ==
    ASSUME disk' = disk
    PROVE  StoredMap' = StoredMap
BY DEF StoredMap, Stored, Written

LEMMA SettledTyped ==
    ASSUME TypeOK
    PROVE  settled \in Nat /\ next_id \in Nat /\ disk \in [M!PageId -> M!Page] /\ settled \in 1..MaxPage + 1
           /\ next_id \in 1..MaxPage + 1 /\ dirty \subseteq M!PageId
<1>1. M!TypeOK
  BY SameTypes DEF TypeOK
<1>2. MaxPage \in Nat
  BY SpaceAssumption
<1>3. next_id \in 1..MaxPage + 1 /\ dirty \subseteq M!PageId
  BY <1>1 DEF M!TypeOK
<1> QED
  BY <1>2, <1>3, SameIds, SameTypes DEF TypeOK

LEMMA InsertionDisk ==
    ASSUME TypeOK, TreeOK, DiskOK, NEW k \in IndexKey, NEW v \in IndexValue, Insert(k, v),
           disk' = disk, UNCHANGED shape, pc' # "down"
    PROVE  DiskOK'
<1>1. PICK s, n \in Nat : s = settled /\ n = next_id
  BY SettledTyped
<1>2. torn' = torn /\ settled' = s
  BY <1>1 DEF shape
<1>3. /\ M!Dirtied /\ call = M!Idle
      /\ \/ next_id' = n /\ call' = M!Idle /\ M!Alike(pages', pages)
         \/ next_id' = n + 1 /\ call'.op = "insert"
  BY <1>1, Insertion
<1>4. /\ \A id \in M!PageId : id \notin dirty => disk[id] = pages[id]
      /\ s <= n /\ (torn = "split" => s # n)
  BY <1>1, InStep DEF DiskOK
<1>5. \A id \in M!PageId : id \notin dirty' => disk[id] = pages'[id]
  BY <1>3, <1>4 DEF M!Dirtied
<1>6. dirty' # {}
  BY <1>3 DEF M!Dirtied
<1>7. call'.op = "insert" => next_id' = n + 1
  BY <1>3 DEF M!Idle
<1>8. s <= next_id' /\ (torn = "split" => s # next_id') /\ (next_id' = n + 1 => s # next_id')
  BY <1>1, <1>3, <1>4
<1>9. DiskInStep'
  BY <1>2, <1>5, <1>6, <1>7, <1>8, InStepNext
<1>10. DiskShaped'
  BY <1>1, <1>2 DEF DiskOK, DiskShaped
<1>11. DiskAlike'
  <2>1. SUFFICES ASSUME torn # "split", s = next_id' PROVE M!Alike(disk, pages')
    BY <1>2 DEF DiskAlike
  <2>2. M!Alike(pages', pages) /\ s = n
    BY <1>3, <1>8, <2>1
  <2>3. M!Alike(disk, pages)
    BY <1>1, <2>1, <2>2 DEF DiskOK, DiskAlike
  <2> QED
    BY <2>2, <2>3 DEF M!Alike
<1>12. DiskIsMap'
  BY <1>2, StoredKept DEF DiskOK, DiskIsMap
<1> QED
  BY <1>9, <1>10, <1>11, <1>12 DEF DiskOK

LEMMA TreeStepDisk ==
    ASSUME TypeOK, TreeOK, DiskOK, TreeStep, pc # "down"
    PROVE  DiskOK'
<1>1. PICK s, n \in Nat : s = settled /\ n = next_id
  BY SettledTyped
<1>2. torn' = torn /\ settled' = s /\ disk' = disk /\ dict' = dict /\ pc' = pc
  BY <1>1 DEF TreeStep, shape, store
<1>3. /\ M!Dirtied /\ call.op = "insert"
      /\ next_id' = n \/ next_id' = n + 1
  BY <1>1, <1>2, Ascension DEF TreeStep
<1>4. /\ \A id \in M!PageId : id \notin dirty => disk[id] = pages[id]
      /\ s <= n /\ s # n
  BY <1>1, <1>3, InStep DEF DiskOK
<1>5. \A id \in M!PageId : id \notin dirty' => disk[id] = pages'[id]
  BY <1>3, <1>4 DEF M!Dirtied
<1>6. dirty' # {}
  BY <1>3 DEF M!Dirtied
<1>7. s <= next_id' /\ s # next_id'
  BY <1>1, <1>3, <1>4
<1>8. DiskInStep'
  BY <1>2, <1>5, <1>6, <1>7, InStepNext
<1>9. DiskShaped'
  BY <1>1, <1>2 DEF DiskOK, DiskShaped
<1>10. DiskAlike'
  BY <1>2, <1>7 DEF DiskAlike
<1>11. DiskIsMap'
  BY <1>2, StoredKept DEF DiskOK, DiskIsMap
<1> QED
  BY <1>8, <1>9, <1>10, <1>11 DEF DiskOK

\* What get finds on the disk.
LEMMA StoredIs ==
    \A k \in IndexKey : StoredMap[k] = IF disk[0] # M!Blank THEN M!Get(disk, k) ELSE None
<1>1. Written <=> disk[0] # M!Blank
  BY SamePages DEF Written, T!META_PAGE_ID
<1>2. \A k : T!Get(disk, k) = M!Get(disk, k)
  BY SameGet
<1> QED
  BY <1>1, <1>2 DEF StoredMap, Stored

LEMMA StoredNext ==
    ASSUME NEW p, disk' = p, p[0] # M!Blank
    PROVE  \A k \in IndexKey : StoredMap'[k] = M!Get(p, k)
<1>1. (\A k \in IndexKey : StoredMap[k] = IF disk[0] # M!Blank THEN M!Get(disk, k) ELSE None)'
  BY StoredIs, PTL
<1> QED
  BY <1>1

LEMMA MapGets ==
    ASSUME NEW p, NEW n, NEW level, M!Shaped(p, n, level), p[0] # M!Blank, NEW d, IsMap(p, d),
           NEW k \in IndexKey
    PROVE  M!Get(p, k) = d[k]
<1>1. PICK root, lost : root = M!Root(p) /\ lost = M!Unset(d)
  OBVIOUS
<1>2. PICK live, cover, place : M!Good(p, live, cover, place, {root}, d, lost)
  BY <1>1 DEF IsMap
<1>3. PICK path : path = M!PathTo(p, k)
  OBVIOUS
<1>4. M!Follows(path, root, p, k)
  BY <1>1, <1>3, TreeAssumptions, M!ShapedFollows
<1> QED
  BY ONLY <1>1, <1>2, <1>3, <1>4, k \in IndexKey, TreeAssumptions, M!GoodGets

LEMMA PoolShaped ==
    ASSUME TreeOK, call.op # "closed"
    PROVE  (\E level : M!Shaped(pages, next_id, level)) /\ pages[0] # M!Blank
           /\ pages[0] = M!Meta(M!Root(pages))
<1>1. PICK level : M!TreeAt(level)
  BY TreeAssumptions, M!TreeInvAt DEF TreeOK
<1>2. M!Shaped(pages, next_id, level)
  BY <1>1, TreeAssumptions, M!TreeShaped DEF TreeOK
<1>3. pages[0] = M!Meta(M!Root(pages))
  BY <1>1, TreeAssumptions, M!NodeFacts DEF M!TreeAt
<1>4. pages[0] # M!Blank
  BY <1>3, TreeAssumptions, M!PageShapes
<1> QED
  BY <1>2, <1>3, <1>4

LEMMA WriteIs ==
    ASSUME TypeOK, TreeOK, NEW id \in dirty, WritePage(id)
    PROVE  /\ id \in M!PageId /\ M!Overlay(disk', disk, pages, id) /\ disk' \in [M!PageId -> M!Page]
           /\ dirty' = dirty \ {id} /\ pages \in [M!PageId -> M!Page]
<1>1. disk \in [M!PageId -> M!Page] /\ id \in M!PageId
  BY SettledTyped
<1>2. pages \in [M!PageId -> M!Page]
  BY DEF TreeOK, M!TreeInv, M!TypeOK
<1>3. disk' = [disk EXCEPT ![id] = pages[id]] /\ dirty' = dirty \ {id}
  BY DEF WritePage
<1>4. disk'[id] = pages[id] /\ \A x \in M!PageId : x # id => disk'[x] = disk[x]
  BY <1>1, <1>3
<1>5. disk' \in [M!PageId -> M!Page]
  BY <1>1, <1>2, <1>3
<1> QED
  BY <1>1, <1>2, <1>3, <1>4, <1>5 DEF M!Overlay

\* The last page of a whole disk.
LEMMA WholeWrite ==
    ASSUME TypeOK, TreeOK, MapOK, DiskOK, NEW id \in dirty, WritePage(id), dirty' = {}, call = M!Idle
    PROVE  disk' = pages /\ StoredMap' = dict /\ IsMap(disk', StoredMap')
<1>1. /\ id \in M!PageId /\ M!Overlay(disk', disk, pages, id) /\ disk' \in [M!PageId -> M!Page]
      /\ dirty' = dirty \ {id} /\ pages \in [M!PageId -> M!Page]
  BY WriteIs
<1>2. \A x \in M!PageId : x \notin dirty => disk[x] = pages[x]
  BY InStep DEF DiskOK
<1>3. ASSUME NEW x \in M!PageId PROVE disk'[x] = pages[x]
  BY <1>1, <1>2 DEF M!Overlay
<1>4. disk' = pages
  BY <1>1, <1>3
<1>5. call.op # "closed"
  BY DEF M!Idle
<1>6. pages[0] # M!Blank
  BY <1>5, PoolShaped
<1>7. \A k \in IndexKey : StoredMap'[k] = M!Get(pages, k)
  BY <1>4, <1>6, StoredNext
<1>8. \A k \in IndexKey : StoredMap'[k] = dict[k]
  BY <1>7, PoolGets
<1>9. StoredMap' = [k \in IndexKey |-> StoredMap'[k]]
  BY DEF StoredMap
<1>10. StoredMap' = dict
  BY <1>8, <1>9, DictTyped
<1> QED
  BY <1>4, <1>10, PoolIsMap

\* A page written while the pool has the same ids.
LEMMA PartWrite ==
    ASSUME TypeOK, TreeOK, MapOK, DiskOK, NEW id \in dirty, WritePage(id), call = M!Idle,
           settled = next_id
    PROVE  /\ \E level : M!Shaped(disk', settled, level)
           /\ M!Alike(disk', pages) /\ disk[0] # M!Blank /\ torn # "split"
           /\ torn = "no" => /\ IsMap(disk', StoredMap')
                             /\ \A k \in IndexKey : StoredMap'[k] = dict[k] \/ StoredMap'[k] = StoredMap[k]
<1>1. PICK r : r = disk'
  OBVIOUS
<1>2. /\ id \in M!PageId /\ M!Overlay(r, disk, pages, id) /\ r \in [M!PageId -> M!Page]
      /\ dirty' = dirty \ {id} /\ pages \in [M!PageId -> M!Page]
  BY <1>1, WriteIs
<1>3. torn # "split"
  BY InStep DEF DiskOK
<1>4. M!Alike(disk, pages)
  BY <1>3 DEF DiskOK, DiskAlike
<1>5. call.op # "closed"
  BY DEF M!Idle
<1>6. PICK n, level : n = settled /\ M!Shaped(pages, n, level)
  BY <1>5, PoolShaped
<1>7. PICK level2 : M!Shaped(disk, n, level2)
  BY <1>3, <1>6 DEF DiskOK, DiskShaped
<1>8. M!Shaped(r, n, level) /\ M!Alike(r, pages)
  BY ONLY <1>2, <1>4, <1>6, <1>7, TreeAssumptions, M!ShapedWritten
<1>9. pages[0] # M!Blank /\ pages[0] = M!Meta(M!Root(pages)) /\ ~M!IsLeaf(pages[0])
  <2>1. pages[0] # M!Blank /\ pages[0] = M!Meta(M!Root(pages))
    BY <1>5, PoolShaped
  <2>2. M!Root(pages) \in M!PageId
    BY <1>6, <2>1, TreeAssumptions, M!ShapedFollows
  <2> QED
    BY <2>1, <2>2, TreeAssumptions, M!MetaFacts
<1>10. 0 \in M!PageId
  BY TreeAssumptions, M!IdFacts
<1>11. disk[0] = pages[0] /\ r[0] = pages[0]
  BY <1>4, <1>8, <1>9, <1>10 DEF M!Alike
<1>12. PICK root : root = M!Root(pages) /\ root = M!Root(disk) /\ root = M!Root(r)
  BY <1>11 DEF M!Root, M!META_PAGE_ID
<1>13. ASSUME torn = "no"
       PROVE  /\ IsMap(disk', StoredMap')
              /\ \A k \in IndexKey : StoredMap'[k] = dict[k] \/ StoredMap'[k] = StoredMap[k]
  <2>1. PICK d1, d2 : d1 = dict /\ d2 = StoredMap
    OBVIOUS
  <2>2. PICK live1, cover1, place1 : M!Good(pages, live1, cover1, place1, {root}, d1, M!Unset(d1))
    BY <1>12, <2>1, PoolIsMap DEF IsMap
  <2>3. IsMap(disk, d2)
    BY <1>9, <1>11, <1>13, <2>1 DEF DiskOK, DiskIsMap
  <2>4. PICK live2, cover2, place2 : M!Good(disk, live2, cover2, place2, {root}, d2, M!Unset(d2))
    BY <1>12, <2>3 DEF IsMap
  <2>5. M!Walkable(pages)
    BY <1>6, <1>9, TreeAssumptions, M!ShapedWalkable
  <2>6. IndexKey # {}
    BY DEF IndexKey
  <2>7. PICK live, cover, place, d :
           M!Good(r, live, cover, place, {root}, d, M!Unset(d)) /\ M!Mixed(d, d1, d2)
    BY ONLY <1>2, <1>4, <1>12, <2>2, <2>4, <2>5, <2>6, TreeAssumptions, M!Overlaid
  <2>8. IsMap(r, d)
    BY <1>12, <2>7 DEF IsMap
  <2>9. \A k \in IndexKey : M!Get(r, k) = d[k]
    BY <1>8, <1>9, <1>11, <2>8, MapGets
  <2>10. \A k \in IndexKey : StoredMap'[k] = M!Get(r, k)
    BY <1>1, <1>9, <1>11, StoredNext
  <2>11. StoredMap' = [k \in IndexKey |-> StoredMap'[k]]
    BY DEF StoredMap
  <2>12. StoredMap' = d
    BY <2>7, <2>9, <2>10, <2>11 DEF M!Mixed
  <2> QED
    BY <1>1, <2>1, <2>7, <2>8, <2>12 DEF M!Mixed
<1> QED
  BY <1>1, <1>3, <1>6, <1>8, <1>9, <1>11, <1>13

\* A step that rewrites no page.
LEMMA PoolKept ==
    ASSUME TreeOK, UNCHANGED <<pages, next_id, call, dict>>, dirty' \subseteq dirty
    PROVE  TreeOK' /\ (MapOK => MapOK')
<1>1. 0' = 0 /\ pages' = pages /\ next_id' = next_id /\ call' = call /\ dict' = dict
  OBVIOUS
<1>2. M!TreeInv'
  BY <1>1, TreeAssumptions, M!TreeKept DEF TreeOK
<1>3. M!Filled'
  BY <1>1 DEF TreeOK, M!Filled
<1>4. M!MapInv => M!MapInv'
  BY <1>1, TreeAssumptions, M!MapKept
<1> QED
  BY <1>1, <1>2, <1>3, <1>4 DEF TreeOK, MapOK

LEMMA CallIs ==
    ASSUME TypeOK, CallsInStep, pc # "down"
    PROVE  call = M!Idle \/ call.op = "insert"
<1>1. call \in {M!Idle, [op |-> "closed"]} \/ call.op = "insert" \/ call.op = "delete"
  <2>1. M!TypeOK
    BY SameTypes DEF TypeOK
  <2> QED
    BY <2>1, Zenon DEF M!TypeOK
<1>2. call # [op |-> "closed"] /\ call.op # "delete"
  BY DEF CallsInStep
<1> QED
  BY <1>1, <1>2

\* A page of the pool reaches the disk, with what Tear says of it.
Writes ==
    /\ \E id \in dirty : WritePage(id)
    /\ Tear
    /\ UNCHANGED <<pages, next_id, call, dict, pc>>

\* What it leaves.
LeavesWhole == dirty' = {} /\ call = M!Idle /\ torn' = "no" /\ settled' = next_id /\ StoredMap' = dict
LeavesTorn ==
    /\ torn' # "no" /\ settled' = settled
    /\ settled # next_id \/ torn # "no" \/ StoredMap[Sentinel] # dict[Sentinel]
LeavesMixed ==
    /\ call = M!Idle /\ settled = next_id /\ settled' = settled /\ torn = "no" /\ torn' = "no"
    /\ \A k \in IndexKey : StoredMap'[k] = dict[k] \/ StoredMap'[k] = StoredMap[k]
    /\ StoredMap'[Sentinel] = StoredMap[Sentinel]

LEMMA SentinelStored ==
    StoredMap[Sentinel] = Stored(Sentinel) /\ StoredMap'[Sentinel] = Stored(Sentinel)'
BY DEF StoredMap, Stored, Written, IndexKey

LEMMA TearIs ==
    ASSUME Tear
    PROVE  \/ dirty' = {} /\ call = M!Idle /\ torn' = "no" /\ settled' = next_id
           \/ ~(dirty' = {} /\ call = M!Idle) /\ settled' = settled /\ next_id # settled /\ torn' = "split"
           \/ /\ ~(dirty' = {} /\ call = M!Idle) /\ settled' = settled /\ next_id = settled
              /\ \/ torn' = "sentinel" /\ StoredMap'[Sentinel] # StoredMap[Sentinel]
                 \/ torn' = torn /\ StoredMap'[Sentinel] = StoredMap[Sentinel]
<1>1. T!Idle = M!Idle
  BY SameIds
<1>2. PICK g, h : /\ g = Stored(Sentinel) /\ h = Stored(Sentinel)'
                  /\ g = StoredMap[Sentinel] /\ h = StoredMap'[Sentinel]
  BY SentinelStored
<1>3. PICK w \in BOOLEAN : w <=> dirty' = {} /\ call = M!Idle
  OBVIOUS
<1>4. settled' = IF w THEN next_id ELSE settled
  BY <1>1, <1>3 DEF Tear
<1>5. torn' = CASE w -> "no"
                [] ~w /\ next_id # settled -> "split"
                [] ~w /\ next_id = settled /\ h # g -> "sentinel"
                [] OTHER -> torn
  BY <1>1, <1>2, <1>3 DEF Tear
<1> QED
  BY <1>2, <1>3, <1>4, <1>5

LEMMA WritesDisk ==
    ASSUME TypeOK, CallsInStep, TreeOK, MapOK, DiskOK, pc # "down", Writes
    PROVE  DiskOK' /\ (LeavesWhole \/ LeavesTorn \/ LeavesMixed)
<1>1. PICK id \in dirty : WritePage(id)
  BY DEF Writes
<1>2. PICK s, n \in Nat : s = settled /\ n = next_id
  BY SettledTyped
<1>3. pages' = pages /\ next_id' = n /\ call' = call /\ dict' = dict /\ pc' = pc /\ Tear
  BY <1>2 DEF Writes
<1>4. /\ id \in M!PageId /\ M!Overlay(disk', disk, pages, id) /\ disk' \in [M!PageId -> M!Page]
      /\ dirty' = dirty \ {id} /\ pages \in [M!PageId -> M!Page]
  BY <1>1, WriteIs
<1>5. /\ \A x \in M!PageId : x \notin dirty => disk[x] = pages[x]
      /\ s <= n /\ (torn = "split" => s # n) /\ (call.op = "insert" => s # n)
  BY <1>2, InStep DEF DiskOK
<1>6. \A x \in M!PageId : x \notin dirty' => disk'[x] = pages[x]
  BY <1>4, <1>5 DEF M!Overlay
<1>7. call = M!Idle => call.op # "insert"
  BY DEF M!Idle
<1>8. CASE dirty' = {} /\ call = M!Idle /\ torn' = "no" /\ settled' = next_id
  <2>1. disk' = pages /\ StoredMap' = dict /\ IsMap(disk', StoredMap')
    BY <1>1, <1>8, WholeWrite
  <2>2. n <= n
    BY <1>2
  <2>3. DiskInStep'
    BY <1>2, <1>3, <1>6, <1>7, <1>8, <2>2, InStepNext
  <2>4. \E level : M!Shaped(pages, next_id, level)
    BY <1>7, <1>8, PoolShaped DEF M!Idle
  <2>5. DiskShaped'
    BY <1>8, <2>1, <2>4 DEF DiskShaped
  <2>6. DiskAlike'
    BY <1>3, <2>1 DEF DiskAlike, M!Alike
  <2>7. DiskIsMap'
    BY <2>1 DEF DiskIsMap
  <2> QED
    BY <1>8, <2>1, <2>3, <2>5, <2>6, <2>7 DEF DiskOK, LeavesWhole
<1>9. CASE /\ ~(dirty' = {} /\ call = M!Idle) /\ settled' = settled /\ next_id # settled
           /\ torn' = "split"
  <2>1. DiskInStep'
    BY <1>2, <1>3, <1>5, <1>6, <1>9, InStepNext
  <2> QED
    BY <1>9, <2>1 DEF DiskOK, DiskShaped, DiskAlike, DiskIsMap, LeavesTorn
<1>10. CASE /\ ~(dirty' = {} /\ call = M!Idle) /\ settled' = settled /\ next_id = settled
            /\ \/ torn' = "sentinel" /\ StoredMap'[Sentinel] # StoredMap[Sentinel]
               \/ torn' = torn /\ StoredMap'[Sentinel] = StoredMap[Sentinel]
  <2>1. call = M!Idle /\ torn # "split"
    BY <1>2, <1>5, <1>10, CallIs
  <2>2. torn' # "split"
    BY <1>10, <2>1
  <2>3. /\ \E level : M!Shaped(disk', settled, level)
        /\ M!Alike(disk', pages) /\ disk[0] # M!Blank
        /\ torn = "no" =>
              /\ IsMap(disk', StoredMap')
              /\ \A k \in IndexKey : StoredMap'[k] = dict[k] \/ StoredMap'[k] = StoredMap[k]
    BY <1>1, <1>10, <2>1, PartWrite
  <2>4. DiskInStep'
    BY <1>2, <1>3, <1>5, <1>6, <1>7, <1>10, <2>1, <2>2, InStepNext
  <2>5. DiskShaped' /\ DiskAlike'
    BY <1>3, <1>10, <2>3 DEF DiskShaped, DiskAlike
  <2>6. torn' = "no" => torn = "no" /\ StoredMap'[Sentinel] = StoredMap[Sentinel]
    BY <1>10
  <2>7. DiskIsMap'
    BY <2>3, <2>6 DEF DiskIsMap
  <2>8. torn' = "no" => LeavesMixed
    BY <1>10, <2>1, <2>3, <2>6 DEF LeavesMixed
  <2>9. torn' # "no" => LeavesTorn
    <3>1. Sentinel \in IndexKey
      BY DEF IndexKey
    <3> QED
      BY <1>10, <2>3, <3>1 DEF LeavesTorn
  <2> QED
    BY <2>4, <2>5, <2>7, <2>8, <2>9 DEF DiskOK
<1> QED
  BY <1>3, <1>8, <1>9, <1>10, TearIs

\* A stopped process has the pages of the disk in its pool.
LEMMA OpenDisk ==
    ASSUME TypeOK, TreeOK, DiskOK, pc = "down", StoredMap = dict, T!Open, dict' = dict,
           disk' = disk, UNCHANGED shape, pc' # "down"
    PROVE  /\ TreeOK' /\ MapOK' /\ DiskOK' /\ call' = M!Idle /\ disk = pages
           /\ disk[0] = M!Blank =>
                /\ settled' = 1 /\ next_id' = 2 /\ 1 \in M!PageId /\ torn' = "no"
                /\ pages'[0] = M!Meta(1) /\ pages'[1] = M!Leaf(<<>>, M!NO_SIBLING)
                /\ \A x \in M!PageId : x # 0 => disk[x] = M!Blank
           /\ disk[0] # M!Blank => settled' = next_id' /\ torn' = "no"
<1>1. PICK s, n \in Nat : s = settled /\ n = next_id
  BY SettledTyped
<1>2. /\ TreeOK' /\ M!Dirtied /\ call.op = "closed" /\ call' = M!Idle
      /\ pages[0] = M!Blank =>
           /\ next_id' = next_id + 1 /\ next_id \in M!PageId
           /\ pages'[0] = M!Meta(next_id) /\ pages'[next_id] = M!Leaf(<<>>, M!NO_SIBLING)
           /\ \A x \in M!PageId : x # 0 /\ x # next_id => pages'[x] = pages[x]
      /\ pages[0] # M!Blank => pages' = pages /\ next_id' = next_id
  BY Opening
<1>3. dirty = {} /\ torn = "no" /\ s = n /\ \A id \in M!PageId : disk[id] = pages[id]
  BY <1>1, InStep DEF DiskOK
<1>4. disk = pages
  <2>1. disk \in [M!PageId -> M!Page] /\ pages \in [M!PageId -> M!Page]
    BY SettledTyped DEF TreeOK, M!TreeInv, M!TypeOK
  <2> QED
    BY <1>3, <2>1
<1>5. torn' = "no" /\ settled' = n
  BY <1>1, <1>3 DEF shape
<1>6. \A id \in M!PageId : id \notin dirty' => disk'[id] = pages'[id]
  BY <1>2, <1>3 DEF M!Dirtied
<1>7. dirty' # {} /\ call'.op # "insert"
  BY <1>2 DEF M!Dirtied, M!Idle
<1>8. DiskShaped' /\ DiskIsMap'
  BY <1>1, <1>3, <1>5, StoredKept DEF DiskOK, DiskShaped, DiskIsMap
<1>9. PICK level : M!Shaped(disk, n, level)
  BY <1>1, <1>3 DEF DiskOK, DiskShaped
<1>10. CASE disk[0] # M!Blank
  <2>1. pages' = disk /\ next_id' = n
    BY <1>1, <1>2, <1>4, <1>10
  <2>2. n <= next_id'
    BY <1>1, <2>1
  <2>3. DiskInStep'
    BY <1>5, <1>6, <1>7, <2>2, InStepNext
  <2>4. DiskAlike'
    BY <2>1 DEF DiskAlike, M!Alike
  <2>5. IsMap(disk, dict)
    BY <1>3, <1>10 DEF DiskOK, DiskIsMap
  <2>6. PICK root, d, lost : root = M!Root(disk) /\ d = dict /\ lost = M!Unset(d)
    OBVIOUS
  <2>7. PICK live, cover, place : M!Good(disk, live, cover, place, {root}, d, lost)
    BY <2>5, <2>6 DEF IsMap
  <2>8. root = M!Root(pages)' /\ lost = M!Lost' /\ disk = pages' /\ d = dict'
    <3>1. ~(0 > 0)
      OBVIOUS
    <3> QED
      BY <2>1, <2>6, <3>1 DEF M!Lost, M!Unset, M!Root
  <2>9. M!MapInv'
    BY ONLY <1>2, <2>7, <2>8, TreeAssumptions, M!IdleMap
  <2> QED
    BY <1>2, <1>4, <1>5, <1>8, <1>10, <2>1, <2>3, <2>4, <2>9 DEF MapOK, DiskOK
<1>11. CASE disk[0] = M!Blank
  <2>1. n = 1 /\ \A x \in M!PageId : x # 0 => disk[x] = M!Blank
    <3>1. \A r : M!Meta(r) # M!Blank
      BY TreeAssumptions, M!PageShapes
    <3>2. n = 1
      BY <1>9, <1>11, <3>1 DEF M!Shaped
    <3>3. \A x \in M!PageId : x # 0 => x >= 1
      BY TreeAssumptions, M!IdFacts
    <3> QED
      BY <1>9, <3>2, <3>3 DEF M!Shaped
  <2>2. next_id' = 2 /\ n <= next_id' /\ n # next_id'
    BY <1>1, <1>2, <1>4, <1>11, <2>1
  <2>3. DiskInStep'
    BY <1>5, <1>6, <1>7, <2>2, InStepNext
  <2>4. DiskAlike'
    BY <1>5, <2>2 DEF DiskAlike
  <2>5. dict = [k \in IndexKey |-> None]
    BY <1>11, StoredIs DEF StoredMap
  <2>6. M!MapInv
    BY <1>2, <1>4, <1>11, <2>5 DEF M!MapInv
  <2>7. M!MapInv'
    BY <2>6, SameOpen, TreeAssumptions, M!OpenMap DEF TreeOK
  <2> QED
    BY <1>1, <1>2, <1>4, <1>5, <1>8, <1>11, <2>1, <2>2, <2>3, <2>4, <2>7 DEF MapOK, DiskOK
<1> QED
  BY <1>10, <1>11

LEMMA MaxOf ==
    ASSUME NEW S \in SUBSET Nat, NEW m \in S, \A x \in S : x <= m
    PROVE  Max(S) = m
<1>1. \A y \in S : m >= y
  OBVIOUS
<1>2. Max(S) \in S /\ \A y \in S : Max(S) >= y
  BY <1>1, Zenon DEF Max
<1>3. PICK a, b \in Nat : a = Max(S) /\ b = m
  BY <1>2
<1> QED
  BY <1>1, <1>2, <1>3

\* Ids go on where they were when the disk was whole.
LEMMA CrashDisk ==
    ASSUME TypeOK, DiskOK, torn = "no", disk' = disk, pages' = disk, dirty' = {},
           next_id' = NextPageId, settled' = NextPageId, call' = [op |-> "closed"],
           dict' = StoredMap, torn' = "no", pc' = "down"
    PROVE  TreeOK' /\ MapOK' /\ DiskOK' /\ settled' = settled
<1>1. PICK n \in Nat : n = settled /\ n \in 1..MaxPage + 1
  BY SettledTyped
<1>2. PICK level : M!Shaped(disk, n, level)
  BY <1>1 DEF DiskOK, DiskShaped
<1>3. NextPageId = n
  <2>1. PICK S : S = {0} \cup {id \in M!PageId : disk[id] # M!Blank}
    OBVIOUS
  <2>2. NextPageId = 1 + Max(S)
    BY <2>1, SameIds, SamePages DEF NextPageId
  <2>3. MaxPage \in Nat /\ M!PageId = 0..MaxPage
    BY TreeAssumptions, M!IdFacts
  <2>4. \A id \in M!PageId : id # 0 => (disk[id] = M!Blank <=> id >= n)
    BY <1>2 DEF M!Shaped
  <2>5. S \in SUBSET Nat /\ \A x \in S : x <= n - 1
    BY <1>1, <2>1, <2>3, <2>4
  <2>6. n - 1 \in S
    BY <1>1, <2>1, <2>3, <2>4
  <2>7. Max(S) = n - 1
    BY <2>5, <2>6, MaxOf
  <2> QED
    BY <1>1, <2>2, <2>7
<1>4. \A k \in IndexKey : StoredMap[k] \in IndexValue \cup {None}
  BY <1>2, StoredIs, TreeAssumptions, M!ShapedGets
<1>5. M!StateOK'
  <2>1. StoredMap \in [IndexKey -> IndexValue \cup {None}]
    BY <1>4 DEF StoredMap
  <2>2. 0' = 0 /\ 0 \in 0..0
    OBVIOUS
  <2>3. next_id' \in 1..MaxPage + 1 /\ dirty' \subseteq M!PageId /\ dict' \in [IndexKey -> IndexValue \cup {None}]
    BY <1>1, <1>3, <2>1
  <2> QED
    BY <2>2, <2>3 DEF M!StateOK
<1>6. PICK p : p = disk /\ p = pages' /\ n = next_id' /\ M!Shaped(p, n, level)
  BY <1>2, <1>3
<1>7. M!TreeInv' /\ M!Filled'
  BY ONLY <1>5, <1>6, call' = [op |-> "closed"], TreeAssumptions, M!ShapedTree
<1>8. DiskInStep'
  <2>1. n <= n /\ call'.op # "insert"
    BY <1>1
  <2> QED
    BY <1>3, <2>1, InStepNext
<1>9. DiskShaped' /\ DiskIsMap'
  BY <1>2, <1>3, StoredKept DEF DiskOK, DiskShaped, DiskIsMap
<1>10. DiskAlike'
  BY DEF DiskAlike, M!Alike
<1> QED
  BY <1>1, <1>3, <1>7, <1>8, <1>9, <1>10 DEF TreeOK, MapOK, DiskOK

-----------------------------------------------------------------------------
(* The log: what its first n records leave a key with.                     *)

\* IndexedAfter, of a log l and missed records m.
App(l, m, k, n) == {i \in 1..n : l[i].key = k /\ (i - 1) \notin m}
After(l, m, k, n) == IF App(l, m, k, n) = {} THEN None ELSE l[Max(App(l, m, k, n))].value

LEMMA AfterIs == \A k, n : IndexedAfter(k, n) = After(log, missed, k, n)
BY DEF IndexedAfter, Applied, App, After

LEMMA AfterNext == \A k, n : IndexedAfter(k, n)' = After(log', missed', k, n)
BY DEF IndexedAfter, Applied, App, After

LEMMA LastOf ==
    ASSUME NEW l, NEW m, NEW k, NEW n \in Nat, App(l, m, k, n) # {}
    PROVE  \E i \in App(l, m, k, n) : /\ Max(App(l, m, k, n)) = i
                                      /\ \A j \in App(l, m, k, n) : j <= i
<1>1. PICK S : S = App(l, m, k, n)
  OBVIOUS
<1>2. S \in SUBSET Nat /\ S # {} /\ \A x \in S : x <= n
  BY <1>1 DEF App
<1>3. PICK i \in S : \A x \in S : x <= i
  BY <1>2, LargestNat
<1>4. Max(S) = i
  BY <1>2, <1>3, MaxOf
<1> QED
  BY <1>1, <1>3, <1>4

\* The record that is last, if it is indexed.
LEMMA AfterLast ==
    ASSUME NEW l, NEW m, NEW k, NEW n \in Nat, n # 0, l[n].key = k, (n - 1) \notin m
    PROVE  After(l, m, k, n) = l[n].value
<1>1. PICK S : S = App(l, m, k, n)
  OBVIOUS
<1>2. S \in SUBSET Nat /\ n \in S /\ \A x \in S : x <= n
  BY <1>1 DEF App
<1>3. Max(S) = n
  BY <1>2, MaxOf
<1> QED
  BY <1>1, <1>2, <1>3 DEF After

\* The same records, up to n and up to o.
LEMMA AfterSame ==
    ASSUME NEW l, NEW l2, NEW m, NEW m2, NEW k, NEW n \in Nat, NEW o \in Nat,
           App(l, m, k, n) = App(l2, m2, k, o), \A i \in App(l, m, k, n) : l[i] = l2[i]
    PROVE  After(l, m, k, n) = After(l2, m2, k, o)
<1>1. CASE App(l, m, k, n) = {}
  BY <1>1 DEF After
<1>2. CASE App(l, m, k, n) # {}
  <2>1. PICK i \in App(l, m, k, n) : Max(App(l, m, k, n)) = i
    BY <1>2, LastOf
  <2>2. l[i] = l2[i]
    BY <2>1
  <2> QED
    BY <1>2, <2>1, <2>2 DEF After
<1> QED
  BY <1>1, <1>2

\* A record of another key, or that is not indexed.
LEMMA AfterOther ==
    ASSUME NEW l, NEW m, NEW k, NEW n \in Nat, l[n + 1].key # k \/ n \in m
    PROVE  After(l, m, k, n + 1) = After(l, m, k, n)
<1>1. \A i : i \in 1..n + 1 <=> (i \in 1..n \/ i = n + 1)
  OBVIOUS
<1>2. (n + 1) - 1 = n /\ n + 1 \in Nat
  OBVIOUS
<1>3. App(l, m, k, n + 1) = App(l, m, k, n)
  BY <1>1, <1>2 DEF App
<1> QED
  BY <1>2, <1>3, AfterSame

\* Later records, and whether they are indexed, do not matter.
LEMMA AfterKept ==
    ASSUME NEW l, NEW l2, NEW m, NEW m2, NEW k, NEW n \in Nat,
           \A i \in 1..n : l[i] = l2[i] /\ ((i - 1) \in m <=> (i - 1) \in m2)
    PROVE  After(l, m, k, n) = After(l2, m2, k, n)
<1>1. App(l, m, k, n) = App(l2, m2, k, n)
  BY DEF App
<1>2. \A i \in App(l, m, k, n) : l[i] = l2[i]
  BY DEF App
<1> QED
  BY <1>1, <1>2, AfterSame

\* When the records from s on are to be indexed again, a newer record of the
\* key than s says is the last one up to itself.
Forgets(m2, m, s) == \A x : x \in m2 <=> (x \in m /\ x < s)
Between(v, l, m, k, s, b) == \E o \in s..b : v = After(l, m, k, o)

LEMMA AfterForgot ==
    ASSUME NEW l, NEW m, NEW m2, NEW k, NEW s \in Nat, NEW b \in Nat, NEW v, Between(v, l, m, k, s, b),
           Forgets(m2, m, s)
    PROVE  Between(v, l, m2, k, s, b)
<1> USE DEF Forgets
<1>0. PICK n \in s..b : v = After(l, m, k, n)
  BY DEF Between
<1> SUFFICES \E o \in s..b : After(l, m, k, n) = After(l, m2, k, o)
  BY <1>0 DEF Between
<1>1. n \in Nat /\ s <= n /\ n <= b
  OBVIOUS
<1>2. PICK S : S = App(l, m, k, n) /\ \A i : i \in S <=> (i \in 1..n /\ l[i].key = k /\ (i - 1) \notin m)
  <2>1. \A i : i \in App(l, m, k, n) <=> (i \in 1..n /\ l[i].key = k /\ (i - 1) \notin m)
    BY DEF App
  <2> QED
    BY <2>1
<1>3. CASE \E i \in S : i > s
  <2>1. S # {}
    BY <1>3
  <2>2. PICK i \in S : Max(S) = i /\ \A j \in S : j <= i
    BY <1>1, <1>2, <2>1, LastOf
  <2>3. i \in 1..n /\ l[i].key = k
    BY <1>2, <2>2
  <2>4. i > s
    <3>1. PICK j \in S : j > s
      BY <1>3
    <3>2. j \in 1..n /\ j <= i
      BY <1>2, <2>2, <3>1
    <3> QED
      BY <1>1, <2>3, <3>1, <3>2
  <2>5. i \in Nat /\ i # 0 /\ i \in s..b /\ ~(i - 1 < s)
    BY <1>1, <2>3, <2>4
  <2>6. (i - 1) \notin m2
    BY <2>5
  <2>7. After(l, m2, k, i) = l[i].value
    BY <2>3, <2>5, <2>6, AfterLast
  <2>8. After(l, m, k, n) = l[i].value
    BY <1>2, <2>1, <2>2 DEF After
  <2> QED
    BY <2>5, <2>7, <2>8
<1>4. CASE ~\E i \in S : i > s
  <2>1. \A i : i \in S <=> (i \in 1..s /\ l[i].key = k /\ (i - 1) \notin m)
    <3>1. \A i \in S : i \in 1..s
      BY <1>1, <1>2, <1>4
    <3>2. 1..s \subseteq 1..n
      BY <1>1
    <3> QED
      BY <1>2, <3>1, <3>2
  <2>2. \A i \in 1..s : i - 1 < s
    OBVIOUS
  <2>3. App(l, m2, k, s) = S
    BY <2>1, <2>2 DEF App
  <2>4. After(l, m, k, n) = After(l, m2, k, s)
    BY <1>1, <1>2, <2>3, AfterSame
  <2> QED
    BY <1>1, <2>4
<1> QED
  BY <1>3, <1>4

-----------------------------------------------------------------------------
(* The parts of the invariant, before and after a step.                    *)

LEMMA LogTyped ==
    ASSUME TypeOK
    PROVE  /\ Len(log) \in Nat /\ Len(log) <= MaxSeq /\ MaxSeq \in Nat
           /\ next \in Nat /\ reconciled_records \in Nat /\ pending_since_checkpoint \in Nat
           /\ \A i \in 1..Len(log) : log[i].key \in Key /\ log[i].value \in IndexValue
           /\ IndexKey = Key \cup {Sentinel} /\ Sentinel \notin Key /\ missed \subseteq Nat
<1>1. Len(log) \in Nat
  BY LenProperties DEF TypeOK
<1>2. MaxSeq \in Nat
  BY BoundsAssumption
<1>3. \A i \in 1..Len(log) : log[i] \in [key : Key, value : Val \cup {Tombstone}]
  BY <1>1, ElementOfSeq DEF TypeOK
<1>4. \A i \in 1..Len(log) : log[i].key \in Key /\ log[i].value \in IndexValue
  BY <1>3 DEF IndexValue
<1>5. next \in Nat /\ reconciled_records \in Nat /\ pending_since_checkpoint \in Nat
  BY <1>2 DEF TypeOK
<1>6. missed \subseteq Nat
  BY <1>2 DEF TypeOK
<1> QED
  BY <1>1, <1>2, <1>4, <1>5, <1>6, EntryAssumption DEF TypeOK, IndexKey

LEMMA TypesNext ==
    ASSUME TypeOK, TreeOK', disk' \in [M!PageId -> M!Page], errors' \in 0..MaxErrors,
           half_done' \in 0..MaxHalfDone, phase' \in {"open", "run", "unflushed"},
           log' \in Seq([key : Key, value : Val \cup {Tombstone}]), Len(log') <= MaxSeq,
           pc' \in {"down", "replay", "idle", "apply", "advance", "checkpoint", "flush"},
           next' \in 0..MaxSeq, reconciled_records' \in 0..MaxSeq,
           pending_since_checkpoint' \in Nat, crashes' \in 0..MaxCrashes,
           missed' \subseteq 0..MaxSeq - 1, torn' \in {"no", "split", "sentinel"},
           settled' \in 1..MaxPage + 1
    PROVE  TypeOK'
<1>1. M!TypeOK'
  BY DEF TreeOK, M!TreeInv
<1>2. (T!TypeOK <=> M!TypeOK)'
  BY SameTypes, PTL
<1>3. T!TypeOK'
  BY <1>1, <1>2
<1>4. (T!PageId = M!PageId /\ T!Page = M!Page)'
  BY SameIds, SameTypes, PTL
<1>5. T!PageId' = M!PageId /\ T!Page' = M!Page
  BY <1>4
<1> QED
  BY <1>3, <1>5, Zenon DEF TypeOK

\* The records the pool has seen, as far as those of the log.
LEMMA SeenIs ==
    ASSUME TypeOK, CallsInStep
    PROVE  /\ Seen \in Nat /\ Seen <= Len(log)
           /\ pc = "apply" => Seen = next /\ Len(log) = next + 1
           /\ pc # "apply" => Seen = Len(log)
<1>1. Len(log) \in Nat /\ next \in Nat
  BY LogTyped
<1> QED
  BY <1>1 DEF Seen, CallsInStep

LEMMA PoolIs ==
    ASSUME PoolFollowsLog
    PROVE  /\ pc \notin {"down", "replay"} => \A k \in Key : dict[k] = After(log, missed, k, Seen)
           /\ pc = "replay" => \A k \in Key : \E n \in next..Len(log) : dict[k] = After(log, missed, k, n)
           /\ pc = "replay" => ReplayFrom(dict[Sentinel]) \in 0..next
           /\ pc # "replay" => ReplayFrom(dict[Sentinel]) \in 0..Seen
           /\ pc = "flush" => dict[Sentinel] = Len(log)
BY AfterIs DEF PoolFollowsLog

LEMMA PoolNext ==
    ASSUME NEW seen, seen = Seen', NEW l, l = log', NEW m, m = missed', NEW d, d = dict',
           pc' \notin {"down", "replay"} => \A k \in Key : d[k] = After(l, m, k, seen),
           pc' = "replay" => \A k \in Key : \E n \in next'..Len(l) : d[k] = After(l, m, k, n),
           pc' = "replay" => ReplayFrom(d[Sentinel]) \in 0..next',
           pc' # "replay" => ReplayFrom(d[Sentinel]) \in 0..seen,
           pc' = "flush" => d[Sentinel] = Len(l)
    PROVE  PoolFollowsLog'
<1>1. \A k, n : IndexedAfter(k, n)' = After(l, m, k, n)
  BY AfterNext
<1>2. pc' \notin {"down", "replay"} => \A k \in Key : dict'[k] = IndexedAfter(k, Seen)'
  <2>1. \A k : IndexedAfter(k, Seen)' = After(l, m, k, seen)
    BY DEF IndexedAfter, Applied, App, After
  <2> QED
    BY <2>1
<1> QED
  BY <1>1, <1>2 DEF PoolFollowsLog

LEMMA SoundIs ==
    ASSUME DiskFollowsLog, torn = "no"
    PROVE  \E d, r : /\ d = StoredMap /\ r = ReplayFrom(d[Sentinel]) /\ r \in 0..Seen
                     /\ \A k \in Key : \E n \in r..Seen : d[k] = After(log, missed, k, n)
                     /\ pc # "flush" /\ phase # "unflushed" => d[Sentinel] = dict[Sentinel]
                     /\ pc = "down" => d = dict
<1>1. Sound(StoredMap)
  BY DEF DiskFollowsLog, StoredMap
<1>2. PICK d, r : d = StoredMap /\ r = ReplayFrom(d[Sentinel])
  OBVIOUS
<1>3. Sound(d)
  BY <1>1, <1>2
<1>4. /\ r \in 0..Seen /\ \A k \in Key : \E n \in r..Seen : d[k] = After(log, missed, k, n)
      /\ pc # "flush" /\ phase # "unflushed" => d[Sentinel] = dict[Sentinel]
      /\ pc = "down" => d = dict
  BY <1>2, <1>3, AfterIs DEF Sound
<1>5. WITNESS d, r
<1> QED
  BY <1>2, <1>4

LEMMA SoundNext ==
    ASSUME NEW seen, seen = Seen', NEW l, l = log', NEW m, m = missed', NEW d, NEW r,
           torn' = "no" =>
                /\ d = StoredMap' /\ r = ReplayFrom(d[Sentinel]) /\ r \in 0..seen
                /\ \A k \in Key : \E n \in r..seen : d[k] = After(l, m, k, n)
                /\ pc' # "flush" /\ phase' # "unflushed" => d[Sentinel] = dict'[Sentinel]
                /\ pc' = "down" => d = dict'
    PROVE  DiskFollowsLog'
<1>1. SUFFICES ASSUME torn' = "no" PROVE Sound(StoredMap)'
  BY DEF DiskFollowsLog, StoredMap
<1>2. \A k, n : IndexedAfter(k, n)' = After(l, m, k, n)
  BY AfterNext
<1>3. /\ d = StoredMap' /\ r = ReplayFrom(d[Sentinel]) /\ r \in 0..seen
      /\ \A k \in Key : \E n \in r..seen : d[k] = IndexedAfter(k, n)'
      /\ pc' # "flush" /\ phase' # "unflushed" => d[Sentinel] = dict'[Sentinel]
      /\ pc' = "down" => d = dict'
  BY <1>1, <1>2
<1>4. /\ ReplayFrom(StoredMap'[Sentinel]) \in 0..Seen'
      /\ \A k \in Key : \E n \in ReplayFrom(StoredMap'[Sentinel])..Seen' : StoredMap'[k] = IndexedAfter(k, n)'
      /\ pc' # "flush" /\ phase' # "unflushed" => StoredMap'[Sentinel] = dict'[Sentinel]
      /\ pc' = "down" => StoredMap' = dict'
  BY <1>3
<1> QED
  BY <1>4, Zenon DEF Sound, ReplayFrom

LEMMA CallsNext ==
    ASSUME call'.op # "delete", pc' = "down" <=> call' = [op |-> "closed"],
           pc' \in {"idle", "apply", "checkpoint"} => call' = M!Idle,
           pc' \in {"down", "replay"} => phase' = "open",
           pc' \in {"idle", "apply", "advance"} => phase' # "open",
           pc' = "apply" => Len(log') = next' + 1,
           pc' = "replay" => /\ next' <= Len(log') /\ reconciled_records' <= next'
                             /\ missed' \subseteq 0..next' - 1,
           missed' \subseteq 0..Seen' - 1
    PROVE  CallsInStep'
<1>1. T!Idle = M!Idle
  BY SameIds
<1>2. pc' \in {"idle", "apply", "checkpoint"} => call' = T!Idle
  BY <1>1
<1> QED
  BY <1>2, Zenon DEF CallsInStep, T!Idle

\* What every step keeps.
Inductive ==
    /\ TypeOK /\ CallsInStep /\ PoolFollowsLog /\ DiskFollowsLog /\ NothingPending
    /\ TreeOK /\ MapOK /\ DiskOK

LEMMA TreeStepKeeps ==
    ASSUME Inductive, TreeStep
    PROVE  Inductive'
<1>1. /\ UNCHANGED <<log, disk, dict, errors, half_done, pc, phase, next, reconciled_records>>
      /\ UNCHANGED <<pending_since_checkpoint, crashes, missed, torn, settled>>
  BY DEF TreeStep, store, history, shape
<1>2. /\ TreeOK' /\ call.op = "insert" /\ MapOK'
      /\ call' = M!Idle \/ call'.op = "insert"
  BY <1>1, Ascension DEF TreeStep, Inductive
<1>3. pc \notin {"down", "idle", "apply", "checkpoint"}
  BY <1>2, SameIds DEF Inductive, CallsInStep, M!Idle
<1>4. DiskOK'
  BY <1>3, TreeStepDisk DEF Inductive
<1>5. TypeOK'
  <2>1. disk' \in [M!PageId -> M!Page]
    BY <1>1, SettledTyped DEF Inductive
  <2> QED
    BY <1>1, <1>2, <2>1, TypesNext DEF Inductive, TypeOK
<1>6. Seen' = Seen
  BY <1>1 DEF Seen
<1>7. CallsInStep'
  <2>1. call'.op # "delete" /\ call' # [op |-> "closed"]
    BY <1>2 DEF M!Idle
  <2> QED
    BY <1>1, <1>3, <1>6, <2>1, CallsNext DEF Inductive, CallsInStep
<1>8. PoolFollowsLog'
  <2>1. \A k : IndexedAfter(k, Seen)' = IndexedAfter(k, Seen)
    BY <1>1, <1>6 DEF IndexedAfter, Applied
  <2>2. \A k, n : IndexedAfter(k, n)' = IndexedAfter(k, n)
    BY <1>1 DEF IndexedAfter, Applied
  <2> QED
    BY <1>1, <1>6, <2>1, <2>2 DEF Inductive, PoolFollowsLog
<1>9. DiskFollowsLog'
  <2>1. PICK d, r : torn = "no" =>
                /\ d = StoredMap /\ r = ReplayFrom(d[Sentinel]) /\ r \in 0..Seen
                /\ \A k \in Key : \E n \in r..Seen : d[k] = After(log, missed, k, n)
                /\ pc # "flush" /\ phase # "unflushed" => d[Sentinel] = dict[Sentinel]
                /\ pc = "down" => d = dict
    BY SoundIs DEF Inductive
  <2> QED
    BY <1>1, <1>6, <2>1, StoredKept, SoundNext
<1>10. NothingPending'
  <2>1. settled # next_id /\ call # M!Idle
    BY <1>2, InStep DEF Inductive, DiskOK, M!Idle
  <2>2. ~Fresh
    BY <2>1, SameIds DEF Fresh
  <2>3. ~(pc = "replay" /\ reconciled_records = 0)
    BY <2>1, <2>2 DEF Inductive, NothingPending
  <2> QED
    BY <1>1, <1>3, <2>3 DEF NothingPending
<1> QED
  BY <1>2, <1>4, <1>5, <1>7, <1>8, <1>9, <1>10 DEF Inductive

\* The disk keeps what it has; the log grows, or the pool sees more of it.
LEMMA DiskStays ==
    ASSUME TypeOK, CallsInStep, DiskFollowsLog, disk' = disk, torn' = torn,
           Seen' \in Nat, Seen <= Seen',
           \A k : \A n \in 0..Seen : After(log', missed', k, n) = After(log, missed, k, n),
           pc' # "down",
           \/ pc' = "flush" \/ phase' = "unflushed"
           \/ pc # "flush" /\ phase # "unflushed" /\ dict'[Sentinel] = dict[Sentinel]
    PROVE  DiskFollowsLog'
<1>1. PICK d, r : torn = "no" =>
                /\ d = StoredMap /\ r = ReplayFrom(d[Sentinel]) /\ r \in 0..Seen
                /\ \A k \in Key : \E n \in r..Seen : d[k] = After(log, missed, k, n)
                /\ pc # "flush" /\ phase # "unflushed" => d[Sentinel] = dict[Sentinel]
  BY SoundIs
<1>2. PICK s, t \in Nat : s = Seen /\ t = Seen' /\ s <= t
  BY SeenIs
<1>3. torn' = "no" => \A k \in Key : \E n \in r..t : d[k] = After(log', missed', k, n)
  <2>1. SUFFICES ASSUME torn = "no", NEW k \in Key
                 PROVE  \E n \in r..t : d[k] = After(log', missed', k, n)
    OBVIOUS
  <2>2. PICK n \in r..s : d[k] = After(log, missed, k, n)
    BY <1>1, <1>2, <2>1
  <2>3. r \in 0..s
    BY <1>1, <1>2, <2>1
  <2>4. n \in 0..s /\ n \in r..t
    BY <1>2, <2>2, <2>3
  <2> QED
    BY <1>2, <2>2, <2>4
<1>4. torn' = "no" => r \in 0..t
  BY <1>1, <1>2
<1>5. torn' = "no" =>
                /\ d = StoredMap' /\ r = ReplayFrom(d[Sentinel]) /\ r \in 0..t
                /\ \A k \in Key : \E n \in r..t : d[k] = After(log', missed', k, n)
                /\ pc' # "flush" /\ phase' # "unflushed" => d[Sentinel] = dict'[Sentinel]
                /\ pc' = "down" => d = dict'
  BY <1>1, <1>3, <1>4, StoredKept
<1> QED
  BY <1>2, <1>5, SoundNext

\* An insert of the next record of the log.
LEMMA RecordIs ==
    ASSUME TypeOK, next < Len(log)
    PROVE  /\ next \in Nat /\ next + 1 \in 1..Len(log) /\ log[next + 1].key \in Key
           /\ log[next + 1].key \in IndexKey /\ log[next + 1].key # Sentinel
           /\ log[next + 1].value \in IndexValue
<1>1. next \in Nat /\ Len(log) \in Nat
  BY LogTyped
<1>2. next + 1 \in 1..Len(log)
  BY <1>1
<1> QED
  BY <1>1, <1>2, LogTyped

\* An insert leaves the tree at rest, or on its way up.
LEMMA InsertKeeps ==
    ASSUME Inductive, NEW k \in IndexKey, NEW v \in IndexValue, Insert(k, v),
           disk' = disk, UNCHANGED shape, pc' # "down"
    PROVE  /\ TreeOK' /\ MapOK' /\ DiskOK' /\ disk' \in [M!PageId -> M!Page]
           /\ dict' = [dict EXCEPT ![k] = v] /\ errors' = errors /\ half_done' = half_done /\ DOMAIN dict = IndexKey
           /\ call'.op # "delete" /\ call' # [op |-> "closed"]
<1>1. TypeOK /\ TreeOK /\ MapOK /\ DiskOK
  BY DEF Inductive
<1>2. TreeOK' /\ dict' = [dict EXCEPT ![k] = v] /\ (call' = M!Idle \/ call'.op = "insert")
  BY <1>1, Insertion
<1>3. MapOK' /\ DiskOK'
  BY <1>1, InsertionMaps, InsertionDisk
<1>4. call'.op # "delete" /\ call' # [op |-> "closed"]
  BY <1>2 DEF M!Idle
<1>5. disk \in [M!PageId -> M!Page] /\ DOMAIN dict = IndexKey
  BY <1>1, SettledTyped, DictTyped
<1>6. errors' = errors /\ half_done' = half_done
  BY DEF Insert
<1> QED
  BY <1>2, <1>3, <1>4, <1>5, <1>6

LEMMA ReplayKeeps ==
    ASSUME Inductive, Replay, next < Len(log)
    PROVE  Inductive'
<1>1. PICK k, v : k = log[next + 1].key /\ v = log[next + 1].value
  OBVIOUS
<1>2. PICK n, b \in Nat : n = next /\ b = Len(log) /\ n < b
  BY LogTyped DEF Inductive
<1>3. k \in Key /\ k \in IndexKey /\ k # Sentinel /\ v \in IndexValue
  BY <1>1, RecordIs DEF Inductive
<1>4. /\ pc = "replay" /\ pc' = "replay" /\ Insert(k, v) /\ next' = n + 1
      /\ reconciled_records' = reconciled_records + 1
      /\ UNCHANGED <<log, disk, pending_since_checkpoint, phase, crashes, missed, torn, settled>>
  BY <1>1, <1>2 DEF Replay, history, shape
<1>5. UNCHANGED shape
  BY <1>4 DEF shape
<1>6. /\ TreeOK' /\ MapOK' /\ DiskOK' /\ disk' \in [M!PageId -> M!Page]
      /\ dict' = [dict EXCEPT ![k] = v] /\ errors' = errors /\ half_done' = half_done /\ DOMAIN dict = IndexKey
      /\ call'.op # "delete" /\ call' # [op |-> "closed"]
  BY <1>3, <1>4, <1>5, InsertKeeps
<1>7. /\ n <= b /\ reconciled_records \in Nat /\ reconciled_records <= n /\ missed \subseteq 0..n - 1
      /\ missed \subseteq 0..b - 1 /\ phase = "open"
  BY <1>2, <1>4, LogTyped DEF Inductive, CallsInStep, Seen
<1>8. Seen = b /\ Seen' = b
  BY <1>2, <1>4 DEF Seen
<1>9. n + 1 <= b /\ reconciled_records + 1 <= n + 1 /\ missed \subseteq 0..(n + 1) - 1 /\ n \notin missed
  BY <1>2, <1>7
<1>10. CallsInStep'
  BY <1>2, <1>4, <1>6, <1>7, <1>8, <1>9, CallsNext
<1>11. TypeOK'
  <2>1. b <= MaxSeq /\ MaxSeq \in Nat
    BY <1>2, LogTyped DEF Inductive
  <2>2. next' \in 0..MaxSeq /\ reconciled_records' \in 0..MaxSeq
    BY <1>2, <1>4, <1>7, <1>9, <2>1
  <2> QED
    BY <1>4, <1>6, <2>2, TypesNext DEF Inductive, TypeOK
<1>12. PoolFollowsLog'
  <2>1. dict'[Sentinel] = dict[Sentinel]
    BY <1>3, <1>6 DEF IndexKey
  <2>2. ReplayFrom(dict[Sentinel]) \in 0..n
    BY <1>2, <1>4, PoolIs DEF Inductive
  <2>3. ReplayFrom(dict'[Sentinel]) \in 0..n + 1
    BY <1>2, <2>1, <2>2
  <2>4. ASSUME NEW x \in Key PROVE \E o \in n + 1..b : dict'[x] = After(log, missed, x, o)
    <3>1. CASE x = k
      <4>1. After(log, missed, x, n + 1) = v
        <5>1. n + 1 \in Nat /\ n + 1 # 0 /\ (n + 1) - 1 = n
          BY <1>2
        <5> QED
          BY <1>1, <1>2, <1>9, <3>1, <5>1, AfterLast
      <4>2. dict'[x] = v /\ n + 1 \in n + 1..b
        BY <1>2, <1>3, <1>6, <1>9, <3>1
      <4> QED
        BY <4>1, <4>2
    <3>2. CASE x # k
      <4>1. PICK o \in n..b : dict[x] = After(log, missed, x, o)
        BY <1>2, <1>4, <2>4, PoolIs DEF Inductive
      <4>2. dict'[x] = dict[x]
        BY <1>6, <2>4, <3>2 DEF IndexKey
      <4>3. After(log, missed, x, n + 1) = After(log, missed, x, n)
        BY <1>1, <1>2, <3>2, AfterOther
      <4>4. CASE o = n
        <5>1. n + 1 \in n + 1..b
          BY <1>2, <1>9
        <5> QED
          BY <4>1, <4>2, <4>3, <4>4, <5>1
      <4>5. CASE o # n
        <5>1. o \in n + 1..b
          BY <1>2, <4>1, <4>5
        <5> QED
          BY <4>1, <4>2, <5>1
      <4> QED
        BY <4>4, <4>5
    <3> QED
      BY <3>1, <3>2
  <2> QED
    BY <1>2, <1>4, <1>8, <2>3, <2>4, PoolNext
<1>13. DiskFollowsLog'
  <2>1. dict'[Sentinel] = dict[Sentinel]
    BY <1>3, <1>6 DEF IndexKey
  <2>2. Seen' \in Nat /\ Seen <= Seen'
    BY <1>2, <1>8
  <2> QED
    BY <1>4, <2>1, <2>2, DiskStays DEF Inductive
<1>14. NothingPending'
  <2>1. reconciled_records' # 0
    BY <1>4, <1>7
  <2> QED
    BY <1>4, <2>1 DEF NothingPending
<1> QED
  BY <1>6, <1>10, <1>11, <1>12, <1>13, <1>14 DEF Inductive

LEMMA ApplyKeeps ==
    ASSUME Inductive, Apply
    PROVE  Inductive'
<1>1. PICK k, v : k = log[next + 1].key /\ v = log[next + 1].value
  OBVIOUS
<1>2. PICK n, b \in Nat : n = next /\ b = Len(log)
  BY LogTyped DEF Inductive
<1>3. /\ pc = "apply" /\ pc' = "advance" /\ Insert(k, v) /\ next' = n + 1
      /\ UNCHANGED <<log, disk, reconciled_records, pending_since_checkpoint, phase>>
      /\ UNCHANGED <<crashes, missed, torn, settled>>
  BY <1>1, <1>2 DEF Apply, history, shape
<1>4. b = n + 1 /\ phase # "open" /\ missed \subseteq 0..n - 1
  BY <1>2, <1>3 DEF Inductive, CallsInStep, Seen
<1>5. k \in Key /\ k \in IndexKey /\ k # Sentinel /\ v \in IndexValue
  BY <1>1, <1>2, <1>4, RecordIs DEF Inductive
<1>6. UNCHANGED shape
  BY <1>3 DEF shape
<1>7. /\ TreeOK' /\ MapOK' /\ DiskOK' /\ disk' \in [M!PageId -> M!Page]
      /\ dict' = [dict EXCEPT ![k] = v] /\ errors' = errors /\ half_done' = half_done /\ DOMAIN dict = IndexKey
      /\ call'.op # "delete" /\ call' # [op |-> "closed"]
  BY <1>3, <1>5, <1>6, InsertKeeps
<1>8. Seen = n /\ Seen' = b
  BY <1>2, <1>3 DEF Seen
<1>9. missed \subseteq 0..b - 1 /\ n \notin missed
  BY <1>2, <1>4
<1>10. CallsInStep'
  BY <1>2, <1>3, <1>4, <1>7, <1>8, <1>9, CallsNext
<1>11. TypeOK'
  <2>1. next' \in 0..MaxSeq
    BY <1>2, <1>3, <1>4, LogTyped DEF Inductive
  <2> QED
    BY <1>3, <1>7, <2>1, TypesNext DEF Inductive, TypeOK
<1>12. dict'[Sentinel] = dict[Sentinel]
  BY <1>5, <1>7 DEF IndexKey
<1>13. PoolFollowsLog'
  <2>1. ReplayFrom(dict'[Sentinel]) \in 0..b
    <3>1. ReplayFrom(dict[Sentinel]) \in 0..n
      BY <1>3, <1>8, PoolIs DEF Inductive
    <3> QED
      BY <1>2, <1>4, <1>12, <3>1
  <2>2. ASSUME NEW x \in Key PROVE dict'[x] = After(log, missed, x, b)
    <3>1. CASE x = k
      <4>1. After(log, missed, x, n + 1) = v
        <5>1. n + 1 \in Nat /\ n + 1 # 0 /\ (n + 1) - 1 = n
          BY <1>2
        <5> QED
          BY <1>1, <1>2, <1>9, <3>1, <5>1, AfterLast
      <4> QED
        BY <1>4, <1>5, <1>7, <3>1, <4>1
    <3>2. CASE x # k
      <4>1. dict[x] = After(log, missed, x, n)
        BY <1>3, <1>8, <2>2, PoolIs DEF Inductive
      <4>2. dict'[x] = dict[x]
        BY <1>7, <2>2, <3>2 DEF IndexKey
      <4>3. After(log, missed, x, n + 1) = After(log, missed, x, n)
        BY <1>1, <1>2, <3>2, AfterOther
      <4> QED
        BY <1>4, <4>1, <4>2, <4>3
    <3> QED
      BY <3>1, <3>2
  <2> QED
    BY <1>3, <1>8, <2>1, <2>2, PoolNext
<1>14. DiskFollowsLog'
  <2>1. Seen' \in Nat /\ Seen <= Seen'
    BY <1>2, <1>4, <1>8
  <2> QED
    BY <1>3, <1>12, <2>1, DiskStays DEF Inductive
<1>15. NothingPending'
  BY <1>3 DEF NothingPending
<1> QED
  BY <1>7, <1>10, <1>11, <1>13, <1>14, <1>15 DEF Inductive

LEMMA CheckpointKeeps ==
    ASSUME Inductive, Checkpoint
    PROVE  Inductive'
<1>1. PICK b \in Nat : b = Len(log)
  BY LogTyped DEF Inductive
<1>2. /\ pc = "checkpoint" /\ pc' = "flush" /\ Insert(Sentinel, b)
      /\ UNCHANGED <<log, disk, next, reconciled_records, pending_since_checkpoint, phase>>
      /\ UNCHANGED <<crashes, missed, torn, settled>>
  BY <1>1 DEF Checkpoint, SentinelValue, history, shape
<1>3. Sentinel \in IndexKey /\ b \in IndexValue /\ b # None
  <2>1. b \in 0..MaxSeq
    BY <1>1, LogTyped DEF Inductive
  <2> QED
    BY <2>1, EntryAssumption DEF IndexKey, IndexValue
<1>4. UNCHANGED shape
  BY <1>2 DEF shape
<1>5. /\ TreeOK' /\ MapOK' /\ DiskOK' /\ disk' \in [M!PageId -> M!Page]
      /\ dict' = [dict EXCEPT ![Sentinel] = b] /\ errors' = errors /\ half_done' = half_done /\ DOMAIN dict = IndexKey
      /\ call'.op # "delete" /\ call' # [op |-> "closed"]
  BY <1>2, <1>3, <1>4, InsertKeeps
<1>6. Seen = b /\ Seen' = b
  BY <1>1, <1>2 DEF Seen
<1>7. missed \subseteq 0..b - 1
  BY <1>6 DEF Inductive, CallsInStep
<1>8. CallsInStep'
  BY <1>2, <1>5, <1>6, <1>7, CallsNext
<1>9. TypeOK'
  BY <1>2, <1>5, TypesNext DEF Inductive, TypeOK
<1>10. dict'[Sentinel] = b /\ \A k \in Key : dict'[k] = dict[k]
  BY <1>5, LogTyped DEF Inductive
<1>11. PoolFollowsLog'
  <2>1. ReplayFrom(dict'[Sentinel]) \in 0..b
    BY <1>1, <1>3, <1>10 DEF ReplayFrom
  <2>2. \A k \in Key : dict'[k] = After(log, missed, k, b)
    BY <1>2, <1>6, <1>10, PoolIs DEF Inductive
  <2> QED
    BY <1>1, <1>2, <1>6, <1>10, <2>1, <2>2, PoolNext
<1>12. DiskFollowsLog'
  <2>1. Seen' \in Nat /\ Seen <= Seen'
    BY <1>1, <1>6
  <2> QED
    BY <1>2, <2>1, DiskStays DEF Inductive
<1>13. NothingPending'
  BY <1>2 DEF NothingPending
<1> QED
  BY <1>5, <1>8, <1>9, <1>11, <1>12, <1>13 DEF Inductive

\* A step that leaves the pool and the disk alone.
LEMMA RestKeeps ==
    ASSUME Inductive, UNCHANGED <<disk, pages, dirty, next_id, call, dict, torn, settled>>,
           pc # "down", pc' # "down"
    PROVE  TreeOK' /\ MapOK' /\ DiskOK' /\ disk' \in [M!PageId -> M!Page]
<1>1. TypeOK /\ TreeOK /\ MapOK /\ DiskOK
  BY DEF Inductive
<1>2. TreeOK' /\ MapOK'
  BY <1>1, PoolKept
<1>3. disk' \in [M!PageId -> M!Page]
  BY <1>1, SettledTyped
<1>4. DiskInStep'
  <2>1. /\ \A id \in M!PageId : id \notin dirty => disk[id] = pages[id]
        /\ settled <= next_id /\ (torn = "split" => settled # next_id)
        /\ call.op = "insert" => settled # next_id
        /\ call = M!Idle /\ dirty = {} => torn = "no" /\ settled = next_id
    BY <1>1, InStep DEF DiskOK
  <2> QED
    BY <2>1, InStepNext
<1>5. DiskShaped' /\ DiskIsMap'
  BY <1>1, StoredKept DEF DiskOK, DiskShaped, DiskIsMap
<1>6. DiskAlike'
  BY <1>1 DEF DiskOK, DiskAlike
<1> QED
  BY <1>2, <1>3, <1>4, <1>5, <1>6 DEF DiskOK

LEMMA ReplayEnds ==
    ASSUME Inductive, Replay, ~(next < Len(log))
    PROVE  Inductive'
<1>1. PICK n, b \in Nat : n = next /\ b = Len(log)
  BY LogTyped DEF Inductive
<1>2. /\ pc = "replay" /\ pc' \in {"checkpoint", "idle"}
      /\ pc' = "idle" => ~(reconciled_records > 0) /\ phase' = "run"
      /\ pc' # "idle" => phase' = phase
      /\ UNCHANGED <<log, disk, pages, dirty, next_id, call, dict, errors, half_done, next, reconciled_records>>
      /\ UNCHANGED <<pending_since_checkpoint, crashes, missed, torn, settled>>
      /\ call = M!Idle
  BY SameIds DEF Replay, tree, history, shape
<1>3. TreeOK' /\ MapOK' /\ DiskOK' /\ disk' \in [M!PageId -> M!Page]
  BY <1>2, RestKeeps
<1>4. n = b /\ missed \subseteq 0..b - 1 /\ phase = "open"
  BY <1>1, <1>2 DEF Inductive, CallsInStep
<1>5. Seen = b /\ Seen' = b
  BY <1>1, <1>2 DEF Seen
<1>6. CallsInStep'
  <2>1. call'.op # "delete" /\ call' # [op |-> "closed"]
    BY <1>2 DEF M!Idle
  <2> QED
    BY <1>2, <1>4, <1>5, <2>1, CallsNext
<1>7. TypeOK'
  <2>1. phase' \in {"open", "run", "unflushed"}
    BY <1>2, <1>4
  <2> QED
    BY <1>2, <1>3, <2>1, TypesNext DEF Inductive, TypeOK
<1>8. PoolFollowsLog'
  <2>1. ReplayFrom(dict'[Sentinel]) \in 0..b
    BY <1>1, <1>2, <1>4, PoolIs DEF Inductive
  <2>2. \A k \in Key : dict'[k] = After(log, missed, k, b)
    <3>1. \A k \in Key : \E o \in b..b : dict[k] = After(log, missed, k, o)
      BY <1>1, <1>2, <1>4, PoolIs DEF Inductive
    <3>2. \A o \in b..b : o = b
      BY <1>1
    <3> QED
      BY <1>2, <3>1, <3>2
  <2> QED
    BY <1>2, <1>5, <2>1, <2>2, PoolNext
<1>9. DiskFollowsLog'
  <2>1. Seen' \in Nat /\ Seen <= Seen'
    BY <1>1, <1>5
  <2> QED
    BY <1>2, <1>4, <2>1, DiskStays DEF Inductive
<1>10. NothingPending'
  <2>1. SUFFICES ASSUME pc' = "idle"
                 PROVE  ReplayFrom(dict[Sentinel]) = b /\ (Fresh' \/ (torn = "no" /\ settled = next_id))
    BY <1>1, <1>2, <1>4 DEF NothingPending
  <2>2. reconciled_records = 0
    BY <1>2, <2>1, LogTyped DEF Inductive
  <2>3. ReplayFrom(dict[Sentinel]) = b /\ (Fresh \/ (torn = "no" /\ settled = next_id))
    BY <1>1, <1>2, <1>4, <2>2 DEF Inductive, NothingPending
  <2>4. Fresh' <=> Fresh
    BY <1>2 DEF Fresh
  <2> QED
    BY <2>3, <2>4
<1> QED
  BY <1>3, <1>6, <1>7, <1>8, <1>9, <1>10 DEF Inductive

LEMMA AppendKeeps ==
    ASSUME Inductive, NEW k \in Key, NEW v \in Val \cup {Tombstone}, AppendRecord(k, v)
    PROVE  Inductive'
<1>1. PICK b \in Nat : b = Len(log)
  BY LogTyped DEF Inductive
<1>2. /\ pc = "idle" /\ pc' = "apply" /\ call = M!Idle /\ b < MaxSeq
      /\ log' = Append(log, [key |-> k, value |-> v]) /\ next' = b
      /\ UNCHANGED <<disk, pages, dirty, next_id, call, dict, errors, half_done, phase, reconciled_records>>
      /\ UNCHANGED <<pending_since_checkpoint, crashes, missed, torn, settled>>
  BY <1>1, SameIds DEF AppendRecord, tree, history, shape
<1>3. PICK R : R = [key : Key, value : Val \cup {Tombstone}]
  OBVIOUS
<1>4. log \in Seq(R) /\ [key |-> k, value |-> v] \in R
  BY <1>3 DEF Inductive, TypeOK
<1>5. log' \in Seq(R) /\ Len(log') = b + 1 /\ \A i \in 1..b : log'[i] = log[i]
  BY <1>1, <1>2, <1>4, AppendProperties
<1>6. TreeOK' /\ MapOK' /\ DiskOK' /\ disk' \in [M!PageId -> M!Page]
  BY <1>2, RestKeeps
<1>7. missed \subseteq 0..b - 1 /\ phase # "open"
  BY <1>1, <1>2 DEF Inductive, CallsInStep, Seen
<1>8. Seen = b /\ Seen' = b
  BY <1>1, <1>2 DEF Seen
<1>9. CallsInStep'
  <2>1. call'.op # "delete" /\ call' # [op |-> "closed"]
    BY <1>2 DEF M!Idle
  <2> QED
    BY <1>1, <1>2, <1>5, <1>7, <1>8, <2>1, CallsNext
<1>10. TypeOK'
  <2>1. Len(log') <= MaxSeq /\ next' \in 0..MaxSeq
    BY <1>1, <1>2, <1>5, BoundsAssumption
  <2>2. log' \in Seq([key : Key, value : Val \cup {Tombstone}])
    BY <1>3, <1>5
  <2> QED
    BY <1>2, <1>6, <2>1, <2>2, TypesNext DEF Inductive, TypeOK
<1>11. \A x : \A n \in 0..b : After(log', missed', x, n) = After(log, missed, x, n)
  <2>1. ASSUME NEW x, NEW n \in 0..b PROVE After(log', missed', x, n) = After(log, missed, x, n)
    <3>1. n \in Nat /\ \A i \in 1..n : log'[i] = log[i] /\ ((i - 1) \in missed' <=> (i - 1) \in missed)
      BY <1>1, <1>2, <1>5, <2>1
    <3> QED
      BY <3>1, AfterKept
  <2> QED
    BY <2>1
<1>12. PoolFollowsLog'
  <2>1. ReplayFrom(dict'[Sentinel]) \in 0..b
    BY <1>2, <1>8, PoolIs DEF Inductive
  <2>2. b \in 0..b
    BY <1>1
  <2>3. \A x \in Key : dict'[x] = After(log', missed', x, b)
    BY <1>2, <1>8, <1>11, <2>2, PoolIs DEF Inductive
  <2> QED
    BY <1>2, <1>8, <2>1, <2>3, PoolNext
<1>13. DiskFollowsLog'
  <2>1. Seen' \in Nat /\ Seen <= Seen'
    BY <1>1, <1>8
  <2> QED
    BY <1>2, <1>8, <1>11, <2>1, DiskStays DEF Inductive
<1>14. NothingPending'
  BY <1>2 DEF NothingPending
<1> QED
  BY <1>6, <1>9, <1>10, <1>12, <1>13, <1>14 DEF Inductive

LEMMA ApplyFailsKeeps ==
    ASSUME Inductive, ApplyFails
    PROVE  Inductive'
<1>1. PICK n, b \in Nat : n = next /\ b = Len(log)
  BY LogTyped DEF Inductive
<1>2. /\ pc = "apply" /\ pc' = "idle" /\ errors < MaxErrors /\ errors' = errors + 1
      /\ missed' = missed \cup {n}
      /\ UNCHANGED <<log, disk, pages, dirty, next_id, call, dict, half_done, phase, next, reconciled_records>>
      /\ UNCHANGED <<pending_since_checkpoint, crashes, torn, settled>>
  BY <1>1 DEF ApplyFails, shape
<1>3. /\ b = n + 1 /\ missed \subseteq 0..n - 1 /\ phase # "open"
      /\ call = M!Idle
  BY <1>1, <1>2, SameIds DEF Inductive, CallsInStep, Seen
<1>4. TreeOK' /\ MapOK' /\ DiskOK' /\ disk' \in [M!PageId -> M!Page]
  BY <1>2, RestKeeps
<1>5. Seen = n /\ Seen' = b
  BY <1>1, <1>2 DEF Seen
<1>6. missed' \subseteq 0..b - 1
  BY <1>1, <1>2, <1>3
<1>7. CallsInStep'
  <2>1. call'.op # "delete" /\ call' # [op |-> "closed"]
    BY <1>2, <1>3 DEF M!Idle
  <2> QED
    BY <1>2, <1>3, <1>5, <1>6, <2>1, CallsNext
<1>8. TypeOK'
  <2>1. errors' \in 0..MaxErrors
    <3>1. errors \in 0..MaxErrors /\ MaxErrors \in Nat
      BY BoundsAssumption DEF Inductive, TypeOK
    <3> QED
      BY <1>2, <3>1
  <2>2. missed' \subseteq 0..MaxSeq - 1
    <3>1. b <= MaxSeq /\ MaxSeq \in Nat
      BY <1>1, LogTyped DEF Inductive
    <3> QED
      BY <1>1, <1>6, <3>1
  <2> QED
    BY <1>2, <1>4, <2>1, <2>2, TypesNext DEF Inductive, TypeOK
<1>9. \A x : \A o \in 0..n : After(log', missed', x, o) = After(log, missed, x, o)
  <2>1. ASSUME NEW x, NEW o \in 0..n PROVE After(log', missed', x, o) = After(log, missed, x, o)
    <3>1. o \in Nat /\ \A i \in 1..o : log'[i] = log[i] /\ ((i - 1) \in missed' <=> (i - 1) \in missed)
      <4>1. o \in Nat /\ \A i \in 1..o : i - 1 # n
        BY <1>1, <2>1
      <4> QED
        BY <1>2, <4>1
    <3> QED
      BY <3>1, AfterKept
  <2> QED
    BY <2>1
<1>10. PoolFollowsLog'
  <2>1. ReplayFrom(dict'[Sentinel]) \in 0..b
    <3>1. ReplayFrom(dict[Sentinel]) \in 0..n
      BY <1>2, <1>5, PoolIs DEF Inductive
    <3> QED
      BY <1>1, <1>2, <1>3, <3>1
  <2>2. ASSUME NEW x \in Key PROVE dict'[x] = After(log', missed', x, b)
    <3>1. dict[x] = After(log, missed, x, n)
      BY <1>2, <1>5, <2>2, PoolIs DEF Inductive
    <3>2. After(log', missed', x, n) = After(log, missed, x, n)
      <4>1. n \in 0..n
        BY <1>1
      <4> QED
        BY <1>9, <4>1
    <3>3. n \in missed'
      BY <1>2
    <3>4. After(log', missed', x, n + 1) = After(log', missed', x, n)
      BY <1>1, <3>3, AfterOther
    <3> QED
      BY <1>2, <1>3, <3>1, <3>2, <3>4
  <2> QED
    BY <1>2, <1>5, <2>1, <2>2, PoolNext
<1>11. DiskFollowsLog'
  <2>1. Seen' \in Nat /\ Seen <= Seen'
    BY <1>1, <1>3, <1>5
  <2> QED
    BY <1>2, <1>5, <1>9, <2>1, DiskStays DEF Inductive
<1>12. NothingPending'
  <2>1. missed' # {}
    BY <1>2
  <2> QED
    BY <1>2, <2>1 DEF NothingPending
<1> QED
  BY <1>4, <1>7, <1>8, <1>10, <1>11, <1>12 DEF Inductive

LEMMA AdvanceKeeps ==
    ASSUME Inductive, Advance \/ CallCheckpoint
    PROVE  Inductive'
<1>1. PICK b \in Nat : b = Len(log)
  BY LogTyped DEF Inductive
<1>2. /\ UNCHANGED <<log, disk, pages, dirty, next_id, call, dict, errors, half_done, phase, next, reconciled_records>>
      /\ UNCHANGED <<crashes, missed, torn, settled>>
      /\ pc \in {"advance", "idle"} /\ pc' \in {"checkpoint", "idle"}
  BY DEF Advance, CallCheckpoint, tree, history, shape
<1>3. TreeOK' /\ MapOK' /\ DiskOK' /\ disk' \in [M!PageId -> M!Page]
  BY <1>2, RestKeeps
<1>4. Seen = b /\ Seen' = b
  BY <1>1, <1>2 DEF Seen
<1>5. missed \subseteq 0..b - 1 /\ phase # "open"
  BY <1>2, <1>4 DEF Inductive, CallsInStep
<1>6. /\ pending_since_checkpoint' \in Nat /\ call = M!Idle
      /\ \/ pending_since_checkpoint' # 0
         \/ pc = "idle" /\ pc' = "checkpoint" /\ pending_since_checkpoint' = pending_since_checkpoint
  <2>1. pending_since_checkpoint \in Nat
    BY LogTyped DEF Inductive
  <2>2. pc = "idle" => call = M!Idle
    BY SameIds DEF Inductive, CallsInStep
  <2> QED
    BY <2>1, <2>2, SameIds DEF Advance, CallCheckpoint
<1>7. CallsInStep'
  <2>1. call'.op # "delete" /\ call' # [op |-> "closed"]
    BY <1>2 DEF Inductive, CallsInStep
  <2> QED
    BY <1>2, <1>4, <1>5, <1>6, <2>1, CallsNext
<1>8. TypeOK'
  BY <1>2, <1>3, <1>6, TypesNext DEF Inductive, TypeOK
<1>9. PoolFollowsLog'
  <2>1. ReplayFrom(dict'[Sentinel]) \in 0..b
    BY <1>2, <1>4, PoolIs DEF Inductive
  <2>2. \A x \in Key : dict'[x] = After(log', missed', x, b)
    BY <1>2, <1>4, PoolIs DEF Inductive
  <2> QED
    BY <1>2, <1>4, <2>1, <2>2, PoolNext
<1>10. DiskFollowsLog'
  <2>1. Seen' \in Nat /\ Seen <= Seen'
    BY <1>1, <1>4
  <2> QED
    BY <1>2, <1>4, <2>1, DiskStays DEF Inductive
<1>11. NothingPending'
  <2>1. Fresh' <=> Fresh
    BY <1>2 DEF Fresh
  <2>2. CASE pending_since_checkpoint' # 0
    BY <1>2, <2>2 DEF NothingPending
  <2>3. CASE pc = "idle" /\ pc' = "checkpoint" /\ pending_since_checkpoint' = pending_since_checkpoint
    BY <1>2, <2>1, <2>3 DEF Inductive, NothingPending
  <2> QED
    BY <1>6, <2>2, <2>3
<1> QED
  BY <1>3, <1>7, <1>8, <1>9, <1>10, <1>11 DEF Inductive

LEMMA WholeDisk ==
    ASSUME TypeOK, TreeOK, MapOK, DiskOK, pc # "down", dirty = {}, call = M!Idle
    PROVE  StoredMap = dict /\ torn = "no" /\ settled = next_id
<1>1. torn = "no" /\ settled = next_id /\ \A x \in M!PageId : disk[x] = pages[x]
  BY InStep DEF DiskOK
<1>2. disk = pages
  <2>1. disk \in [M!PageId -> M!Page] /\ pages \in [M!PageId -> M!Page]
    BY SettledTyped DEF TreeOK, M!TreeInv, M!TypeOK
  <2> QED
    BY <1>1, <2>1
<1>3. call.op # "closed"
  BY DEF M!Idle
<1>4. disk[0] # M!Blank
  BY <1>2, <1>3, PoolShaped
<1>5. \A k \in IndexKey : StoredMap[k] = dict[k]
  BY <1>2, <1>4, StoredIs, PoolGets
<1>6. StoredMap = [k \in IndexKey |-> StoredMap[k]]
  BY DEF StoredMap
<1> QED
  BY <1>1, <1>5, <1>6, DictTyped

LEMMA FlushDoneKeeps ==
    ASSUME Inductive, FlushDone
    PROVE  Inductive'
<1>1. PICK b \in Nat : b = Len(log)
  BY LogTyped DEF Inductive
<1>2. /\ UNCHANGED <<log, disk, pages, dirty, next_id, call, dict, errors, half_done, next, reconciled_records>>
      /\ UNCHANGED <<crashes, missed, torn, settled>>
      /\ pc = "flush" /\ pc' = "idle" /\ dirty = {} /\ call = M!Idle /\ pending_since_checkpoint' = 0
      /\ phase' = "run"
  BY SameIds DEF FlushDone, tree, history, shape
<1>3. TreeOK' /\ MapOK' /\ DiskOK' /\ disk' \in [M!PageId -> M!Page]
  BY <1>2, RestKeeps
<1>4. Seen = b /\ Seen' = b
  BY <1>1, <1>2 DEF Seen
<1>5. StoredMap = dict /\ torn = "no" /\ settled = next_id
  BY <1>2, WholeDisk DEF Inductive
<1>6. dict[Sentinel] = b /\ b # None
  <2>1. b \in IndexValue
    BY <1>1, LogTyped DEF Inductive, IndexValue
  <2> QED
    BY <1>1, <1>2, <2>1, PoolIs, EntryAssumption DEF Inductive
<1>7. ReplayFrom(dict[Sentinel]) = b
  BY <1>6 DEF ReplayFrom
<1>8. CallsInStep'
  <2>1. call'.op # "delete" /\ call' # [op |-> "closed"]
    BY <1>2 DEF M!Idle
  <2>2. missed \subseteq 0..b - 1
    BY <1>4 DEF Inductive, CallsInStep
  <2> QED
    BY <1>2, <1>4, <2>1, <2>2, CallsNext
<1>9. TypeOK'
  BY <1>2, <1>3, TypesNext DEF Inductive, TypeOK
<1>10. \A x \in Key : dict[x] = After(log, missed, x, b)
  BY <1>2, <1>4, PoolIs DEF Inductive
<1>11. b \in 0..b /\ b \in b..b
  BY <1>1
<1>12. PoolFollowsLog'
  BY <1>2, <1>4, <1>7, <1>10, <1>11, PoolNext
<1>13. DiskFollowsLog'
  <2>1. \A x \in Key : \E n \in b..b : dict[x] = After(log, missed, x, n)
    BY <1>10, <1>11
  <2> QED
    BY <1>2, <1>4, <1>5, <1>7, <1>11, <2>1, StoredKept, SoundNext
<1>14. NothingPending'
  BY <1>1, <1>2, <1>5, <1>7 DEF NothingPending
<1> QED
  BY <1>3, <1>8, <1>9, <1>12, <1>13, <1>14 DEF Inductive

\* A checkpoint fails, and leaves the pool and the disk as they are.
LEMMA CheckpointFailsKeeps ==
    ASSUME Inductive, CheckpointFails \/ FlushFails
    PROVE  Inductive'
<1>1. PICK b \in Nat : b = Len(log)
  BY LogTyped DEF Inductive
<1>2. /\ UNCHANGED <<log, disk, pages, dirty, next_id, call, dict, half_done, next, reconciled_records>>
      /\ UNCHANGED <<pending_since_checkpoint, crashes, missed, torn, settled>>
      /\ pc' = "idle" /\ errors < MaxErrors /\ errors' = errors + 1 /\ phase # "open"
      /\ \/ pc = "checkpoint" /\ phase' = phase
         \/ pc = "flush" /\ call = M!Idle /\ phase' = "unflushed"
  BY SameIds DEF CheckpointFails, FlushFails, history, shape
<1>3. TreeOK' /\ MapOK' /\ DiskOK' /\ disk' \in [M!PageId -> M!Page]
  BY <1>2, RestKeeps
<1>4. Seen = b /\ Seen' = b
  BY <1>1, <1>2 DEF Seen
<1>5. call = M!Idle /\ missed \subseteq 0..b - 1
  BY <1>2, <1>4, SameIds DEF Inductive, CallsInStep
<1>6. CallsInStep'
  <2>1. call'.op # "delete" /\ call' # [op |-> "closed"]
    BY <1>2, <1>5 DEF M!Idle
  <2> QED
    BY <1>2, <1>4, <1>5, <2>1, CallsNext
<1>7. TypeOK'
  <2>1. errors' \in 0..MaxErrors
    <3>1. errors \in 0..MaxErrors /\ MaxErrors \in Nat
      BY BoundsAssumption DEF Inductive, TypeOK
    <3> QED
      BY <1>2, <3>1
  <2>2. phase' \in {"open", "run", "unflushed"}
    BY <1>2 DEF Inductive, TypeOK
  <2> QED
    BY <1>2, <1>3, <2>1, <2>2, TypesNext DEF Inductive, TypeOK
<1>8. PoolFollowsLog'
  <2>1. ReplayFrom(dict'[Sentinel]) \in 0..b
    BY <1>2, <1>4, PoolIs DEF Inductive
  <2>2. \A x \in Key : dict'[x] = After(log', missed', x, b)
    BY <1>2, <1>4, PoolIs DEF Inductive
  <2> QED
    BY <1>2, <1>4, <2>1, <2>2, PoolNext
<1>9. DiskFollowsLog'
  <2>1. Seen' \in Nat /\ Seen <= Seen'
    BY <1>1, <1>4
  <2> QED
    BY <1>2, <1>4, <2>1, DiskStays DEF Inductive
<1>10. NothingPending'
  <2>1. Fresh' <=> Fresh
    BY <1>2 DEF Fresh
  <2>2. CASE phase' = "unflushed"
    BY <1>2, <2>2 DEF NothingPending
  <2>3. CASE pc = "checkpoint" /\ phase' = phase
    BY <1>2, <2>1, <2>3 DEF Inductive, NothingPending
  <2> QED
    BY <1>2, <2>2, <2>3
<1> QED
  BY <1>3, <1>6, <1>7, <1>8, <1>9, <1>10 DEF Inductive

\* A page of the pool reaches the disk.
LEMMA WritesKeeps ==
    ASSUME Inductive, pc # "down", Writes,
           UNCHANGED <<log, errors, half_done, phase, next, reconciled_records, pending_since_checkpoint,
                       crashes, missed>>
    PROVE  Inductive'
<1>1. TypeOK /\ CallsInStep /\ TreeOK /\ MapOK /\ DiskOK
  BY DEF Inductive
<1>2. DiskOK' /\ (LeavesWhole \/ LeavesTorn \/ LeavesMixed)
  BY <1>1, WritesDisk
<1>3. UNCHANGED <<pages, next_id, call, dict, pc>>
  BY DEF Writes
<1>4. PICK id \in dirty : /\ id \in M!PageId /\ M!Overlay(disk', disk, pages, id)
                          /\ disk' \in [M!PageId -> M!Page] /\ dirty' = dirty \ {id}
  BY <1>1, WriteIs DEF Writes
<1>5. TreeOK' /\ MapOK'
  BY <1>1, <1>3, <1>4, PoolKept
<1>6. PICK s \in Nat : s = Seen /\ s = Seen'
  BY <1>1, <1>3, SeenIs DEF Seen
<1>7. CallsInStep'
  BY <1>1, <1>3, <1>6, SameIds, CallsNext DEF CallsInStep
<1>8. TypeOK'
  <2>1. settled' \in 1..MaxPage + 1
    BY <1>1, <1>2, SettledTyped DEF LeavesWhole, LeavesTorn, LeavesMixed
  <2>2. torn' \in {"no", "split", "sentinel"}
    <3>1. torn \in {"no", "split", "sentinel"}
      BY <1>1 DEF TypeOK
    <3> QED
      BY <3>1, TearIs DEF Writes
  <2> QED
    BY <1>1, <1>3, <1>4, <1>5, <2>1, <2>2, TypesNext DEF TypeOK
<1>9. PoolFollowsLog'
  BY <1>3, <1>6, PoolIs, PoolNext DEF Inductive
<1>10. PICK q : q = ReplayFrom(dict[Sentinel]) /\ q \in 0..s
  <2>1. CASE pc = "replay"
    <3>1. ReplayFrom(dict[Sentinel]) \in 0..next /\ next <= Len(log) /\ s = Len(log)
      BY <1>1, <1>6, <2>1, PoolIs, SeenIs DEF Inductive, CallsInStep
    <3>2. Len(log) \in Nat /\ next \in Nat
      BY <1>1, LogTyped
    <3>3. ReplayFrom(dict[Sentinel]) \in 0..s
      BY <3>1, <3>2
    <3> QED
      BY <3>3
  <2>2. CASE pc # "replay"
    BY <1>6, <2>2, PoolIs DEF Inductive
  <2> QED
    BY <2>1, <2>2
<1>11. \A k \in Key : \E n \in q..s : dict[k] = After(log, missed, k, n)
  <2>1. CASE pc = "replay"
    <3>1. q \in 0..next /\ next \in Nat /\ s = Len(log)
      BY <1>1, <1>6, <1>10, <2>1, LogTyped, PoolIs, SeenIs DEF Inductive
    <3>2. next..s \subseteq q..s
      BY <1>6, <3>1
    <3> QED
      BY <2>1, <3>1, <3>2, PoolIs DEF Inductive
  <2>2. CASE pc # "replay"
    <3>1. s \in q..s
      BY <1>6, <1>10
    <3> QED
      BY <1>6, <2>2, <3>1, PoolIs DEF Inductive
  <2> QED
    BY <2>1, <2>2
<1>12. DiskFollowsLog'
  <2>1. CASE LeavesWhole
    <3>1. dict = StoredMap'
      BY <2>1 DEF LeavesWhole
    <3> QED
      BY <1>3, <1>6, <1>10, <1>11, <3>1, SoundNext
  <2>2. CASE LeavesTorn
    BY <1>6, <2>2, SoundNext DEF LeavesTorn
  <2>3. CASE LeavesMixed
    <3>1. PICK d, r : /\ d = StoredMap /\ r = ReplayFrom(d[Sentinel]) /\ r \in 0..s
                      /\ \A k \in Key : \E n \in r..s : d[k] = After(log, missed, k, n)
                      /\ pc # "flush" /\ phase # "unflushed" => d[Sentinel] = dict[Sentinel]
      BY <1>6, <2>3, SoundIs DEF Inductive, LeavesMixed
    <3>2. PICK e : e = StoredMap'
      OBVIOUS
    <3>3. /\ \A k \in IndexKey : e[k] = dict[k] \/ e[k] = d[k]
          /\ e[Sentinel] = d[Sentinel]
      BY <2>3, <3>1, <3>2 DEF LeavesMixed
    <3>4. Sentinel \in IndexKey /\ Key \subseteq IndexKey
      BY DEF IndexKey
    <3>5. pc = "replay" => q = r
      <4>1. pc = "replay" => phase = "open"
        BY <1>1 DEF CallsInStep
      <4> QED
        BY <1>10, <3>1, <4>1
    <3>6. pc # "replay" => \A k \in Key : dict[k] = After(log, missed, k, s)
      BY <1>6, PoolIs DEF Inductive
    <3>7. ASSUME NEW k \in Key PROVE \E n \in r..s : e[k] = After(log, missed, k, n)
      <4>1. CASE e[k] = d[k]
        BY <3>1, <3>7, <4>1
      <4>2. CASE e[k] = dict[k] /\ pc = "replay"
        BY <1>11, <3>5, <3>7, <4>2
      <4>3. CASE e[k] = dict[k] /\ pc # "replay"
        <5>1. s \in r..s
          BY <1>6, <3>1
        <5> QED
          BY <3>6, <3>7, <4>3, <5>1
      <4> QED
        BY <3>3, <3>4, <3>7, <4>1, <4>2, <4>3
    <3>8. /\ r = ReplayFrom(e[Sentinel])
          /\ pc' # "flush" /\ phase' # "unflushed" => e[Sentinel] = dict'[Sentinel]
      BY <1>3, <3>1, <3>3
    <3> QED
      BY <1>3, <1>6, <3>1, <3>2, <3>7, <3>8, SoundNext
  <2> QED
    BY <1>2, <2>1, <2>2, <2>3
<1>13. NothingPending'
  <2>1. SUFFICES ASSUME \/ pc = "replay" /\ reconciled_records = 0
                        \/ /\ pc \in {"idle", "checkpoint"} /\ phase = "run"
                           /\ pending_since_checkpoint = 0 /\ missed = {}
                 PROVE  /\ ReplayFrom(dict[Sentinel]) = IF pc = "replay" THEN next ELSE Len(log)
                        /\ Fresh' \/ (torn' = "no" /\ settled' = next_id)
    BY <1>3 DEF NothingPending
  <2>2. /\ ReplayFrom(dict[Sentinel]) = IF pc = "replay" THEN next ELSE Len(log)
        /\ Fresh \/ (torn = "no" /\ settled = next_id)
    BY <2>1 DEF Inductive, NothingPending
  <2>3. CASE LeavesWhole
    BY <2>2, <2>3 DEF LeavesWhole
  <2>4. CASE LeavesMixed
    BY <2>2, <2>4 DEF LeavesMixed
  <2>5. CASE LeavesTorn
    <3>1. Fresh /\ settled' = settled
      <4>1. pc # "flush" /\ phase # "unflushed"
        BY <1>1, <2>1 DEF CallsInStep
      <4>2. torn = "no" => StoredMap[Sentinel] = dict[Sentinel]
        BY <4>1, SoundIs DEF Inductive
      <4> QED
        BY <2>2, <2>5, <4>2 DEF LeavesTorn
    <3>2. \A x \in T!PageId : disk'[x] \in {T!Blank, pages[x]}
      <4>1. \A x \in T!PageId : disk'[x] = disk[x] \/ disk'[x] = pages[x]
        BY <1>4, SameIds DEF M!Overlay
      <4> QED
        BY <3>1, <4>1 DEF Fresh
    <3>3. Fresh'
      BY <1>3, <3>1, <3>2 DEF Fresh
    <3> QED
      BY <2>2, <3>3
  <2> QED
    BY <1>2, <2>3, <2>4, <2>5
<1> QED
  BY <1>2, <1>5, <1>7, <1>8, <1>9, <1>12, <1>13 DEF Inductive

\* The process stops while the disk is whole.
LEMMA CrashKeeps ==
    ASSUME Inductive, Crash, CrashIn = {}
    PROVE  Inductive'
<1>1. PICK b, s \in Nat : b = Len(log) /\ s = Seen /\ s <= b
  BY LogTyped, SeenIs DEF Inductive
<1>2. /\ UNCHANGED <<log, disk, errors, half_done, missed>> /\ pages' = disk /\ dirty' = {} /\ torn = "no"
      /\ next_id' = NextPageId /\ settled' = NextPageId /\ call' = [op |-> "closed"] /\ torn' = "no"
      /\ dict' = StoredMap /\ pc' = "down" /\ phase' = "open" /\ next' = 0 /\ reconciled_records' = 0
      /\ pending_since_checkpoint' = 0 /\ crashes < MaxCrashes /\ crashes' = crashes + 1
  BY DEF Crash, StoredMap
<1>3. TreeOK' /\ MapOK' /\ DiskOK' /\ settled' = settled
  BY <1>2, CrashDisk DEF Inductive
<1>4. Seen' = b
  BY <1>1, <1>2 DEF Seen
<1>5. CallsInStep'
  <2>1. missed \subseteq 0..b - 1
    <3>1. missed \subseteq 0..s - 1
      BY <1>1 DEF Inductive, CallsInStep
    <3> QED
      BY <1>1, <3>1
  <2>2. call'.op # "delete"
    BY <1>2
  <2> QED
    BY <1>2, <1>4, <2>1, <2>2, CallsNext
<1>6. TypeOK'
  <2>1. 0 \in 0..MaxSeq /\ crashes' \in 0..MaxCrashes
    <3>1. crashes \in 0..MaxCrashes
      BY DEF Inductive, TypeOK
    <3> QED
      BY <1>2, <3>1, BoundsAssumption
  <2>2. disk' \in [M!PageId -> M!Page]
    BY <1>2, SettledTyped DEF Inductive
  <2> QED
    BY <1>2, <1>3, <2>1, <2>2, TypesNext DEF Inductive, TypeOK
<1>7. PICK d, r : /\ d = StoredMap /\ r = ReplayFrom(d[Sentinel]) /\ r \in 0..s
                  /\ \A k \in Key : \E n \in r..s : d[k] = After(log, missed, k, n)
  BY <1>1, <1>2, SoundIs DEF Inductive
<1>8. r \in 0..b /\ r..s \subseteq r..b
  BY <1>1, <1>7
<1>9. PoolFollowsLog'
  BY <1>2, <1>4, <1>7, <1>8, PoolNext
<1>10. DiskFollowsLog'
  <2>1. \A k \in Key : \E n \in r..b : d[k] = After(log, missed, k, n)
    BY <1>7, <1>8
  <2> QED
    BY <1>2, <1>4, <1>7, <1>8, <2>1, StoredKept, SoundNext
<1>11. NothingPending'
  BY <1>2 DEF NothingPending
<1> QED
  BY <1>3, <1>5, <1>6, <1>9, <1>10, <1>11 DEF Inductive

LEMMA PoolGetsSentinel == TreeOK /\ MapOK /\ call = M!Idle => M!Get(pages, Sentinel) = dict[Sentinel]
BY PoolGets DEF IndexKey

LEMMA OpenKeeps ==
    ASSUME Inductive, Open
    PROVE  Inductive'
<1>1. PICK b \in Nat : b = Len(log)
  BY LogTyped DEF Inductive
<1>2. /\ UNCHANGED <<log, disk, dict, errors, half_done, phase, crashes, torn, settled>> /\ T!Open
      /\ pc = "down" /\ pc' = "replay" /\ reconciled_records' = 0 /\ pending_since_checkpoint' = 0
      /\ next' = ReplayFrom(T!Get(pages', Sentinel)) /\ missed' = {seq \in missed : seq < next'}
  BY DEF Open, shape
<1>3. Seen = b /\ Seen' = b
  BY <1>1, <1>2 DEF Seen
<1>4. torn = "no"
  BY <1>2, InStep DEF Inductive, DiskOK
<1>5. PICK d, r : /\ d = StoredMap /\ r = ReplayFrom(d[Sentinel]) /\ r \in 0..b /\ d = dict
                  /\ \A k \in Key : \E n \in r..b : d[k] = After(log, missed, k, n)
  BY <1>2, <1>3, <1>4, SoundIs DEF Inductive
<1>6. /\ TreeOK' /\ MapOK' /\ DiskOK' /\ call' = M!Idle /\ disk = pages
      /\ disk[0] = M!Blank =>
           /\ settled' = 1 /\ next_id' = 2 /\ 1 \in M!PageId /\ torn' = "no"
           /\ pages'[0] = M!Meta(1) /\ pages'[1] = M!Leaf(<<>>, M!NO_SIBLING)
           /\ \A x \in M!PageId : x # 0 => disk[x] = M!Blank
      /\ disk[0] # M!Blank => settled' = next_id' /\ torn' = "no"
  <2>1. UNCHANGED shape
    BY <1>2 DEF shape
  <2> QED
    BY <1>2, <1>5, <2>1, OpenDisk DEF Inductive
<1>7. Sentinel \in IndexKey
  BY DEF IndexKey
<1>8. next' = r /\ r \in Nat /\ r <= b
  <2>1. (TreeOK /\ MapOK /\ call = M!Idle => M!Get(pages, Sentinel) = dict[Sentinel])'
    BY PoolGetsSentinel, PTL
  <2>2. M!Get(pages', Sentinel) = dict'[Sentinel]
    BY <1>6, <2>1 DEF M!Idle
  <2>3. T!Get(pages', Sentinel) = M!Get(pages', Sentinel)
    BY SameGet
  <2> QED
    BY <1>1, <1>2, <1>5, <2>2, <2>3
<1>9. /\ missed \subseteq 0..b - 1 /\ \A x : x \in missed' <=> (x \in missed /\ x < r)
  BY <1>2, <1>3, <1>8 DEF Inductive, CallsInStep
<1>10. missed' \subseteq 0..r - 1 /\ missed' \subseteq 0..b - 1
  <2>1. ASSUME NEW x \in missed' PROVE x \in 0..r - 1 /\ x \in 0..b - 1
    <3>1. x \in 0..b - 1 /\ x < r
      BY <1>9, <2>1
    <3> QED
      BY <1>1, <1>8, <3>1
  <2> QED
    BY <2>1
<1>11. CallsInStep'
  <2>1. call'.op # "delete" /\ call' # [op |-> "closed"]
    BY <1>6 DEF M!Idle
  <2>2. 0 <= r /\ phase = "open"
    BY <1>2, <1>8 DEF Inductive, CallsInStep
  <2> QED
    BY <1>1, <1>2, <1>3, <1>8, <1>10, <2>1, <2>2, CallsNext
<1>12. TypeOK'
  <2>1. 0 \in 0..MaxSeq /\ next' \in 0..MaxSeq
    <3>1. b <= MaxSeq /\ MaxSeq \in Nat
      BY <1>1, LogTyped DEF Inductive
    <3> QED
      BY <1>1, <1>8, <3>1
  <2>2. disk' \in [M!PageId -> M!Page]
    BY <1>2, SettledTyped DEF Inductive
  <2>3. missed' \subseteq 0..MaxSeq - 1
    BY <1>9 DEF Inductive, TypeOK
  <2> QED
    BY <1>2, <1>6, <2>1, <2>2, <2>3, TypesNext DEF Inductive, TypeOK
<1>13. \A k \in Key : \E n \in r..b : d[k] = After(log, missed', k, n)
  <2>1. ASSUME NEW k \in Key PROVE \E n \in r..b : d[k] = After(log, missed', k, n)
    <3>1. PICK l, m, m2, v : l = log /\ m = missed /\ m2 = missed' /\ v = d[k]
      OBVIOUS
    <3>2. Between(v, l, m, k, r, b)
      BY <1>5, <2>1, <3>1 DEF Between
    <3>3. Forgets(m2, m, r)
      BY <1>9, <3>1 DEF Forgets
    <3>4. Between(v, l, m2, k, r, b)
      BY ONLY <1>8, b \in Nat, <3>2, <3>3, AfterForgot
    <3> QED
      BY <3>1, <3>4 DEF Between
  <2> QED
    BY <2>1
<1>14. PoolFollowsLog'
  <2>1. r \in 0..r
    BY <1>8
  <2>2. PICK l, m : l = log' /\ m = missed' /\ Len(l) = b /\ d = dict' /\ b = Seen'
    BY <1>1, <1>2, <1>3, <1>5
  <2>3. \A k \in Key : \E n \in next'..Len(l) : d[k] = After(l, m, k, n)
    BY <1>2, <1>8, <1>13, <2>2
  <2>4. ReplayFrom(d[Sentinel]) \in 0..next'
    BY <1>5, <1>8, <2>1
  <2>5. pc' = "replay" /\ pc' \in {"down", "replay"} /\ pc' # "flush"
    BY <1>2
  <2> QED
    BY ONLY <2>2, <2>3, <2>4, <2>5, PoolNext
<1>15. DiskFollowsLog'
  BY <1>2, <1>3, <1>5, <1>13, StoredKept, SoundNext
<1>16. NothingPending'
  <2>1. ReplayFrom(dict'[Sentinel]) = next'
    BY <1>2, <1>5, <1>8
  <2>2. CASE disk[0] # M!Blank
    BY <1>2, <1>6, <2>1, <2>2 DEF NothingPending
  <2>3. CASE disk[0] = M!Blank
    <3>1. dict[Sentinel] = None
      BY <1>5, <1>7, <2>3, StoredIs
    <3>2. \A x \in M!PageId : disk[x] = M!Blank
      BY <1>6, <2>3
    <3>3. T!Blank = M!Blank /\ T!Meta(1) = M!Meta(1) /\ T!Leaf(<<>>, M!NO_SIBLING) = M!Leaf(<<>>, M!NO_SIBLING)
      BY SamePages
    <3>4. /\ settled' = 1 /\ next_id' = 2 /\ call' = T!Idle /\ dict'[Sentinel] = None
          /\ pages'[0] = T!Meta(1) /\ pages'[1] = T!Leaf(<<>>, T!NO_SIBLING)
          /\ \A x \in T!PageId : disk'[x] = T!Blank
      BY <1>2, <1>6, <2>3, <3>1, <3>2, <3>3, SameIds
    <3>5. Fresh'
      BY <3>4 DEF Fresh, T!Idle, T!Meta, T!Leaf, T!NO_SIBLING, T!Blank, T!PageId, T!Leftmost,
                  T!InternalEntry, T!NoSlot
    <3> QED
      BY <1>2, <2>1, <3>5 DEF NothingPending
  <2> QED
    BY <2>2, <2>3
<1> QED
  BY <1>6, <1>11, <1>12, <1>14, <1>15, <1>16 DEF Inductive

-----------------------------------------------------------------------------
(* The invariant.                                                          *)

LEMMA IndexedInit == Init => Inductive
<1> SUFFICES ASSUME Init PROVE Inductive
  OBVIOUS
<1>1. /\ log = <<>> /\ disk = [id \in M!PageId |-> M!Blank] /\ pages = disk /\ dirty = {}
      /\ next_id = 1 /\ call = [op |-> "closed"] /\ dict = [k \in IndexKey |-> None] /\ errors = 0
      /\ half_done = 0 /\ phase = "open"
      /\ pc = "down" /\ next = 0 /\ reconciled_records = 0 /\ pending_since_checkpoint = 0
      /\ crashes = 0 /\ missed = {} /\ torn = "no" /\ settled = 1
  BY SameIds, SamePages DEF Init
<1>2. \A id \in M!PageId : disk[id] = M!Blank /\ pages[id] = M!Blank
  BY <1>1
<1>3. M!TreeInv
  <2>1. M!Init
    BY <1>1 DEF M!Init
  <2> QED
    BY <2>1, TreeAssumptions, M!TreeInit
<1>4. M!PageId = 0..MaxPage /\ MaxPage \in Nat /\ 0 \in M!PageId
  BY TreeAssumptions, M!IdFacts
<1>5. M!Blank \in M!Page /\ ~M!IsLeaf(M!Blank) /\ ~M!IsInternal(M!Blank) /\ M!Blank.next < 1
  BY TreeAssumptions, M!BlankFacts, M!PageShapes DEF M!NoSlot
<1>6. TreeOK
  <2>1. M!Filled
    BY <1>1, <1>2, <1>4, <1>5 DEF M!Filled
  <2> QED
    BY <1>3, <2>1 DEF TreeOK
<1>7. MapOK
  BY <1>1 DEF MapOK
<1>8. disk \in [M!PageId -> M!Page]
  BY <1>1, <1>5
<1>9. DiskOK
  <2>1. DiskInStep
    BY <1>1, <1>2, InStep
  <2>2. DiskShaped
    <3>1. PICK level : level = [id \in M!PageId |-> 0]
      OBVIOUS
    <3>2. \A id \in M!PageId : M!InPlace(disk[id], id, level, M!NodesOf(disk, 1))
      BY <1>2, <1>5 DEF M!InPlace
    <3>3. \A id \in M!PageId : id # 0 => id >= 1
      BY <1>4
    <3>4. level \in [M!PageId -> Nat] /\ 1 \in 1..MaxPage + 1
      BY <1>4, <3>1
    <3>5. M!Shaped(disk, 1, level)
      BY <1>2, <1>4, <1>5, <1>8, <3>2, <3>3, <3>4 DEF M!Shaped
    <3> QED
      BY <1>1, <3>5 DEF DiskShaped
  <2>3. DiskAlike /\ DiskIsMap
    BY <1>1, <1>2, <1>4 DEF DiskAlike, DiskIsMap, M!Alike
  <2> QED
    BY <2>1, <2>2, <2>3 DEF DiskOK
<1>10. TypeOK
  <2>1. T!TypeOK
    BY <1>3, SameTypes DEF M!TreeInv
  <2>2. /\ 0 \in 0..MaxSeq /\ 0 \in 0..MaxErrors /\ 0 \in 0..MaxCrashes /\ 0 <= MaxSeq
        /\ 0 \in 0..MaxHalfDone /\ 1 \in 1..MaxPage + 1
    BY <1>4, BoundsAssumption
  <2>3. log \in Seq([key : Key, value : Val \cup {Tombstone}]) /\ Len(log) = 0
    BY <1>1, EmptySeq
  <2> QED
    BY <1>1, <1>8, <2>1, <2>2, <2>3, SameIds, SameTypes DEF TypeOK
<1>11. Len(log) = 0 /\ Seen = 0
  BY <1>1 DEF Seen
<1>12. CallsInStep
  BY <1>1 DEF CallsInStep
<1>13. ReplayFrom(None) = 0 /\ 0 \in 0..0
  BY DEF ReplayFrom
<1>14. Sentinel \in IndexKey /\ Key \subseteq IndexKey
  BY DEF IndexKey
<1>15. PoolFollowsLog
  BY <1>1, <1>11, <1>13, <1>14 DEF PoolFollowsLog
<1>16. DiskFollowsLog
  <2>1. \A k : IndexedAfter(k, 0) = None
    BY DEF IndexedAfter, Applied
  <2>2. \A k \in IndexKey : StoredMap[k] = None
    BY <1>2, <1>4, StoredIs
  <2>3. StoredMap = dict
    BY <1>1, <2>2 DEF StoredMap
  <2>4. Sound(dict)
    BY <1>1, <1>11, <1>13, <1>14, <2>1 DEF Sound
  <2> QED
    BY <2>3, <2>4 DEF DiskFollowsLog, StoredMap
<1>17. NothingPending
  BY <1>1 DEF NothingPending
<1> QED
  BY <1>6, <1>7, <1>9, <1>10, <1>12, <1>15, <1>16, <1>17 DEF Inductive

LEMMA EvictKeeps ==
    ASSUME Inductive, Evict \/ FlushPage
    PROVE  Inductive'
<1>1. pc # "down" /\ Writes
  BY DEF Evict, FlushPage, Writes, store
<1>2. UNCHANGED <<log, errors, half_done, phase, next, reconciled_records, pending_since_checkpoint,
                   crashes, missed>>
  BY DEF Evict, FlushPage, store, history
<1> QED
  BY <1>1, <1>2, WritesKeeps

LEMMA IndexedStutter ==
    ASSUME Inductive, UNCHANGED vars
    PROVE  Inductive'
<1>1. /\ UNCHANGED <<log, disk, pages, dirty, next_id, call, dict, errors, half_done, pc, phase, next>>
      /\ UNCHANGED <<reconciled_records, pending_since_checkpoint, crashes, missed, torn, settled>>
  BY DEF vars, tree, store, history, shape
<1>2. TreeOK' /\ MapOK'
  BY <1>1, PoolKept DEF Inductive
<1>3. DiskOK'
  <2>1. DiskInStep'
    BY <1>1 DEF Inductive, DiskOK, DiskInStep
  <2>2. DiskShaped' /\ DiskIsMap' /\ DiskAlike'
    BY <1>1, StoredKept DEF Inductive, DiskOK, DiskShaped, DiskIsMap, DiskAlike
  <2> QED
    BY <2>1, <2>2 DEF DiskOK
<1>4. TypeOK'
  <2>1. disk' \in [M!PageId -> M!Page]
    BY <1>1, SettledTyped DEF Inductive
  <2> QED
    BY <1>1, <1>2, <2>1, TypesNext DEF Inductive, TypeOK
<1>5. Seen' = Seen
  BY <1>1 DEF Seen
<1>6. CallsInStep'
  BY <1>1, <1>5, SameIds, CallsNext DEF Inductive, CallsInStep
<1>7. PoolFollowsLog'
  BY <1>1, <1>5, PoolIs, PoolNext DEF Inductive
<1>8. DiskFollowsLog'
  <2>1. PICK d, r : torn = "no" =>
                /\ d = StoredMap /\ r = ReplayFrom(d[Sentinel]) /\ r \in 0..Seen
                /\ \A k \in Key : \E n \in r..Seen : d[k] = After(log, missed, k, n)
                /\ pc # "flush" /\ phase # "unflushed" => d[Sentinel] = dict[Sentinel]
                /\ pc = "down" => d = dict
    BY SoundIs DEF Inductive
  <2> QED
    BY <1>1, <1>5, <2>1, StoredKept, SoundNext
<1>9. NothingPending'
  <2>1. Fresh' <=> Fresh
    BY <1>1 DEF Fresh
  <2> QED
    BY <1>1, <2>1 DEF Inductive, NothingPending
<1> QED
  BY <1>2, <1>3, <1>4, <1>6, <1>7, <1>8, <1>9 DEF Inductive

LEMMA IndexedStep ==
    ASSUME CrashIn = {}
    PROVE  Inductive /\ [Next]_vars => Inductive' \/ IndexFails
<1> SUFFICES ASSUME Inductive, [Next]_vars, ~IndexFails PROVE Inductive'
  OBVIOUS
<1>1. CASE TreeStep
  BY <1>1, TreeStepKeeps
<1>2. CASE Evict \/ FlushPage
  BY <1>2, EvictKeeps
<1>3. CASE Open
  BY <1>3, OpenKeeps
<1>4. CASE Replay
  BY <1>4, ReplayKeeps, ReplayEnds
<1>5. CASE Apply
  BY <1>5, ApplyKeeps
<1>6. CASE ApplyFails
  BY <1>6, ApplyFailsKeeps
<1>7. CASE Advance \/ CallCheckpoint
  BY <1>7, AdvanceKeeps
<1>8. CASE Checkpoint
  BY <1>8, CheckpointKeeps
<1>9. CASE FlushDone
  BY <1>9, FlushDoneKeeps
<1>10. CASE Crash
  BY <1>10, CrashKeeps
<1>11. CASE \E k \in Key, v \in Val \cup {Tombstone} : AppendRecord(k, v)
  <2>1. PICK k \in Key, v \in Val \cup {Tombstone} : AppendRecord(k, v)
    BY <1>11
  <2> QED
    BY <2>1, AppendKeeps
<1>12. CASE CheckpointFails \/ FlushFails
  BY <1>12, CheckpointFailsKeeps
<1>13. CASE UNCHANGED vars
  BY <1>13, IndexedStutter
<1> QED
  BY <1>1, <1>2, <1>3, <1>4, <1>5, <1>6, <1>7, <1>8, <1>9, <1>10, <1>11, <1>12, <1>13, Zenon DEF Next

\* Calls that failed in the middle of a split are counted.
LEMMA HalfDoneGrows ==
    /\ IndexFails => half_done' = half_done + 1
    /\ [Next]_vars => half_done' = half_done \/ half_done' = half_done + 1
<1>1. IndexFails => half_done' = half_done + 1
  BY DEF IndexFails, SplitFails, AscentFails, F!SplitFails, F!FetchFails, F!AscendFails,
         F!GrowRootFails, F!IoError, F!Error
<1>2. \A k, v : Insert(k, v) => half_done' = half_done
  BY DEF Insert
<1>3. \A k, v : AppendRecord(k, v) => half_done' = half_done
  BY DEF AppendRecord, tree
<1>4. Replay \/ Apply \/ Checkpoint => half_done' = half_done
  BY <1>2 DEF Replay, Apply, Checkpoint, tree
<1>5. \/ TreeStep \/ Evict \/ Open \/ ApplyFails \/ Advance \/ CallCheckpoint \/ CheckpointFails
      \/ FlushPage \/ FlushFails \/ FlushDone \/ Crash \/ UNCHANGED vars
      => half_done' = half_done
  BY DEF TreeStep, Evict, Open, ApplyFails, Advance, CallCheckpoint, CheckpointFails, FlushPage,
         FlushFails, FlushDone, Crash, vars, tree
<1> QED
  BY <1>1, <1>3, <1>4, <1>5, Zenon DEF Next

\* The invariant, until a call fails in the middle of a split.
Guarded == half_done \in Nat /\ (Intact => Inductive)

LEMMA GuardedStep ==
    ASSUME CrashIn = {}
    PROVE  Guarded /\ [Next]_vars => Guarded'
<1> SUFFICES ASSUME half_done \in Nat, Intact => Inductive, [Next]_vars PROVE Guarded'
  BY DEF Guarded
<1>1. half_done' \in Nat
  BY HalfDoneGrows
<1>2. ASSUME Intact' PROVE Inductive'
  <2>1. half_done' = 0
    BY <1>2 DEF Intact
  <2>2. Intact /\ ~IndexFails
    BY <2>1, HalfDoneGrows DEF Intact
  <2> QED
    BY <2>2, IndexedStep
<1> QED
  BY <1>1, <1>2 DEF Guarded

\* As long as crashes find the disk whole and no call fails in the middle of a
\* split, pool, disk and log stay in step, whichever other calls fail:
\* the pool has each key as the log leaves it, a whole disk is a tree with no
\* key older than its sentinel says, and the tree answers for every key, in the
\* middle of an open, a put, a checkpoint or a split too (indexed_store.rs
\* open_with_options, apply_and_advance, checkpoint).
THEOREM IndexedInductive ==
    ASSUME CrashIn = {}
    PROVE  Spec => [](Intact => Inductive)
<1>1. Init => Guarded
  BY IndexedInit DEF Guarded, Init
<1>2. Guarded => (Intact => Inductive)
  BY DEF Guarded
<1> QED
  BY <1>1, <1>2, GuardedStep, PTL DEF Spec

\* The part of it that TLC checks.
THEOREM IndexInvariance ==
    ASSUME CrashIn = {}
    PROVE  Spec => []IndexInv
<1>1. (Intact => Inductive) => IndexInv
  BY DEF Inductive, IndexInv, DiskOK
<1> QED
  BY <1>1, IndexedInductive, PTL

-----------------------------------------------------------------------------
(* What get returns and what the disk has.                                 *)

LEMMA FollowsLog == (Intact => Inductive) => IndexReflectsLog
<1> SUFFICES ASSUME Inductive, pc = "idle", NEW k \in Key
             PROVE  Get(pages, k) = ValueAfter(k, Len(log))
  BY DEF IndexReflectsLog
<1>1. call = M!Idle
  BY SameIds DEF Inductive, CallsInStep
<1>2. T!Get(pages, k) = dict[k]
  BY <1>1, SameGet, PoolGets DEF Inductive, IndexKey
<1>3. dict[k] = IndexedAfter(k, Len(log))
  BY DEF Inductive, PoolFollowsLog, Seen
<1> QED
  BY <1>2, <1>3 DEF Get, ValueAfter

\* The log is the source of truth: get returns each key's last logged value,
\* for any number of records, pages and crashes (indexed_store.rs get).
THEOREM IndexFollowsLog ==
    ASSUME CrashIn = {}
    PROVE  Spec => []IndexReflectsLog
BY FollowsLog, IndexedInductive, PTL

LEMMA StoredSound ==
    ASSUME Inductive, torn = "no"
    PROVE  \A k \in Key : \E n \in LastIndexedSeq..Len(log) : Stored(k) = IndexedAfter(k, n)
<1>1. PICK b, s \in Nat : b = Len(log) /\ s = Seen /\ s <= b
  BY LogTyped, SeenIs DEF Inductive
<1>2. PICK d, r : /\ d = StoredMap /\ r = ReplayFrom(d[Sentinel]) /\ r \in 0..s
                  /\ \A k \in Key : \E n \in r..s : d[k] = After(log, missed, k, n)
  BY <1>1, SoundIs DEF Inductive
<1>3. \A k \in IndexKey : d[k] = Stored(k)
  BY <1>2 DEF StoredMap
<1>4. Sentinel \in IndexKey /\ Key \subseteq IndexKey
  BY DEF IndexKey
<1>5. LastIndexedSeq = r
  BY <1>2, <1>3, <1>4 DEF LastIndexedSeq
<1>6. r..s \subseteq r..b
  BY <1>1, <1>2
<1> QED
  BY <1>1, <1>2, <1>3, <1>4, <1>5, <1>6, AfterIs

\* A whole disk holds each key at least as new as its sentinel promises, so
\* that replaying from there misses nothing (indexed_store.rs checkpoint).
THEOREM SentinelSound ==
    ASSUME CrashIn = {}
    PROVE  Spec => []SentinelIsSound
<1>1. (Intact => Inductive) => SentinelIsSound
  BY StoredSound DEF SentinelIsSound, Persisted, ValueAfter
<1> QED
  BY <1>1, IndexedInductive, PTL

\* The disk of a store that nothing was written to yet.
LEMMA FreshGets ==
    ASSUME Inductive, Fresh, NEW k
    PROVE  Stored(k) = None
<1>1. PICK p : p = disk
  OBVIOUS
<1>2. M!PageId = 0..MaxPage /\ MaxPage \in Nat /\ 0 \in M!PageId
  BY TreeAssumptions, M!IdFacts
<1>3. /\ next_id = 2 /\ pages[0] = M!Meta(1) /\ pages[1] = M!Leaf(<<>>, M!NO_SIBLING)
      /\ \A x \in M!PageId : p[x] = M!Blank \/ p[x] = pages[x]
  BY <1>1, SameIds, SamePages DEF Fresh
<1>4. \A x \in M!PageId : x >= 2 => p[x] = M!Blank
  <2>1. \A x \in M!PageId : x # 0 => (pages[x] = M!Blank <=> x >= 2)
    BY <1>3 DEF Inductive, TreeOK, M!Filled
  <2>2. \A x \in M!PageId : x >= 2 => x # 0
    BY <1>2
  <2> QED
    BY <1>3, <2>1, <2>2
<1>5. /\ \A e, n : M!Leaf(e, n).entries = e /\ ~M!IsInternal(M!Leaf(e, n))
      /\ \A n : ~M!IsInternal(M!Meta(n)) /\ M!Meta(n).entries[1].child = n
      /\ M!Blank.entries = <<>> /\ ~M!IsInternal(M!Blank)
  BY DEF M!Leaf, M!Meta, M!Blank, M!IsInternal, M!Leftmost, M!InternalEntry
<1>6. 1 \in M!PageId
  <2>1. next_id \in 1..MaxPage + 1
    BY SettledTyped DEF Inductive
  <2> QED
    BY <1>2, <1>3, <2>1
<1>7. p[1].entries = <<>> /\ \A x \in M!PageId : ~M!IsInternal(p[x])
  <2>1. \A x \in M!PageId : x = 0 \/ x = 1 \/ x >= 2
    BY <1>2
  <2> QED
    BY <1>2, <1>3, <1>4, <1>5, <1>6, <2>1
<1>8. CASE disk[0] = M!Blank
  BY <1>8, SamePages DEF Stored, Written, T!META_PAGE_ID
<1>9. CASE disk[0] # M!Blank
  <2>1. M!Root(p) = 1
    BY <1>1, <1>2, <1>3, <1>5, <1>9 DEF M!Root, M!META_PAGE_ID
  <2>2. PICK level : level = [id \in M!PageId |-> 0]
    OBVIOUS
  <2>3. level \in [M!PageId -> Nat] /\ M!RoutesDown(p, k, level)
    BY <1>7, <2>2 DEF M!RoutesDown
  <2>4. PICK path, root : path = M!PathTo(p, k) /\ root = M!Root(p) /\ root = 1
    BY <2>1
  <2>5. M!Follows(path, root, p, k)
    <3>1. M!Root(p) \in M!PageId
      BY <1>6, <2>1
    <3>2. M!Follows(M!PathTo(p, k), M!Root(p), p, k)
      BY ONLY <2>3, <3>1, TreeAssumptions, M!PathToFollows
    <3> QED
      BY <2>4, <3>2
  <2>6. PICK n \in Nat : n = Len(path) /\ n >= 1 /\ path \in Seq(M!PageId)
    BY <2>5, LenProperties DEF M!Follows
  <2>7. n = 1
    <3>1. SUFFICES ASSUME n # 1 PROVE FALSE
      OBVIOUS
    <3>2. 1 \in 1..(n - 1) /\ 1 \in 1..n
      BY <2>6, <3>1
    <3>3. path[1] \in M!PageId /\ M!IsInternal(p[path[1]])
      BY <2>5, <2>6, <3>2, ElementOfSeq DEF M!Follows
    <3> QED
      BY <1>7, <3>3
  <2>8. M!Last(path) = 1
    BY <2>4, <2>5, <2>6, <2>7 DEF M!Last, M!Follows
  <2>9. M!Get(p, k) = None
    <3>1. DOMAIN p[1].entries = {}
      BY <1>7
    <3> QED
      BY <2>4, <2>8, <3>1 DEF M!Get
  <2> QED
    BY <1>1, <1>9, <2>9, SameGet, SamePages DEF Stored, Written, T!META_PAGE_ID
<1> QED
  BY <1>8, <1>9

LEMMA NothingToReconcile == (Intact => Inductive) => CheckpointLeavesNothing
<1> SUFFICES ASSUME Inductive, pc = "idle", phase = "run", pending_since_checkpoint = 0, missed = {}
             PROVE  /\ LastIndexedSeq = Len(log)
                    /\ \A k \in Key : Persisted(k) = ValueAfter(k, Len(log))
  BY DEF CheckpointLeavesNothing
<1>1. PICK b \in Nat : b = Len(log)
  BY LogTyped DEF Inductive
<1>2. /\ ReplayFrom(dict[Sentinel]) = b
      /\ Fresh \/ (torn = "no" /\ settled = next_id)
  BY <1>1 DEF Inductive, NothingPending
<1>3. CASE Fresh
  <2>1. ReplayFrom(None) = 0
    BY DEF ReplayFrom
  <2>2. b = 0
    BY <1>2, <1>3, <2>1 DEF Fresh
  <2>3. \A k : IndexedAfter(k, 0) = None
    BY DEF IndexedAfter, Applied
  <2>4. \A k : Stored(k) = None
    BY <1>3, FreshGets
  <2> QED
    BY <1>1, <2>1, <2>2, <2>3, <2>4 DEF LastIndexedSeq, Persisted, ValueAfter
<1>4. CASE torn = "no"
  <2>1. Stored(Sentinel) = dict[Sentinel]
    <3>1. StoredMap[Sentinel] = dict[Sentinel]
      BY <1>4, SoundIs DEF Inductive
    <3> QED
      BY <3>1 DEF StoredMap, IndexKey
  <2>2. LastIndexedSeq = b
    BY <1>2, <2>1 DEF LastIndexedSeq
  <2>3. \A k \in Key : \E n \in b..b : Stored(k) = IndexedAfter(k, n)
    BY <1>1, <1>4, <2>2, StoredSound
  <2>4. \A n \in b..b : n = b
    BY <1>1
  <2> QED
    BY <1>1, <2>2, <2>3, <2>4 DEF Persisted, ValueAfter
<1> QED
  BY <1>2, <1>3, <1>4

\* With nothing pending since a checkpoint the pages on disk reflect the log,
\* and a reopen has nothing to reconcile (indexed_store.rs checkpoint, flush).
THEOREM CheckpointComplete ==
    ASSUME CrashIn = {}
    PROVE  Spec => []CheckpointLeavesNothing
BY NothingToReconcile, IndexedInductive, PTL
=============================================================================
