-------------------------------- MODULE BTree --------------------------------
(***************************************************************************)
(* The B+Tree (crates/storage/src/btree.rs) over the pages of a buffer     *)
(* pool.  A page holds the decoded entries of its slots, and is full by    *)
(* Page::insert's count of bytes (crates/storage/src/page.rs).             *)
(*                                                                         *)
(* A call is one step per page it rewrites: the descent and the leaf, then *)
(* the parents one by one.  Between two steps no page is pinned, so the    *)
(* pool may write any page and the process may stop there; module Indexed  *)
(* adds both.  A page a call writes and leaves is written once per call,   *)
(* so a write of it within a step is one before or after the step.         *)
(*                                                                         *)
(* A page that is not the node a call expects makes the process panic: the *)
(* call has no further step.                                               *)
(***************************************************************************)
EXTENDS Integers, SequencesExt, FiniteSetsExt

CONSTANTS
    Key,        \* integers, compared as the code compares bytes
    Val,
    None,       \* no value
    Size,       \* the bytes of a value's leaf entry, its slot included
    LeafSpace,  \* the bytes of a leaf, less header and sibling slot
    MaxEntries, \* entries that fit an internal page: keys have one length
    MaxPage,    \* bound: page ids
    MaxErrors,  \* bound: calls that return an error after reaching a leaf
    IoMayFail   \* whether the pool's fetch and new_page may fail

ASSUME KeyAssumption == Key \subseteq Int /\ None \notin Val
ASSUME SpaceAssumption ==
    Size \in [Val -> Nat] /\ LeafSpace \in Nat /\ MaxEntries \in Nat /\ MaxEntries >= 2
ASSUME BoundsAssumption == MaxPage \in Nat /\ MaxErrors \in Nat /\ IoMayFail \in BOOLEAN

VARIABLES
    pages,      \* page id to page, as the pool shows it
    dirty,      \* ids of the pages the pool has still to write
    next_id,    \* the store's allocate_page_id
    call,       \* where an insert or a delete stands
    errors,     \* calls that returned an error
    dict        \* history: what each key was last set to

vars == <<pages, dirty, next_id, call, errors, dict>>

-----------------------------------------------------------------------------
(* Pages.                                                                  *)

META_PAGE_ID == 0
NO_SIBLING == 0
NoSlot == -1    \* a leaf without the sibling pointer in slot 0

PageId == 0..MaxPage

Entry(k, v) == [key |-> k, value |-> v]
InternalEntry(k, child) == [key |-> k, child |-> child]
Leftmost(child) == InternalEntry(None, child)

Leaf(entries, next) == [type |-> "leaf", entries |-> entries, next |-> next]
Internal(entries) == [type |-> "internal", entries |-> entries, next |-> NoSlot]
Meta(root) == [type |-> "meta", entries |-> <<Leftmost(root)>>, next |-> NoSlot]

\* fetch of an id that was never written, and new_page before it is built.
Blank == [type |-> "data", entries |-> <<>>, next |-> NoSlot]
BareLeaf == Leaf(<<>>, NoSlot)

IsLeaf(page) == page.type = "leaf"
IsInternal(page) == page.type = "internal"

\* build_leaf: each Page::insert takes a slot and the record's bytes.
Fits(entries) == FoldLeft(LAMBDA n, e : n + Size[e.value], 0, entries) <= LeafSpace

-----------------------------------------------------------------------------
(* Reads.  They take the pages as an argument: the pool's, or the disk's.  *)

Root(store) == store[META_PAGE_ID].entries[1].child

\* Mutant: a key equal to a separator goes left of it.
RouteBefore(entries, k) ==
    Max({1} \cup {i \in 2..Len(entries) : \A j \in 2..i : entries[j].key < k})

\* route_index: the last entry whose key is at most k, the leftmost if none.
RouteIndex(entries, k) ==
    Max({1} \cup {i \in 2..Len(entries) : \A j \in 2..i : entries[j].key <= k})

Route(entries, k) == entries[RouteIndex(entries, k)].child

\* The pages from the root to the leaf that k routes to.
PathTo(store, k) ==
    LET down[id \in PageId] ==
            IF IsInternal(store[id]) THEN <<id>> \o down[Route(store[id].entries, k)]
            ELSE <<id>>
    IN  down[Root(store)]

\* get_recursive.
Get(store, k) ==
    LET entries == store[Last(PathTo(store, k))].entries
        found == {i \in DOMAIN entries : entries[i].key = k}
    IN  IF found = {} THEN None ELSE entries[Min(found)].value

Children(page) == [i \in DOMAIN page.entries |-> page.entries[i].child]

\* scan_recursive: the entries of the leaves in the order of the traversal.
ScanAll(store) ==
    LET scan[id \in PageId] ==
            IF IsInternal(store[id])
            THEN LET below == Children(store[id])
                 IN  FlattenSeq([i \in DOMAIN below |-> scan[below[i]]])
            ELSE store[id].entries
    IN  scan[Root(store)]

\* scan_range: from find_leaf_for_key(start) along the sibling pointers.
ScanRange(store, start, end) ==
    LET walk[id \in PageId] ==
            LET page == store[id]
                hits == SelectSeq(page.entries, LAMBDA e : start <= e.key /\ e.key < end)
            IN  IF \/ \E i \in DOMAIN page.entries : page.entries[i].key >= end
                   \/ page.next \in {NO_SIBLING, NoSlot}
                THEN hits ELSE hits \o walk[page.next]
    IN  walk[Last(PathTo(store, start))]

\* The number of levels on the leftmost path.
Depth(store) ==
    LET levels[id \in PageId] ==
            IF IsInternal(store[id]) THEN 1 + levels[Children(store[id])[1]] ELSE 1
    IN  levels[Root(store)]

-----------------------------------------------------------------------------
(* State.                                                                  *)

Idle == [op |-> "idle"]

\* A call that has rewritten what is below path, the nodes above it: an
\* insert with the separator and the new child of a split, a delete with the
\* key whose node became empty.
Ascending(path, sep, child) == [op |-> "insert", path |-> path, sep |-> sep, child |-> child]
Unlinking(path, k) == [op |-> "delete", path |-> path, key |-> k]

LeafEntry == [key : Key, value : Val]
ChildEntry == [key : Key \cup {None}, child : PageId]

Page ==
    {Blank} \cup [type : {"leaf"}, entries : Seq(LeafEntry), next : PageId \cup {NoSlot}]
    \cup [type : {"internal", "meta"}, entries : Seq(ChildEntry), next : {NoSlot}]

TypeOK ==
    /\ pages \in [PageId -> Page]
    /\ dirty \subseteq PageId
    /\ next_id \in 1..MaxPage + 1
    /\ \/ call \in {Idle, [op |-> "closed"]}
       \/ /\ call.op = "insert" /\ call.path \in Seq(PageId)
          /\ call.sep \in Key /\ call.child \in PageId
       \/ call.op = "delete" /\ call.path \in Seq(PageId) /\ call.key \in Key
    /\ errors \in 0..MaxErrors
    /\ dict \in [Key -> Val \cup {None}]

Init ==
    /\ pages = [id \in PageId |-> Blank] /\ dirty = {} /\ next_id = 1
    /\ call = [op |-> "closed"] /\ errors = 0
    /\ dict = [k \in Key |-> None]

\* new_page: ids are handed out in order, and used up when the call fails.
Allocate == next_id <= MaxPage /\ next_id' = next_id + 1

\* page_mut, and unpin with the dirty bit.
Rewrite(id, page) ==
    /\ pages' = [pages EXCEPT ![id] = page]
    /\ dirty' = dirty \cup {id}

RewriteBoth(id, page, id2, page2) ==
    /\ pages' = [pages EXCEPT ![id] = page, ![id2] = page2]
    /\ dirty' = dirty \cup {id, id2}

-----------------------------------------------------------------------------
(* BTree::open.                                                            *)

\* A store without a root gets an empty leaf; the meta page is dirtied anyway.
Open ==
    /\ call.op = "closed"
    /\ IF pages[META_PAGE_ID].entries = <<>>
       THEN /\ Allocate
            /\ RewriteBoth(next_id, Leaf(<<>>, NO_SIBLING), META_PAGE_ID, Meta(next_id))
       ELSE Rewrite(META_PAGE_ID, pages[META_PAGE_ID]) /\ UNCHANGED next_id
    /\ call' = Idle
    /\ UNCHANGED errors

-----------------------------------------------------------------------------
(* BTree::insert.                                                          *)

\* The way insert and delete take, to a leaf that somebody built.
Descent(k) ==
    {path \in {PathTo(pages, k)} : LET leaf == pages[Last(path)]
                                   IN  IsLeaf(leaf) /\ leaf.next # NoSlot}

\* binary_search_by: where k is in a leaf, or would be.
Position(entries, k) == 1 + Max({0} \cup {i \in DOMAIN entries : entries[i].key < k})
Found(entries, k) ==
    LET i == Position(entries, k) IN i \in DOMAIN entries /\ entries[i].key = k

\* The entries of a leaf with k set to v.
Upsert(entries, k, v) ==
    IF Found(entries, k) THEN [entries EXCEPT ![Position(entries, k)] = Entry(k, v)]
    ELSE InsertAt(entries, Position(entries, k), Entry(k, v))

\* The entry fits in its leaf.
InsertInLeaf(k, v) ==
    /\ call = Idle
    /\ \E path \in Descent(k) :
        LET id == Last(path)
            entries == Upsert(pages[id].entries, k, v)
        IN  /\ Fits(entries)
            /\ Rewrite(id, Leaf(entries, pages[id].next))
            /\ UNCHANGED <<next_id, call, errors>>

\* split_at_midpoint, by the number of entries and not by their bytes.
Halves(entries) ==
    LET mid == Len(entries) \div 2
    IN  [left |-> SubSeq(entries, 1, mid), right |-> SubSeq(entries, mid + 1, Len(entries))]

\* Mutant: the left half keeps its old sibling.
LinkedPast(id, right_id, halves) ==
    RewriteBoth(id, Leaf(halves.left, pages[id].next), right_id, Leaf(halves.right, pages[id].next))

\* The two leaves of a split, threaded into the chain of siblings.
Linked(id, right_id, halves) ==
    RewriteBoth(id, Leaf(halves.left, right_id), right_id, Leaf(halves.right, pages[id].next))

\* It does not: a new leaf takes the right half, and the parent is told.
SplitLeaf(k, v) ==
    /\ call = Idle
    /\ \E path \in Descent(k) :
        LET id == Last(path)
            entries == Upsert(pages[id].entries, k, v)
            halves == Halves(entries)
        IN  /\ ~Fits(entries) /\ Fits(halves.left) /\ Fits(halves.right)
            /\ Allocate
            /\ Linked(id, next_id, halves)
            /\ call' = Ascending(Front(path), halves.right[1].key, next_id)
            /\ UNCHANGED errors

\* The entries of a parent with the new child behind its separator.
WithChild(entries, sep, child) ==
    LET above == {i \in 2..Len(entries) : entries[i].key > sep}
        insert_at == IF above = {} THEN Len(entries) + 1 ELSE Min(above)
    IN  InsertAt(entries, insert_at, InternalEntry(sep, child))

\* Mutant: the key before the middle goes up, which may be the leftmost.
SplitBefore(entries) ==
    LET mid == Max({Len(entries) \div 2, 1})
    IN  [left     |-> SubSeq(entries, 1, mid - 1),
         promoted |-> entries[mid].key,
         right    |-> <<Leftmost(entries[mid].child)>>
                      \o SubSeq(entries, mid + 1, Len(entries))]

\* Mutant: the promoted entry stays in the left half too.
SplitAfter(entries) ==
    LET mid == Max({Len(entries) \div 2, 1})
    IN  [left     |-> SubSeq(entries, 1, mid + 1),
         promoted |-> entries[mid + 1].key,
         right    |-> SubSeq(entries, mid + 2, Len(entries))]

\* The middle key goes up; its child is the leftmost of the right half.
SplitAround(entries) ==
    LET mid == Max({Len(entries) \div 2, 1})
    IN  [left     |-> SubSeq(entries, 1, mid),
         promoted |-> entries[mid + 1].key,
         right    |-> <<Leftmost(entries[mid + 1].child)>>
                      \o SubSeq(entries, mid + 2, Len(entries))]

\* Mutant: the parent passes on its child's split instead of its own.
ToldOfChild(halves) == Ascending(Front(call.path), call.sep, call.child)

\* What a split parent tells the node above it.
Told(halves) == Ascending(Front(call.path), halves.promoted, next_id)

\* insert_recursive, back in a parent: it takes the child in, or splits.
Ascend ==
    /\ call.op = "insert" /\ call.path # <<>>
    /\ LET id == Last(call.path)
           entries == WithChild(pages[id].entries, call.sep, call.child)
           halves == SplitAround(entries)
       IN  IF Len(entries) <= MaxEntries
           THEN /\ Rewrite(id, Internal(entries))
                /\ call' = Idle /\ UNCHANGED next_id
           ELSE /\ Allocate
                /\ RewriteBoth(id, Internal(halves.left), next_id, Internal(halves.right))
                /\ call' = Told(halves)
    /\ UNCHANGED errors

\* The page a split root gets above it.
NewRootPage == Internal(<<Leftmost(Root(pages)), InternalEntry(call.sep, call.child)>>)

\* The root split: a new root, and set_root_id.
GrowRoot ==
    /\ call.op = "insert" /\ call.path = <<>>
    /\ Allocate
    /\ RewriteBoth(next_id, NewRootPage, META_PAGE_ID, Meta(next_id))
    /\ call' = Idle
    /\ UNCHANGED errors

-----------------------------------------------------------------------------
(* BTree::delete.  A key that is not there changes nothing.                *)

\* Mutant: the parent is not told of an empty leaf.
AfterDeleteForgotten(up, entries, k) == Idle

\* A leaf that became empty is taken out of its parent; the root leaf stays.
AfterDelete(up, entries, k) ==
    IF entries = <<>> /\ up # <<>> THEN Unlinking(up, k) ELSE Idle

DeleteFromLeaf(k) ==
    /\ call = Idle
    /\ \E path \in Descent(k) :
        LET id == Last(path)
            entries == RemoveAt(pages[id].entries, Position(pages[id].entries, k))
        IN  /\ Found(pages[id].entries, k)
            /\ Rewrite(id, Leaf(entries, pages[id].next))
            /\ call' = AfterDelete(Front(path), entries, k)
            /\ UNCHANGED <<next_id, errors>>

\* The entries of a parent without its i-th child.
WithoutChild(entries, i) ==
    IF i = 1 THEN <<Leftmost(entries[2].child)>> \o SubSeq(entries, 3, Len(entries))
    ELSE RemoveAt(entries, i)

\* delete_recursive, back in a parent whose child became empty: the only
\* child makes the parent empty too, left as it is.
Unlink ==
    /\ call.op = "delete" /\ call.path # <<>>
    /\ LET id == Last(call.path)
           entries == pages[id].entries
       IN  IF Len(entries) = 1
           THEN /\ call' = Unlinking(Front(call.path), call.key)
                /\ UNCHANGED <<pages, dirty>>
           ELSE /\ Rewrite(id, Internal(WithoutChild(entries, RouteIndex(entries, call.key))))
                /\ call' = Idle
    /\ UNCHANGED <<next_id, errors>>

\* The root is down to one child and that is empty: the child is the root.
ShrinkRoot ==
    /\ call.op = "delete" /\ call.path = <<>>
    /\ Rewrite(META_PAGE_ID, Meta(pages[Root(pages)].entries[1].child))
    /\ call' = Idle
    /\ UNCHANGED <<next_id, errors>>

-----------------------------------------------------------------------------
(* Errors.  A call returns at the `?`: what it has rewritten stays, and a  *)
(* page it rewrote but did not unpin is not marked dirty.                  *)

Error == errors < MaxErrors /\ errors' = errors + 1 /\ call' = Idle

IoError == IoMayFail /\ Error

\* The left half of a split does not fit: the new page is left bare.
LeftRefused(k, v) ==
    /\ call = Idle
    /\ \E path \in Descent(k) :
        LET id == Last(path)
            entries == Upsert(pages[id].entries, k, v)
        IN  /\ ~Fits(entries) /\ ~Fits(Halves(entries).left)
            /\ Allocate
            /\ Rewrite(next_id, BareLeaf)
            /\ Error

\* The right half does not: the left one has been rewritten already.
RightRefused(k, v) ==
    /\ call = Idle
    /\ \E path \in Descent(k) :
        LET id == Last(path)
            entries == Upsert(pages[id].entries, k, v)
            halves == Halves(entries)
        IN  /\ ~Fits(entries) /\ Fits(halves.left) /\ ~Fits(halves.right)
            /\ Allocate
            /\ pages' = [pages EXCEPT ![next_id] = BareLeaf, ![id] = Leaf(halves.left, next_id)]
            /\ dirty' = dirty \cup {next_id}
            /\ Error

\* new_page fails when a leaf has to split.
SplitFails(k, v) ==
    /\ call = Idle
    /\ \E path \in Descent(k) :
        LET id == Last(path)
        IN  /\ ~Fits(Upsert(pages[id].entries, k, v))
            /\ Allocate
            /\ IoError
            /\ UNCHANGED <<pages, dirty>>

\* fetch of a parent, or of the root to be shrunk, fails.
FetchFails ==
    /\ call.op = "delete" \/ (call.op = "insert" /\ call.path # <<>>)
    /\ IoError
    /\ UNCHANGED <<pages, dirty, next_id>>

\* new_page fails after a parent was cut to its left half.
AscendFails ==
    /\ call.op = "insert" /\ call.path # <<>>
    /\ LET id == Last(call.path)
           entries == WithChild(pages[id].entries, call.sep, call.child)
       IN  /\ Len(entries) > MaxEntries
           /\ pages' = [pages EXCEPT ![id] = Internal(SplitAround(entries).left)]
    /\ Allocate
    /\ IoError
    /\ UNCHANGED dirty

\* new_page fails, or set_root_id's fetch with the new root built.
GrowRootFails ==
    /\ call.op = "insert" /\ call.path = <<>>
    /\ Allocate
    /\ \/ UNCHANGED <<pages, dirty>>
       \/ Rewrite(next_id, NewRootPage)
    /\ IoError

-----------------------------------------------------------------------------
(* Specification.  An insert whose right half was refused may have stored  *)
(* its value, in the left half.                                            *)

Set(k, v) == dict' = [dict EXCEPT ![k] = v]

Next ==
    \/ /\ Open \/ Ascend \/ GrowRoot \/ Unlink \/ ShrinkRoot
          \/ FetchFails \/ AscendFails \/ GrowRootFails
       /\ UNCHANGED dict
    \/ \E k \in Key : DeleteFromLeaf(k) /\ Set(k, None)
    \/ \E k \in Key, v \in Val :
          \/ (InsertInLeaf(k, v) \/ SplitLeaf(k, v) \/ RightRefused(k, v)) /\ Set(k, v)
          \/ (LeftRefused(k, v) \/ SplitFails(k, v)) /\ UNCHANGED dict

Spec == Init /\ [][Next]_vars

-----------------------------------------------------------------------------
(* Properties.                                                             *)

\* get returns what a key was last set to, through every split, unlinking and
\* change of root; after a call that returned an error a key may be missing,
\* and never has an older value (get_recursive, insert_recursive).
GetIsLatest ==
    call = Idle => \A k \in Key :
        Get(pages, k) = dict[k] \/ (errors > 0 /\ Get(pages, k) = None)

\* scan_all sees exactly what get sees, in key order, errors or not: no leaf
\* is reached twice and no separator is out of place (scan_recursive, route).
ScanAllAgrees ==
    call = Idle =>
        LET keys == SetToSortSeq({k \in Key : Get(pages, k) # None}, <)
        IN  ScanAll(pages) = [i \in DOMAIN keys |-> Entry(keys[i], Get(pages, keys[i]))]

\* Walking the siblings finds what the traversal finds, for every range, though
\* leaves that were emptied and unlinked stay in the chain (scan_range).
ScanRangeAgrees ==
    call = Idle /\ errors = 0 =>
        LET all == ScanAll(pages)
        IN  \A start, end \in Key \cup {Max(Key) + 1} :
                ScanRange(pages, start, end) =
                    SelectSeq(all, LAMBDA e : start <= e.key /\ e.key < end)

\* "Every root-to-leaf path in a B+Tree has equal length" (depth).
EqualDepth ==
    LET depths[id \in PageId] ==
            IF IsInternal(pages[id])
            THEN {1 + d : d \in UNION {depths[c] : c \in ToSet(Children(pages[id]))}}
            ELSE {1}
    IN  call = Idle => depths[Root(pages)] = {Depth(pages)}

\* "A node is never left completely empty" (delete), but in an empty tree.
NoEmptyLeaf ==
    LET full[id \in PageId] ==
            IF IsInternal(pages[id]) THEN \A c \in ToSet(Children(pages[id])) : full[c]
            ELSE pages[id].entries # <<>>
    IN  call = Idle /\ errors = 0 => full[Root(pages)] \/ \A k \in Key : dict[k] = None

\* Of the values that are there, a call that does not set a key changes none:
\* a page that is full is divided into "two fresh pages [...] from the two
\* halves" (ADR-003).
OtherKeysStay ==
    [][call = Idle /\ call' = Idle =>
          \A k \in Key : dict'[k] = dict[k] => Get(pages', k) = Get(pages, k)]_vars

-----------------------------------------------------------------------------
(* The inductive invariant behind TypeOK and EqualDepth.                   *)

\* The pages that a parent may name.
Nodes == {id \in 1..next_id - 1 : IsLeaf(pages[id]) \/ IsInternal(pages[id])}

\* Ids that were not handed out are blank, and the meta page names the root,
\* once the tree has been opened.
RootIsNode ==
    /\ \A id \in next_id..MaxPage : pages[id] = Blank
    /\ \/ pages[META_PAGE_ID] = Blank /\ call.op = "closed"
       \/ pages[META_PAGE_ID] = Meta(Root(pages)) /\ Root(pages) \in Nodes

\* Entries of an internal page that is one level above its children.  Only
\* the first may do without a key.
OneAbove(entries, height, level, nodes) ==
    /\ entries # <<>>
    /\ \A i \in DOMAIN entries :
          /\ entries[i].child \in nodes
          /\ height = level[entries[i].child] + 1
          /\ i > 1 => entries[i].key \in Key

\* Leaves are on level 0.
InPlace(page, id, level, nodes) ==
    /\ IsLeaf(page) => level[id] = 0
    /\ IsInternal(page) => OneAbove(page.entries, level[id], level, nodes)

\* That goes for pages that no parent names any more, too.
Levelled(level) == \A id \in PageId : InPlace(pages[id], id, level, Nodes)

\* A call in progress is on its way up, one level at a time: the path of an
\* insert leads from the root to the level above the child.
OnItsWayUp(level) ==
    /\ call.op \in {"insert", "delete"} =>
          \A i \in DOMAIN call.path : IsInternal(pages[call.path[i]])
    /\ call.op = "insert" =>
          /\ call.child \in Nodes
          /\ level[Root(pages)] = level[call.child] + Len(call.path)
          /\ \A i \in DOMAIN call.path :
                level[call.path[i]] = level[call.child] + Len(call.path) + 1 - i
    /\ call.op = "delete" => IsInternal(pages[Root(pages)])

\* Together they are preserved by every step (btree.rs).
TreeInv ==
    TypeOK /\ RootIsNode /\ \E level \in [PageId -> Nat] : Levelled(level) /\ OnItsWayUp(level)
=============================================================================
