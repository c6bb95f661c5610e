----------------------------- MODULE BufferPool -----------------------------
(***************************************************************************)
(* BufferPool (crates/storage/src/buffer.rs) over a durable PageStore      *)
(* (page_store.rs): a fixed number of frames, clock eviction, pins and     *)
(* dirty bits.  The pool is single-threaded, so each method is one action. *)
(* A page of the store is written whole or not at all, which is what       *)
(* LogPageStore takes from Store (module KV) and what module HeapPages     *)
(* shows of HeapPageStore.  A crash loses every frame.                     *)
(*                                                                         *)
(* Clients follow the contract of the struct's comment: they touch a page  *)
(* only while they have it pinned, and say so when they unpin it.          *)
(***************************************************************************)
EXTENDS Integers, Sequences, FiniteSets

CONSTANTS
    Content,        \* what clients write into a page
    Fresh,          \* Page::new(page_type): what new_page hands out
    Blank,          \* Page::new(PageType::Data): what fetch makes up
    Missing,        \* no such page in the store
    Capacity,       \* number of frames
    MaxId,          \* bound: page ids are 1..MaxId
    MaxPins,        \* bound: pins of one page
    MaxCrashes      \* bound: crashes

ASSUME CapacityAssumption == Capacity \in Nat \ {0}
ASSUME MaxIdAssumption == MaxId \in Nat
ASSUME BoundsAssumption == MaxPins \in Nat \ {0} /\ MaxCrashes \in Nat
ASSUME PageAssumption == Missing \notin Content \cup {Fresh, Blank}

Page == Content \cup {Fresh, Blank}
PageId == 1..MaxId

VARIABLES
    disk,           \* the PageStore's durable pages
    next_id,        \* LogPageStore::next_id, HeapPageStore::next_page_id
    frames,         \* BufferPool::frames
    page_table,     \* BufferPool::page_table: cached page id -> frame
    clock_hand,     \* BufferPool::clock_hand, counted from 1
    result,         \* what the last call returned
    touched,        \* pages changed under a pin that is not yet given back
    mem,            \* observation: what clients last saw or left in a page
    crashes         \* crashes so far

vars == <<disk, next_id, frames, page_table, clock_hand, result, touched,
          mem, crashes>>

Frame == [page_id : PageId, page : Page, pin_count : 0..MaxPins,
          dirty : BOOLEAN, ref_bit : BOOLEAN]

TypeOK ==
    /\ disk \in [PageId -> Page \cup {Missing}]
    /\ next_id \in 1..(MaxId + 1)
    /\ frames \in Seq(Frame) /\ Len(frames) <= Capacity
    /\ DOMAIN page_table \subseteq PageId
    /\ page_table \in [DOMAIN page_table -> DOMAIN frames]
    /\ clock_hand \in 1..Capacity
    /\ result \in {"ok", "exhausted", "not pinned", "store error"}
    /\ touched \subseteq PageId
    /\ mem \in [PageId -> Page \cup {Missing}]
    /\ crashes \in 0..MaxCrashes

\* BufferPool::new over a new store.
Init ==
    /\ disk = [p \in PageId |-> Missing]
    /\ next_id = 1
    /\ frames = <<>> /\ page_table = <<>> /\ clock_hand = 1
    /\ result = "ok" /\ touched = {}
    /\ mem = [p \in PageId |-> Missing]
    /\ crashes = 0

Cached == DOMAIN page_table
FrameOf(p) == frames[page_table[p]]

-----------------------------------------------------------------------------
(* Finding a frame.                                                        *)

\* Mutant: a pinned page may go as long as it is clean.
EvictableIfClean(f) == f.pin_count = 0 \/ ~f.dirty

\* Only a frame nobody has pinned is looked at twice.
Evictable(f) == f.pin_count = 0

\* One look of the eviction loop of BufferPool::find_frame_for, while there is
\* no victim: a pinned frame is passed over, a set reference bit buys a second
\* chance, and the first frame with neither is the victim.
Look(s) ==
    LET f == s.frames[s.hand] IN
    IF s.victim # 0 THEN s
    ELSE [frames |-> IF Evictable(f) THEN [s.frames EXCEPT ![s.hand].ref_bit = FALSE]
                     ELSE s.frames,
          hand   |-> (s.hand % Capacity) + 1,
          victim |-> IF Evictable(f) /\ ~f.ref_bit THEN s.hand ELSE 0]

\* The loop after n looks.
Sweep[n \in 0..(2 * Capacity + 1)] ==
    IF n = 0 THEN [frames |-> frames, hand |-> clock_hand, victim |-> 0]
    ELSE Look(Sweep[n - 1])

\* Mutant: the loop gives up after one round.
ClockOnce == Sweep[Capacity]

\* The loop gives up once it has looked at 2 * capacity + 1 frames.
Clock == Sweep[2 * Capacity + 1]

\* Mutant: a dirty victim is dropped.
NothingWrittenBack(old) == disk

\* The store once a victim has been written, if it is dirty.
WrittenBack(old) == IF old.dirty THEN [disk EXCEPT ![old.page_id] = old.page] ELSE disk

\* Mutant: the victim's entry stays in the page table.
RemappedOnly(p, i, gone) == [q \in Cached \cup {p} |-> IF q = p THEN i ELSE page_table[q]]

\* The page table with p in frame i and without the pages that were there.
Remapped(p, i, gone) ==
    [q \in (Cached \ gone) \cup {p} |-> IF q = p THEN i ELSE page_table[q]]

\* find_frame_for and the caller's use of the frame it returns: new frame f
\* for page p in a frame that was added or freed, or the victim's write
\* failed, or no frame could be freed.
Install(p, f) ==
    \/ /\ Len(frames) < Capacity
       /\ frames' = Append(frames, f)
       /\ page_table' = Remapped(p, Len(frames) + 1, {})
       /\ result' = "ok"
       /\ UNCHANGED <<disk, clock_hand>>
    \/ LET clock == Clock IN
       /\ Len(frames) = Capacity
       /\ clock_hand' = clock.hand
       /\ \/ /\ clock.victim # 0
             /\ LET old == clock.frames[clock.victim] IN
                /\ disk' = WrittenBack(old)
                /\ page_table' = Remapped(p, clock.victim, {old.page_id})
             /\ frames' = [clock.frames EXCEPT ![clock.victim] = f]
             /\ result' = "ok"
          \/ /\ clock.victim # 0 /\ clock.frames[clock.victim].dirty
             /\ frames' = clock.frames
             /\ result' = "store error"
             /\ UNCHANGED <<disk, page_table>>
          \/ /\ clock.victim = 0
             /\ frames' = clock.frames
             /\ result' = "exhausted"
             /\ UNCHANGED <<disk, page_table>>

-----------------------------------------------------------------------------
(* Methods.                                                                *)

\* BufferPool::new_page: an id from PageStore::allocate_page_id, and a dirty
\* frame for it; the id is spent even when no frame is found.
NewPage ==
    /\ next_id <= MaxId
    /\ next_id' = next_id + 1
    /\ Install(next_id, [page_id |-> next_id, page |-> Fresh, pin_count |-> 1,
                         dirty |-> TRUE, ref_bit |-> TRUE])
    /\ mem' = IF result' = "ok" THEN [mem EXCEPT ![next_id] = Fresh] ELSE mem
    /\ UNCHANGED <<touched, crashes>>

\* What a page reads as through PageStore::read_page.
OnDisk(p) == IF disk[p] = Missing THEN Blank ELSE disk[p]

\* BufferPool::fetch of a page that is cached.
FetchHit(p) ==
    /\ p \in Cached /\ FrameOf(p).pin_count < MaxPins
    /\ frames' = [frames EXCEPT ![page_table[p]].pin_count = @ + 1,
                                ![page_table[p]].ref_bit = TRUE]
    /\ result' = "ok"
    /\ UNCHANGED <<disk, next_id, page_table, clock_hand, touched, mem,
                   crashes>>

\* BufferPool::fetch of a page that is not: read first, then find a frame.
\* Clients fetch ids that the open store has handed out or has pages for.
FetchMiss(p) ==
    /\ p < next_id /\ p \notin Cached
    /\ Install(p, [page_id |-> p, page |-> OnDisk(p), pin_count |-> 1,
                   dirty |-> FALSE, ref_bit |-> TRUE])
    /\ mem' = IF result' = "ok" /\ mem[p] = Missing
              THEN [mem EXCEPT ![p] = OnDisk(p)] ELSE mem
    /\ UNCHANGED <<next_id, touched, crashes>>

\* BufferPool::page_mut by a client that has the page pinned.
Mutate(p, c) ==
    /\ p \in Cached /\ FrameOf(p).pin_count > 0
    /\ frames' = [frames EXCEPT ![page_table[p]].page = c]
    /\ touched' = touched \cup {p}
    /\ mem' = [mem EXCEPT ![p] = c]
    /\ UNCHANGED <<disk, next_id, page_table, clock_hand, result, crashes>>

\* Mutant: the pin count is not looked at.
UnpinUnchecked(p, dirtied) ==
    /\ p \in Cached
    /\ dirtied \/ p \notin touched \/ FrameOf(p).pin_count > 1
    /\ frames' = [frames EXCEPT ![page_table[p]].pin_count = @ - 1,
                                ![page_table[p]].dirty = @ \/ dirtied]
    /\ touched' = IF dirtied THEN touched \ {p} ELSE touched
    /\ result' = "ok"
    /\ UNCHANGED <<disk, next_id, page_table, clock_hand, mem, crashes>>

\* BufferPool::unpin; the last client to give a changed page back says so.
Unpin(p, dirtied) ==
    /\ p \in Cached /\ FrameOf(p).pin_count > 0
    /\ dirtied \/ p \notin touched \/ FrameOf(p).pin_count > 1
    /\ frames' = [frames EXCEPT ![page_table[p]].pin_count = @ - 1,
                                ![page_table[p]].dirty = @ \/ dirtied]
    /\ touched' = IF dirtied THEN touched \ {p} ELSE touched
    /\ result' = "ok"
    /\ UNCHANGED <<disk, next_id, page_table, clock_hand, mem, crashes>>

\* BufferPool::unpin of a page that is not cached or not pinned.
UnpinRefused(p) ==
    /\ p \in Cached => FrameOf(p).pin_count = 0
    /\ result' = "not pinned"
    /\ UNCHANGED <<disk, next_id, frames, page_table, clock_hand, touched, mem,
                   crashes>>

\* Mutant: the dirty bit is cleared before the write that may fail.
FlushedEarly(n) == [i \in DOMAIN frames |->
                      IF i <= n + 1 THEN [frames[i] EXCEPT !.dirty = FALSE] ELSE frames[i]]

\* BufferPool::flush of the first n frames, in frame order: the frames, ...
Flushed(n) == [i \in DOMAIN frames |-> IF i <= n THEN [frames[i] EXCEPT !.dirty = FALSE]
                                                ELSE frames[i]]

\* ... and the store.
Written(n) == [p \in PageId |->
                 IF p \in Cached /\ page_table[p] <= n /\ FrameOf(p).dirty
                 THEN FrameOf(p).page ELSE disk[p]]

\* BufferPool::flush of one page: a new version if it is dirty.
Flush(p) ==
    /\ p \in Cached
    /\ \/ /\ disk' = IF FrameOf(p).dirty THEN [disk EXCEPT ![p] = FrameOf(p).page] ELSE disk
          /\ frames' = [frames EXCEPT ![page_table[p]].dirty = FALSE]
          /\ result' = "ok"
       \/ /\ FrameOf(p).dirty
          /\ result' = "store error"
          /\ UNCHANGED <<disk, frames>>
    /\ UNCHANGED <<next_id, page_table, clock_hand, touched, mem, crashes>>

\* BufferPool::flush_all: every frame, or, when a write fails, those before.
FlushAll ==
    /\ \E n \in 0..Len(frames) :
          /\ n < Len(frames) => frames[n + 1].dirty
          /\ disk' = Written(n)
          /\ frames' = Flushed(n)
          /\ result' = IF n = Len(frames) THEN "ok" ELSE "store error"
    /\ UNCHANGED <<next_id, page_table, clock_hand, touched, mem, crashes>>

\* The process dies (in flush_all: after a FlushAll that wrote some frames)
\* and opens the store again, which finds the next id in the pages it has.
Crash ==
    /\ crashes < MaxCrashes
    /\ crashes' = crashes + 1
    /\ next_id' = LET W == {p \in PageId : disk[p] # Missing}
                  IN  IF W = {} THEN 1 ELSE 1 + CHOOSE p \in W : \A q \in W : q <= p
    /\ frames' = <<>> /\ page_table' = <<>> /\ clock_hand' = 1
    /\ result' = "ok" /\ touched' = {}
    /\ mem' = disk
    /\ UNCHANGED disk

Next ==
    \/ NewPage \/ FlushAll \/ Crash
    \/ \E p \in PageId :
          \/ FetchHit(p) \/ FetchMiss(p) \/ UnpinRefused(p) \/ Flush(p)
          \/ \E c \in Content : Mutate(p, c)
          \/ \E dirtied \in BOOLEAN : Unpin(p, dirtied)

Spec == Init /\ [][Next]_vars

-----------------------------------------------------------------------------
(* Properties.                                                             *)

\* Eviction, second chances and failed writes are invisible: a page reads,
\* from its frame or by a fetch, as its clients last left it.
PoolIsTransparent ==
    \A p \in PageId : mem[p] # Missing =>
        mem[p] = IF p \in Cached THEN FrameOf(p).page ELSE OnDisk(p)

\* Once clean, a page is durable: whatever crash comes next, a frame that is
\* neither dirty nor in a client's hands is what the store would return
\* (buffer.rs flush and flush_all).
CleanFramesAreDurable ==
    \A p \in Cached : FrameOf(p).dirty \/ p \in touched \/ FrameOf(p).page = OnDisk(p)

\* Each cached page has one frame and each frame one cached page; the frame
\* handed to a caller by find_frame_for is nobody else's.
TableMatchesFrames ==
    /\ \A i \in DOMAIN frames : frames[i].page_id \in Cached /\ page_table[frames[i].page_id] = i
    /\ \A p \in Cached : FrameOf(p).page_id = p

\* PoolExhausted says "all frames are pinned" and it is so: 2 * capacity + 1
\* looks are enough to take back every second chance.
ExhaustedMeansPinned ==
    result = "exhausted" =>
        Len(frames) = Capacity /\ \A i \in DOMAIN frames : frames[i].pin_count > 0

\* A pinned page keeps its frame: no fetch, allocation or flush of another
\* page moves or drops it under the client that holds it.
PinnedPagesStay ==
    [][crashes' = crashes =>
         \A p \in Cached : FrameOf(p).pin_count > 0 =>
            p \in DOMAIN page_table' /\ page_table'[p] = page_table[p]]_vars

-----------------------------------------------------------------------------
(* The inductive invariant behind them.                                    *)

\* A page in a client's hands is pinned, so its frame cannot go before the
\* client has said that it changed the page.
TouchedArePinned == \A p \in touched : p \in Cached /\ FrameOf(p).pin_count > 0

\* allocate_page_id never hands out a page that is cached.
CachedAreAllocated == \A p \in Cached : p < next_id

\* Together they are preserved by every step (buffer.rs).
PoolInv ==
    /\ TypeOK
    /\ TableMatchesFrames
    /\ CleanFramesAreDurable
    /\ PoolIsTransparent
    /\ ExhaustedMeansPinned
    /\ TouchedArePinned
    /\ CachedAreAllocated
=============================================================================
