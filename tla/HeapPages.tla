------------------------------ MODULE HeapPages ------------------------------
(***************************************************************************)
(* HeapPageStore (crates/storage/src/heap_page_store.rs): page bodies in a *)
(* flat heap file, and where each page's latest body is in a location log. *)
(* write_page is modelled system call by system call, with a crash (of the *)
(* process or of the machine) between any two and an I/O error at each.    *)
(*                                                                         *)
(* The heap file is a sequence of page-sized slots; offsets are slot       *)
(* numbers counted from 0.  The location log is one segment of module Log: *)
(* an append that fails may leave its record whole or torn, or nothing.    *)
(***************************************************************************)
EXTENDS Integers, Sequences

CONSTANTS
    PageId,         \* page ids
    Content,        \* page bodies that Page::decode accepts
    Missing,        \* no such page
    Junk,           \* a whole slot whose bytes were only partly written
    Partial,        \* less than a slot of bytes, at the end of the file
    MaxWrites,      \* bound: calls of write_page
    MaxCrashes,     \* bound: crashes
    MaxFaults       \* bound: I/O errors

ASSUME SlotAssumption == {Missing, Junk, Partial} \cap Content = {} /\ Junk # Partial
ASSUME LocationAssumption == Missing \notin Nat
ASSUME BoundsAssumption == MaxWrites \in Nat /\ MaxCrashes \in Nat /\ MaxFaults \in Nat

VARIABLES
    heap,           \* the heap file
    synced,         \* how many of its slots are on stable storage
    location_log,   \* the records <<page id, offset>> that a recovery of
                    \* HeapPageStore::location_log reads: those before the
                    \* first torn one
    log_synced,     \* how many of them are on stable storage
    log_fault,      \* what the appends to it that failed since open have
                    \* left: "none", a "whole" record, a "torn" one
    heap_len,       \* HeapPageStore::heap_len, in slots
    locations,      \* HeapPageStore::locations
    pc,             \* where write_page stands
    call,           \* its arguments
    writes, crashes, faults

log == <<location_log, log_synced, log_fault>>
vars == <<heap, synced, location_log, log_synced, log_fault, heap_len, locations, pc, call,
          writes, crashes, faults>>

TypeOK ==
    /\ heap \in Seq(Content \cup {Junk, Partial})
    /\ \A i \in 1..(Len(heap) - 1) : heap[i] # Partial
    /\ synced \in 0..Len(heap)
    /\ location_log \in Seq(PageId \X Nat)
    /\ log_synced \in 0..Len(location_log) /\ log_fault \in {"none", "whole", "torn"}
    /\ heap_len \in Nat
    /\ locations \in [PageId -> Nat \cup {Missing}]
    /\ pc \in {"down", "idle", "write", "sync", "log", "insert"}
    /\ call \in (PageId \X Content) \cup {<<>>}
    /\ writes \in 0..MaxWrites /\ crashes \in 0..MaxCrashes /\ faults \in 0..MaxFaults

Init ==
    /\ heap = <<>> /\ synced = 0
    /\ location_log = <<>> /\ log_synced = 0 /\ log_fault = "none"
    /\ heap_len = 0 /\ locations = [p \in PageId |-> Missing]
    /\ pc = "down" /\ call = <<>>
    /\ writes = 0 /\ crashes = 0 /\ faults = 0

-----------------------------------------------------------------------------
(* HeapPageStore::open.                                                    *)

\* The location records of p.
RecordsOf(p) == {i \in DOMAIN location_log : location_log[i][1] = p}

\* Mutant: the first location of a page wins.
ReplayedFirst(p) ==
    LET own == RecordsOf(p) IN
    IF own = {} THEN Missing ELSE location_log[CHOOSE i \in own : \A j \in own : i <= j][2]

\* The location of p that a replay of the location log ends up with.
Replayed(p) ==
    LET own == RecordsOf(p) IN
    IF own = {} THEN Missing ELSE location_log[CHOOSE i \in own : \A j \in own : j <= i][2]

\* Mutant: the last page is cut off, partial or not.
LastPageCut(h) == IF h # <<>> THEN SubSeq(h, 1, Len(h) - 1) ELSE h

\* A partial page at the end of the file is cut off.
WholePages(h) == IF h # <<>> /\ h[Len(h)] = Partial THEN SubSeq(h, 1, Len(h) - 1) ELSE h

Open ==
    /\ pc = "down"
    /\ heap' = WholePages(heap)
    /\ heap_len' = Len(WholePages(heap))
    /\ synced' = IF synced > heap_len' THEN heap_len' ELSE synced
    /\ locations' = [p \in PageId |-> Replayed(p)]
    /\ pc' = "idle"
    /\ UNCHANGED <<log, call, writes, crashes, faults>>

-----------------------------------------------------------------------------
(* HeapPageStore::read_page and write_page.                                *)

\* read_page: None for an unknown page, else the slot at its offset.
Read(locs, p) ==
    IF locs[p] = Missing THEN Missing
    ELSE IF locs[p] < Len(heap) THEN heap[locs[p] + 1] ELSE Partial

StartWrite(p, c) ==
    /\ pc = "idle" /\ writes < MaxWrites
    /\ call' = <<p, c>> /\ pc' = "write" /\ writes' = writes + 1
    /\ UNCHANGED <<heap, synced, log, heap_len, locations, crashes, faults>>

\* The file with x in the slot at heap_len, the end of what is in use.
WithSlot(x) == Append(SubSeq(heap, 1, heap_len), x)

\* Mutant: no sync_data between the page and its location.
WriteHeapUnsynced ==
    /\ pc = "write"
    /\ heap' = WithSlot(call[2])
    /\ synced' = IF synced > heap_len THEN heap_len ELSE synced
    /\ heap_len' = heap_len + 1
    /\ pc' = "log"
    /\ UNCHANGED <<log, locations, call, writes, crashes, faults>>

\* seek and write_all.
WriteHeap ==
    /\ pc = "write"
    /\ heap' = WithSlot(call[2])
    /\ synced' = IF synced > heap_len THEN heap_len ELSE synced
    /\ pc' = "sync"
    /\ UNCHANGED <<log, heap_len, locations, call, writes, crashes, faults>>

\* sync_data; only now is the slot in use.
SyncHeap ==
    /\ pc = "sync"
    /\ synced' = Len(heap)
    /\ heap_len' = heap_len + 1
    /\ pc' = "log"
    /\ UNCHANGED <<heap, log, locations, call, writes, crashes, faults>>

\* The log with the record of the call.  Behind a torn record it would be as
\* if it were not there.
WithRecord ==
    IF log_fault = "torn" THEN location_log
    ELSE Append(location_log, <<call[1], heap_len - 1>>)

\* Log::append_put; its sync_data covers the records before it too.
AppendLocation ==
    /\ pc = "log"
    /\ location_log' = WithRecord /\ log_synced' = Len(WithRecord)
    /\ pc' = "insert"
    /\ UNCHANGED <<heap, synced, log_fault, heap_len, locations, call, writes, crashes, faults>>

InsertLocation ==
    /\ pc = "insert"
    /\ locations' = [locations EXCEPT ![call[1]] = heap_len - 1]
    /\ pc' = "idle" /\ call' = <<>>
    /\ UNCHANGED <<heap, synced, log, heap_len, writes, crashes, faults>>

-----------------------------------------------------------------------------
(* Errors and crashes.                                                     *)

\* append_put returns an error: from roll_over_if_needed, from write_all (some
\* bytes of the record are in the file), or from sync_data (all of them are).
AppendFails ==
    \/ UNCHANGED log
    \/ log_fault' = "torn" /\ UNCHANGED <<location_log, log_synced>>
    \/ /\ log_fault # "torn" /\ log_fault' = "whole"
       /\ location_log' = WithRecord /\ UNCHANGED log_synced

\* An early return with an error, from write_all (some bytes are in the
\* file), sync_data, or append_put; nothing that was done is undone.
Fault ==
    /\ faults < MaxFaults /\ faults' = faults + 1
    /\ \/ /\ pc = "write"
          /\ \/ UNCHANGED <<heap, synced>>
             \/ /\ heap' = WithSlot(IF heap_len < Len(heap) /\ heap[heap_len + 1] # Partial
                                    THEN Junk ELSE Partial)
                /\ synced' = IF synced > heap_len THEN heap_len ELSE synced
          /\ UNCHANGED log
       \/ pc = "sync" /\ UNCHANGED <<heap, synced, log>>
       \/ pc = "log" /\ AppendFails /\ UNCHANGED <<heap, synced>>
    /\ pc' = "idle" /\ call' = <<>>
    /\ UNCHANGED <<heap_len, locations, writes, crashes>>

\* What may be left of the slots of h that are not on stable storage.
Survivors(h) ==
    {SubSeq(h, 1, synced) \o t : t \in UNION
        {[1..n -> Content \cup {Junk, Partial}] : n \in 0..(Len(h) - synced)}}

Plausible(h, s) ==
    /\ \A i \in 1..Len(s) : s[i] = Partial => i = Len(s)
    /\ \A i \in 1..Len(s) : s[i] \in {h[i], Junk, Partial}

\* The process or the machine stops.  During write_all the slot at heap_len
\* is being filled, during append_put a record written.  A killed process
\* leaves the files as they were.
Crash ==
    /\ pc # "down" /\ crashes < MaxCrashes
    /\ crashes' = crashes + 1
    /\ \E h \in {heap} \cup (IF pc = "write" THEN {WithSlot(Partial)} ELSE {}) :
          heap' \in {s \in Survivors(h) : Plausible(h, s)} \cup {h}
    /\ synced' = IF synced > Len(heap') THEN Len(heap') ELSE synced
    /\ \E n \in log_synced..Len(location_log) :
          location_log' \in {SubSeq(location_log, 1, n)} \cup (IF pc = "log" THEN {WithRecord} ELSE {})
    /\ log_fault' = "none"
    /\ pc' = "down" /\ call' = <<>>
    /\ heap_len' = 0 /\ locations' = [p \in PageId |-> Missing]
    /\ UNCHANGED <<log_synced, writes, faults>>

Next ==
    \/ Open \/ WriteHeap \/ SyncHeap \/ AppendLocation \/ InsertLocation
    \/ Fault \/ Crash
    \/ \E p \in PageId, c \in Content : StartWrite(p, c)

Spec == Init /\ [][Next]_vars

-----------------------------------------------------------------------------
(* Properties.                                                             *)

\* What read_page would return after a restart.
Durable(p) == Read([q \in PageId |-> Replayed(q)], p)

Abstract ==
    INSTANCE PageStore WITH
        pages   <- [p \in PageId |-> Durable(p)],
        pending <- IF pc \in {"write", "sync", "log"} THEN call ELSE <<>>,
        done    <- pc = "insert"

\* An append to the location log has failed since open, or the log has a
\* record that is not on stable storage.
InDoubt == log_fault # "none" \/ log_synced < Len(location_log)

\* "No location record can possibly reference" a page that a crash tore
\* (heap_page_store.rs open), and a page once written is never overwritten:
\* HeapPageStore implements the trait's contract, crashes and I/O errors
\* included, until an append to its location log fails or is killed before
\* its sync.
ImplementsPageStore ==
    Abstract!Init /\ [][~InDoubt => [Abstract!Next]_(Abstract!vars)]_vars

\* The running process and a restarted one read the same pages: locations,
\* which is updated last, never runs ahead of or behind what is durable,
\* whichever step of an earlier write failed, but for the append to the
\* location log.
ReadsAreDurable ==
    pc \notin {"down", "insert"} /\ log_fault = "none" =>
        \A p \in PageId : Read(locations, p) = Durable(p)

\* The next write never lands on a slot that a location names.
LiveSlotsAreInUse ==
    pc # "down" => \A i \in DOMAIN location_log : location_log[i][2] < heap_len

-----------------------------------------------------------------------------
(* The inductive invariant behind them.                                    *)

\* A location names a slot that was on stable storage before the record was,
\* and that nothing has touched since.
LocatedAreWritten ==
    \A i \in DOMAIN location_log :
        location_log[i][2] < synced /\ heap[location_log[i][2] + 1] \in Content

\* What each step of write_page finds in the file.
WriteInProgress ==
    /\ pc \in {"down", "idle"} <=> call = <<>>
    /\ pc # "down" => /\ synced <= heap_len /\ heap_len <= Len(heap)
                      /\ \A i \in 1..heap_len : heap[i] # Partial
    /\ pc = "sync" => Len(heap) = heap_len + 1 /\ heap[heap_len + 1] = call[2]
    /\ pc \in {"log", "insert"} => synced = heap_len /\ heap_len > 0 /\ heap[heap_len] = call[2]

\* The map in memory is the replay of the log, but for the insert that is due
\* and for appends that failed.
LocationsFollowLog ==
    /\ pc = "down" => log_fault = "none"
    /\ pc \notin {"down", "insert"} /\ log_fault = "none" =>
          locations = [p \in PageId |-> Replayed(p)]
    /\ pc = "insert" /\ log_fault = "none" =>
          [locations EXCEPT ![call[1]] = heap_len - 1] = [p \in PageId |-> Replayed(p)]

\* Together they are preserved by every step (heap_page_store.rs).
HeapInv == TypeOK /\ LocatedAreWritten /\ WriteInProgress /\ LocationsFollowLog
=============================================================================
