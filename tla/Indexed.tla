------------------------------- MODULE Indexed -------------------------------
(***************************************************************************)
(* IndexedStore (crates/storage/src/indexed_store.rs): a durability log,   *)
(* and a B+Tree of current values, with a sentinel entry that says how     *)
(* much of the log the tree reflects.  The log is what DurableLog promises *)
(* and the pool what BufferPool shows: reads see the last rewrite, and a   *)
(* dirty page reaches the disk when it is evicted, between any two steps   *)
(* of the tree, or flushed, one page after the other.  A call may fail on  *)
(* its way: before it changes the tree, half way up a split, or in the     *)
(* flush of a checkpoint.                                                  *)
(***************************************************************************)
EXTENDS Integers, SequencesExt, FiniteSetsExt

CONSTANTS
    Key,                \* user keys, positive integers
    Val,                \* values
    None,               \* a key that is not there
    Tombstone,          \* the index value of a deleted key
    LeafSpace,          \* entries of a leaf: all have one size here
    MaxEntries,         \* entries of an internal page
    checkpoint_interval,\* IndexedStore::checkpoint_interval
    MaxSeq,             \* bound: records in the log
    MaxPage,            \* bound: page ids
    MaxCrashes,         \* bound: crashes
    MaxErrors,          \* bound: calls that fail and leave the tree as it is
    MaxHalfDone,        \* bound: calls that fail in the middle of a split
    CrashIn             \* the torn states of the disk a crash may fall into

\* meta_key(LAST_INDEXED_SEQ_KEY): the metadata namespace sorts first.
Sentinel == 0

\* Keys of the index; encode_index_value: user keys map to values or tombstones.
IndexKey == Key \cup {Sentinel}
IndexValue == Val \cup {Tombstone} \cup 0..MaxSeq

ASSUME EntryAssumption ==
    Key \subseteq Nat \ {Sentinel} /\ Tombstone \notin Val /\ None \notin IndexValue
ASSUME SpaceAssumption ==
    LeafSpace \in Nat /\ MaxEntries \in Nat /\ MaxEntries >= 2 /\ MaxPage \in Nat
ASSUME IntervalAssumption == checkpoint_interval \in Nat \ {0}
ASSUME BoundsAssumption ==
    /\ MaxSeq \in Nat /\ MaxCrashes \in Nat /\ MaxErrors \in Nat /\ MaxHalfDone \in Nat
    /\ CrashIn \subseteq {"split", "sentinel"}

VARIABLES
    log,        \* the records of the log; a record's seq is its position - 1
    disk,       \* the index as the pages of the store have it
    pages, dirty, next_id, call,    \* module BTree
    dict,       \* history: what each key of the index was last set to, in the
                \* pool, or had on the disk when the process started
    errors,     \* calls that failed and left the tree as it was
    half_done,  \* calls that failed in the middle of a split
    pc,         \* where open, put, delete or checkpoint stands
    next,       \* the seq of the record to be applied to the index next
    reconciled_records,         \* IndexedStore::reconciled_records
    pending_since_checkpoint,   \* IndexedStore::pending_since_checkpoint
    phase,      \* "open" while the store opens; then "run", or "unflushed"
                \* from a checkpoint whose flush failed to the next complete one
    crashes,
    missed,     \* history: seqs of records whose put or delete failed in the index
    torn,       \* history: what a crash now would leave half done on the disk
    settled     \* history: next_id when the disk last had every page

tree == <<pages, dirty, next_id, call, dict, errors, half_done>>
store == <<pc, next, reconciled_records, pending_since_checkpoint, phase>>
history == <<crashes, missed>>
shape == <<torn, settled>>
vars == <<log, disk, tree, store, history, shape>>

\* The tree as long as it meets no error, ...
T == INSTANCE BTree WITH
        Key <- IndexKey, Val <- IndexValue, Size <- [v \in IndexValue |-> 1],
        IoMayFail <- FALSE, MaxErrors <- 0, errors <- 0

\* ... and its steps that do, at a fetch or a new_page of the pool.
F == INSTANCE BTree WITH
        Key <- IndexKey, Val <- IndexValue, Size <- [v \in IndexValue |-> 1],
        IoMayFail <- TRUE, MaxErrors <- MaxHalfDone, errors <- half_done

TypeOK ==
    /\ log \in Seq([key : Key, value : Val \cup {Tombstone}]) /\ Len(log) <= MaxSeq
    /\ T!TypeOK /\ errors \in 0..MaxErrors /\ half_done \in 0..MaxHalfDone
    /\ disk \in [T!PageId -> T!Page]
    /\ pc \in {"down", "replay", "idle", "apply", "advance", "checkpoint", "flush"}
    /\ next \in 0..MaxSeq
    /\ reconciled_records \in 0..MaxSeq
    /\ pending_since_checkpoint \in Nat /\ phase \in {"open", "run", "unflushed"}
    /\ crashes \in 0..MaxCrashes
    /\ missed \subseteq 0..MaxSeq - 1
    /\ torn \in {"no", "split", "sentinel"} /\ settled \in 1..MaxPage + 1

\* A new directory: an empty log, no page and no sentinel.
Init ==
    /\ log = <<>>
    /\ disk = [id \in T!PageId |-> T!Blank]
    /\ pages = disk /\ dirty = {} /\ next_id = 1 /\ call = [op |-> "closed"]
    /\ dict = [k \in IndexKey |-> None] /\ errors = 0 /\ half_done = 0
    /\ pc = "down" /\ next = 0 /\ reconciled_records = 0 /\ pending_since_checkpoint = 0
    /\ phase = "open"
    /\ crashes = 0 /\ missed = {}
    /\ torn = "no" /\ settled = 1

-----------------------------------------------------------------------------
(* The index.                                                              *)

\* BTree::insert up to its first rewrite; TreeStep is the rest of it.
Insert(k, v) ==
    /\ T!InsertInLeaf(k, v) \/ T!SplitLeaf(k, v)
    /\ T!Set(k, v)
    /\ UNCHANGED <<errors, half_done>>

TreeStep ==
    /\ T!Ascend \/ T!GrowRoot
    /\ UNCHANGED <<log, disk, dict, errors, half_done, store, history, shape>>

\* Mutant: the dirty bit is not cleared.
WritePageAgain(id) ==
    /\ disk' = [disk EXCEPT ![id] = pages[id]]
    /\ UNCHANGED dirty

\* A page written through the page store.
WritePage(id) ==
    /\ disk' = [disk EXCEPT ![id] = pages[id]]
    /\ dirty' = dirty \ {id}

\* What the pages on disk say, once there are any.
Written == disk[T!META_PAGE_ID] # T!Blank
Stored(k) == IF Written THEN T!Get(disk, k) ELSE None

\* The disk is whole when no page is dirty and no call is under way.  A write
\* tears it when pages were allocated since and others are still to be
\* written, or when it takes out another sentinel before other pages.
Tear ==
    LET whole == dirty' = {} /\ call = T!Idle
    IN  /\ torn' = CASE whole -> "no"
                     [] ~whole /\ next_id # settled -> "split"
                     [] ~whole /\ next_id = settled
                        /\ Stored(Sentinel)' # Stored(Sentinel) -> "sentinel"
                     [] OTHER -> torn
        /\ settled' = IF whole THEN next_id ELSE settled

\* The pool needs a frame, and writes a dirty victim.  The meta page and the
\* root of a new tree share the least pool that can open one.
Evict ==
    /\ pc # "down" /\ ~(pc = "flush" /\ call = T!Idle) /\ next_id > 2
    /\ \E id \in dirty : WritePage(id)
    /\ Tear
    /\ UNCHANGED <<log, pages, next_id, call, dict, errors, half_done, store, history>>

-----------------------------------------------------------------------------
(* IndexedStore::open_with_options.                                        *)

\* Mutant: the record at the sentinel's position is skipped.
ReplayAfter(seq) == IF seq = None THEN 0 ELSE seq + 1

\* read_last_indexed_seq: records from here on are applied again.
ReplayFrom(seq) == IF seq = None THEN 0 ELSE seq

\* The log's records are read, and the tree is opened.
Open ==
    /\ pc = "down"
    /\ T!Open
    /\ T!IsLeaf(pages'[Last(T!PathTo(pages', Sentinel))])
    /\ next' = ReplayFrom(T!Get(pages', Sentinel))
    /\ missed' = {seq \in missed : seq < next'}
    /\ reconciled_records' = 0 /\ pending_since_checkpoint' = 0
    /\ pc' = "replay"
    /\ UNCHANGED <<log, disk, dict, errors, half_done, phase, crashes, shape>>

\* apply_record_to_index, for the records the index may not reflect.
Replay ==
    /\ pc = "replay" /\ call = T!Idle
    /\ IF next < Len(log)
       THEN /\ Insert(log[next + 1].key, log[next + 1].value)
            /\ next' = next + 1
            /\ reconciled_records' = reconciled_records + 1
            /\ UNCHANGED <<pc, phase>>
       ELSE /\ pc' = IF reconciled_records > 0 THEN "checkpoint" ELSE "idle"
            /\ phase' = IF reconciled_records > 0 THEN phase ELSE "run"
            /\ UNCHANGED <<tree, next, reconciled_records>>
    /\ UNCHANGED <<log, disk, pending_since_checkpoint, history, shape>>

-----------------------------------------------------------------------------
(* put, delete, checkpoint.                                                *)

\* put, or delete with a tombstone: Log::append_put, durable when it returns.
AppendRecord(k, v) ==
    /\ pc = "idle" /\ call = T!Idle /\ Len(log) < MaxSeq
    /\ log' = Append(log, [key |-> k, value |-> v])
    /\ next' = Len(log)
    /\ pc' = "apply"
    /\ UNCHANGED <<disk, tree, reconciled_records, pending_since_checkpoint, phase, history, shape>>

\* apply_and_advance: the record reaches the index, ...
Apply ==
    /\ pc = "apply"
    /\ Insert(log[next + 1].key, log[next + 1].value)
    /\ next' = next + 1
    /\ pc' = "advance"
    /\ UNCHANGED <<log, disk, reconciled_records, pending_since_checkpoint, phase, history, shape>>

\* ... or does not: the pool cannot fetch a page on the way down, and put
\* returns the error.
ApplyFails ==
    /\ pc = "apply" /\ errors < MaxErrors
    /\ errors' = errors + 1
    /\ missed' = missed \cup {next}
    /\ pc' = "idle"
    /\ UNCHANGED <<log, disk, pages, dirty, next_id, call, dict, half_done, next, reconciled_records,
                   pending_since_checkpoint, phase, crashes, shape>>

\* Every checkpoint_interval records a checkpoint follows.
Advance ==
    /\ pc = "advance" /\ call = T!Idle
    /\ pending_since_checkpoint' = pending_since_checkpoint + 1
    /\ pc' = IF pending_since_checkpoint' >= checkpoint_interval THEN "checkpoint" ELSE "idle"
    /\ UNCHANGED <<log, disk, tree, next, reconciled_records, phase, history, shape>>

\* checkpoint() or flush() called by a client.
CallCheckpoint ==
    /\ pc = "idle"
    /\ pc' = "checkpoint"
    /\ UNCHANGED <<log, disk, tree, next, reconciled_records, pending_since_checkpoint, phase,
                   history, shape>>

\* Mutant: the sentinel claims one record too many.
SentinelAhead == Len(log) + 1

\* log.next_seq(), at checkpoint.
SentinelValue == Len(log)

\* The sentinel is inserted, in the pool, ...
Checkpoint ==
    /\ pc = "checkpoint" /\ call = T!Idle
    /\ Insert(Sentinel, SentinelValue)
    /\ pc' = "flush"
    /\ UNCHANGED <<log, disk, next, reconciled_records, pending_since_checkpoint, phase, history, shape>>

\* ... or is not, and checkpoint, or the put that came to it, returns the error.
\* The errors of an open drop the store: they are crashes.
CheckpointFails ==
    /\ pc = "checkpoint" /\ phase # "open" /\ errors < MaxErrors
    /\ errors' = errors + 1
    /\ pc' = "idle"
    /\ UNCHANGED <<log, disk, pages, dirty, next_id, call, dict, half_done, next, reconciled_records,
                   pending_since_checkpoint, phase, history, shape>>

\* The insert of a record or of the sentinel fails in the tree: before its leaf
\* is split, ...
SplitFails ==
    \/ /\ pc = "apply" /\ F!SplitFails(log[next + 1].key, log[next + 1].value)
       /\ missed' = missed \cup {next}
    \/ /\ pc = "checkpoint" /\ F!SplitFails(Sentinel, SentinelValue)
       /\ UNCHANGED missed

\* ... or after it was, on the way up.
AscentFails ==
    /\ F!FetchFails \/ F!AscendFails \/ F!GrowRootFails
    /\ missed' = IF pc = "advance" THEN missed \cup {next - 1} ELSE missed

\* What the tree has rewritten stays, and the call returns the error.
IndexFails ==
    /\ phase # "open"
    /\ SplitFails \/ AscentFails
    /\ pc' = "idle"
    /\ UNCHANGED <<log, disk, dict, errors, next, reconciled_records, pending_since_checkpoint, phase,
                   crashes, shape>>

\* ... and flush_all writes the dirty pages in the order of their frames,
\* which is any order: the clock hands frames out.
FlushPage ==
    /\ pc = "flush" /\ call = T!Idle
    /\ \E id \in dirty : WritePage(id)
    /\ Tear
    /\ UNCHANGED <<log, pages, next_id, call, dict, errors, half_done, store, history>>

\* A write fails: its page and those after it stay dirty, and the sentinel may
\* be on the disk without them.
FlushFails ==
    /\ pc = "flush" /\ call = T!Idle /\ dirty # {} /\ phase # "open" /\ errors < MaxErrors
    /\ errors' = errors + 1
    /\ pc' = "idle" /\ phase' = "unflushed"
    /\ UNCHANGED <<log, disk, pages, dirty, next_id, call, dict, half_done, next, reconciled_records,
                   pending_since_checkpoint, history, shape>>

\* Mutant: flush_all stops early.
FlushGivesUp ==
    /\ pc = "flush" /\ call = T!Idle
    /\ pending_since_checkpoint' = 0
    /\ pc' = "idle" /\ phase' = "run"
    /\ UNCHANGED <<log, disk, tree, next, reconciled_records, history, shape>>

\* flush_all and checkpoint return.
FlushDone ==
    /\ pc = "flush" /\ call = T!Idle /\ dirty = {}
    /\ pending_since_checkpoint' = 0
    /\ pc' = "idle" /\ phase' = "run"
    /\ UNCHANGED <<log, disk, tree, next, reconciled_records, history, shape>>

\* HeapPageStore::open: ids go on after the largest one written.
NextPageId == 1 + Max({0} \cup {id \in T!PageId : disk[id] # T!Blank})

\* The process stops, or an open fails and drops the store; the log and the
\* pages written so far remain.
Crash ==
    /\ pc # "down" /\ crashes < MaxCrashes
    /\ torn \in CrashIn \cup {"no"}
    /\ crashes' = crashes + 1
    /\ pages' = disk /\ dirty' = {} /\ next_id' = NextPageId /\ call' = [op |-> "closed"]
    /\ dict' = [k \in IndexKey |-> Stored(k)]
    /\ next' = 0 /\ reconciled_records' = 0 /\ pending_since_checkpoint' = 0
    /\ pc' = "down" /\ phase' = "open"
    /\ torn' = "no" /\ settled' = NextPageId
    /\ UNCHANGED <<log, disk, errors, half_done, missed>>

Next ==
    \/ TreeStep \/ Evict \/ Open \/ Replay \/ Apply \/ ApplyFails \/ Advance
    \/ CallCheckpoint \/ Checkpoint \/ CheckpointFails \/ IndexFails
    \/ FlushPage \/ FlushFails \/ FlushDone \/ Crash
    \/ \E k \in Key, v \in Val \cup {Tombstone} : AppendRecord(k, v)

\* The process runs: a started call is carried through, a stopped one restarts.
Fairness ==
    WF_vars(TreeStep \/ Open \/ Replay \/ Apply \/ Advance \/ Checkpoint \/ FlushPage \/ FlushDone)

Spec == Init /\ [][Next]_vars /\ Fairness

-----------------------------------------------------------------------------
(* IndexedStore::get and scan.                                             *)

\* decode_index_value: a tombstone reads as no value.
Decoded(v) == IF v = Tombstone THEN None ELSE v

Get(p, k) == Decoded(T!Get(p, k))

\* Mutant: deleted keys come back as tombstones.
ScanWithTombstones(p) ==
    SortSeq(SelectSeq(T!ScanAll(p), LAMBDA e : e.key # Sentinel), LAMBDA e, f : e.key < f.key)

\* The user entries of a full traversal that are not tombstones, by key.
Scan(p) ==
    SortSeq(SelectSeq(T!ScanAll(p), LAMBDA e : e.key # Sentinel /\ e.value # Tombstone),
            LAMBDA e, f : e.key < f.key)

-----------------------------------------------------------------------------
(* Properties.                                                             *)

\* The records of k among the first n of the log, less those whose put or
\* delete failed, and what the index has for k after them.
Applied(k, n) == {i \in 1..n : log[i].key = k /\ (i - 1) \notin missed}
IndexedAfter(k, n) == IF Applied(k, n) = {} THEN None ELSE log[Max(Applied(k, n))].value

ValueAfter(k, n) == Decoded(IndexedAfter(k, n))

Persisted(k) == Decoded(Stored(k))
LastIndexedSeq == ReplayFrom(Stored(Sentinel))

\* No call failed in the middle of a split.
Intact == half_done = 0

\* The log is the source of truth: whatever splits, crashes, evictions,
\* failed checkpoints and reconciliations came before, get returns each key's
\* last logged value, puts that returned an error apart.  Reopening makes up
\* for those too, but not for the ones a checkpoint has covered since.
IndexReflectsLog ==
    Intact /\ pc = "idle" => \A k \in Key : Get(pages, k) = ValueAfter(k, Len(log))

\* The same of every key all of whose records the index has taken in, whichever
\* calls failed on other keys or on the sentinel, and wherever: the index "is an
\* optimization, not a behavior change" (apply_and_advance, checkpoint).
OtherKeysAreThere ==
    pc = "idle" =>
        \A k \in Key : (\A i \in DOMAIN log : log[i].key = k => (i - 1) \notin missed)
                        => Get(pages, k) = ValueAfter(k, Len(log))

\* scan returns the keys the log has a value for, in order, with those values,
\* and neither tombstones nor the sentinel.
ScanReflectsLog ==
    Intact /\ pc = "idle" =>
        LET keys == SetToSortSeq({k \in Key : ValueAfter(k, Len(log)) # None}, <)
        IN  Scan(pages) = [i \in DOMAIN keys |-> T!Entry(keys[i], ValueAfter(keys[i], Len(log)))]

\* "Durably records 'everything up to the current log position is reflected
\* in the index'" (checkpoint): a whole disk holds each key at least as new as
\* its sentinel promises, wherever evictions, failed checkpoints and crashes
\* left it.
SentinelIsSound ==
    Intact /\ torn = "no" =>
        \A k \in Key : \E n \in LastIndexedSeq..Len(log) : Persisted(k) = ValueAfter(k, n)

\* "Ensures durability and a zero-reconciliation next open" (flush): with
\* nothing pending since a checkpoint, and no failed one, the pages on disk
\* reflect the log.
CheckpointLeavesNothing ==
    Intact /\ pc = "idle" /\ phase = "run" /\ pending_since_checkpoint = 0 /\ missed = {} =>
        /\ LastIndexedSeq = Len(log)
        /\ \A k \in Key : Persisted(k) = ValueAfter(k, Len(log))

\* "Ids are never reused" (page_store.rs allocate_page_id): the id of the next
\* page is named by no page, though crashes forget what was handed out.
IdsAreFresh ==
    \A id \in next_id..MaxPage :
        /\ pages[id] = T!Blank
        /\ \A p \in T!PageId :
              /\ pages[p].next # id
              /\ T!IsInternal(pages[p]) \/ p = T!META_PAGE_ID =>
                    id \notin ToSet(T!Children(pages[p]))

\* "Everything up to the current log position is reflected in the index"
\* (checkpoint): no record is passed over by the replay of an open, though its
\* put failed in the index.
FailedPutsAreIndexed == pc = "replay" => missed = {}

\* A reopened store, and a started call, come to rest.
ComesToRest == (pc # "idle") ~> (pc = "idle")

-----------------------------------------------------------------------------
(* The inductive invariant behind them, but for the pages of the tree, for *)
(* as long as no call fails in the middle of a split.                      *)

\* Where the tree stands at each point of a call, and which records the pool
\* has seen.
Seen == IF pc = "apply" THEN next ELSE Len(log)

CallsInStep ==
    /\ call.op # "delete"
    /\ pc = "down" <=> call = [op |-> "closed"]
    /\ pc \in {"idle", "apply", "checkpoint"} => call = T!Idle
    /\ pc \in {"down", "replay"} => phase = "open"
    /\ pc \in {"idle", "apply", "advance"} => phase # "open"
    /\ pc = "apply" => Len(log) = next + 1
    /\ pc = "replay" => /\ next <= Len(log) /\ reconciled_records <= next
                        /\ missed \subseteq 0..next - 1
    /\ missed \subseteq 0..Seen - 1

\* What is not dirty is on the disk; pages allocated since the disk was whole
\* show in next_id.
DiskInStep ==
    /\ \A id \in T!PageId \ dirty : disk[id] = pages[id]
    /\ settled <= next_id /\ (torn = "split" => settled # next_id)
    /\ call.op = "insert" => settled # next_id
    /\ pc = "down" => dirty = {} /\ torn = "no" /\ settled = next_id
    /\ pc # "down" /\ call = T!Idle /\ dirty = {} => torn = "no" /\ settled = next_id

\* The index in the pool has each key as the records it has seen leave it; a
\* replay starts from newer values of some keys than others.
PoolFollowsLog ==
    /\ pc \notin {"down", "replay"} => \A k \in Key : dict[k] = IndexedAfter(k, Seen)
    /\ pc = "replay" => \A k \in Key : \E n \in next..Len(log) : dict[k] = IndexedAfter(k, n)
    /\ ReplayFrom(dict[Sentinel]) \in 0..(IF pc = "replay" THEN next ELSE Seen)
    /\ pc = "flush" => dict[Sentinel] = Len(log)

\* d is a whole disk's index: no key is older than its sentinel says.
Sound(d) ==
    /\ ReplayFrom(d[Sentinel]) \in 0..Seen
    /\ \A k \in Key : \E n \in ReplayFrom(d[Sentinel])..Seen : d[k] = IndexedAfter(k, n)
    /\ pc # "flush" /\ phase # "unflushed" => d[Sentinel] = dict[Sentinel]
    /\ pc = "down" => d = dict

DiskFollowsLog == torn = "no" => Sound([k \in IndexKey |-> Stored(k)])

\* The pages a new store has dirtied, of which some are on the disk.
Fresh ==
    /\ settled = 1 /\ next_id = 2 /\ call = T!Idle /\ dict[Sentinel] = None
    /\ pages[0] = T!Meta(1) /\ pages[1] = T!Leaf(<<>>, T!NO_SIBLING)
    /\ \A id \in T!PageId : disk[id] \in {T!Blank, pages[id]}

\* Right after an open or a checkpoint the sentinel covers the log.
NothingPending ==
    \/ pc = "replay" /\ reconciled_records = 0
    \/ pc \in {"idle", "checkpoint"} /\ phase = "run" /\ pending_since_checkpoint = 0 /\ missed = {}
    =>  /\ ReplayFrom(dict[Sentinel]) = IF pc = "replay" THEN next ELSE Len(log)
        /\ Fresh \/ (torn = "no" /\ settled = next_id)

\* Preserved by every step when no crash finds a torn disk (indexed_store.rs).
IndexInv ==
    Intact =>
        TypeOK /\ CallsInStep /\ DiskInStep /\ PoolFollowsLog /\ DiskFollowsLog /\ NothingPending
=============================================================================
