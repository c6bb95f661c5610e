-------------------------------- MODULE Store --------------------------------
(***************************************************************************)
(* Store (crates/storage/src/store.rs): the index in memory, the segments  *)
(* and the scratch directories of a compaction on disk, compact() and the  *)
(* recovery of Store::open one file operation at a time, and a crash       *)
(* between any two of them.                                                *)
(*                                                                         *)
(* A directory is a function from segment ids to the records in the file,  *)
(* or NoDir when it does not exist.  The log below it is what DurableLog   *)
(* promises: an append that returns is durable, a crash during an append   *)
(* leaves a prefix of its records.  Renames, removals and the creation of  *)
(* the marker are taken to reach the disk in the order they are made.      *)
(***************************************************************************)
EXTENDS Versions, FiniteSetsExt, SequencesExt

CONSTANTS
    Key,            \* byte-string keys, in their BTreeMap order
    Writable,       \* what clients write: values, and None if they delete
    SegMax,         \* segment_max_bytes, in records
    MaxSegs,        \* bound: segments in a directory
    MaxBatch,       \* bound: operations in one batch
    MaxSeq,         \* bound: sequence numbers
    MaxSeqAfterFault,   \* bound: the same, once a compact() has failed
    MaxGuards,      \* bound: snapshots held at once
    MaxCompactions, \* bound: calls of compact() that do not fail
    MaxCrashes,     \* bound: crashes
    MaxFaults       \* bound: I/O errors in compact()

ASSUME KeyAssumption == Key \subseteq Nat /\ IsFiniteSet(Key)
ASSUME WritableAssumption == Writable \subseteq Val \cup {None}
ASSUME BoundsAssumption ==
    /\ SegMax \in Nat \ {0} /\ MaxSegs \in Nat \ {0}
    /\ {MaxBatch, MaxSeq, MaxSeqAfterFault, MaxGuards, MaxCompactions, MaxCrashes, MaxFaults} \subseteq Nat

Record == [seq : Nat, key : Key, value : Val \cup {None}]

\* A directory that does not exist: no segment has the id -1.
NoDir == [id \in {-1} |-> <<>>]

VARIABLES
    dir,            \* the seg-*.log files of the store's directory
    tmp,            \* COMPACT_TMP_DIR
    backup,         \* COMPACT_OLD_BACKUP_DIR
    placeholder,    \* COMPACT_PLACEHOLDER_DIR
    marker,         \* whether COMPACT_READY_MARKER exists
    pc,             \* where Store::open, compact() or a write stands
    caller,         \* who runs finish_pending_compaction: "open", "compact"
    index,          \* Store::index
    next_seq,       \* Log::next_seq
    log,            \* where Store::log appends: "dir", "placeholder", or a
                    \* file of the placeholder that is "unlinked" already
    held,           \* the keys of Store::held_snapshots
    pending,        \* the operations of the write in progress
    compactions, crashes, faults

disk == <<dir, tmp, backup, placeholder, marker>>
memory == <<index, next_seq, log, held>>
bounded == <<compactions, crashes, faults>>
vars == <<dir, tmp, backup, placeholder, marker, pc, caller, index, next_seq,
          log, held, pending, compactions, crashes, faults>>

Compacting == {"clear", "create", "open_tmp", "build", "mark", "swap", "open_placeholder",
               "reopen", "cleanup"}
Finishing == {"finish", "backup", "migrate", "rm_backup", "rm_marker"}
Opening == {"discard", "rm_placeholder", "replay"}

\* The files of a directory that may not exist.
Files(d) == IF d = NoDir THEN {} ELSE DOMAIN d

\* A directory with one file written, over one of that id if there is one.
WithFile(d, id, f) == [i \in DOMAIN d \cup {id} |-> IF i = id THEN f ELSE d[i]]

\* The files of d, and those of e that d does not have.
Over(d, e) == [i \in DOMAIN d \cup DOMAIN e |-> IF i \in DOMAIN d THEN d[i] ELSE e[i]]

\* What create_dir_all makes.
EmptyDir == [id \in {} |-> <<>>]

\* remove_dir_all takes one file away or, when none is left, the directory.
Without(d, id) == [i \in DOMAIN d \ {id} |-> d[i]]
Shrunk(d) == IF Files(d) = {} THEN {NoDir} ELSE {Without(d, id) : id \in DOMAIN d}

\* A new log's directory: append_records_verbatim does not roll over in one.
OneSegment(rs) == [id \in {0} |-> rs]

IsDirectory(d) ==
    /\ Files(d) \subseteq 0..(MaxSegs - 1)
    /\ \A id \in Files(d) : d[id] \in Seq(Record)

TypeOK ==
    /\ IsDirectory(dir) /\ dir # NoDir
    /\ IsDirectory(tmp) /\ IsDirectory(backup) /\ IsDirectory(placeholder)
    /\ marker \in BOOLEAN
    /\ pc \in {"down", "idle", "writing"} \cup Compacting \cup Finishing \cup Opening
    /\ caller \in {"open", "compact"}
    /\ index \in [Key -> Seq(Version)] /\ next_seq \in Nat
    /\ log \in {"dir", "placeholder", "unlinked"}
    /\ held \subseteq 0..MaxSeq
    /\ pending \in Seq([key : Key, value : Val \cup {None}])
    /\ compactions \in 0..(MaxCompactions + MaxFaults)
    /\ crashes \in 0..MaxCrashes /\ faults \in 0..MaxFaults

-----------------------------------------------------------------------------
(* What Log::open makes of a directory.                                    *)

\* OpenReport::records: the files by id, each from its beginning.
Stream(d) ==
    FlattenSeq([n \in 1..MaxSegs |-> IF n - 1 \in Files(d) THEN d[n - 1] ELSE <<>>])

\* The version list Store::open rebuilds for k from a record stream.
VersionsOf(k, rs) ==
    LET own == SelectSeq(rs, LAMBDA r : r.key = k)
    IN  [i \in DOMAIN own |-> [seq |-> own[i].seq, value |-> own[i].value]]

Replayed(d) == [k \in Key |-> VersionsOf(k, Stream(d))]

NextSeqOf(d) == NextSeq({r.seq : r \in ToSet(Stream(d))})

\* Log::open creates the first segment of an empty directory.
Opened(d) == IF DOMAIN d = {} THEN OneSegment(<<>>) ELSE d

Active(d) == Max(DOMAIN d)

Init ==
    /\ dir = EmptyDir
    /\ tmp = NoDir /\ backup = NoDir /\ placeholder = NoDir /\ marker = FALSE
    /\ pc = "down" /\ caller = "open"
    /\ index = [k \in Key |-> <<>>] /\ next_seq = 0 /\ log = "dir" /\ held = {}
    /\ pending = <<>>
    /\ compactions = 0 /\ crashes = 0 /\ faults = 0

-----------------------------------------------------------------------------
(* Writes and snapshots.                                                   *)

Batches == UNION {[1..n -> [key : Key, value : Writable]] : n \in 1..MaxBatch}

\* The directory Store::log writes to.
Target == IF log = "dir" THEN dir ELSE placeholder

\* roll_over_if_needed.
NeedsRollOver(d, n) == LET size == Len(d[Active(d)]) IN size # 0 /\ size + n > SegMax

\* Log::append_batch: the first n records of a batch in the active segment.
Appended(d, ops, n) ==
    LET recs == [i \in 1..n |-> [seq |-> next_seq + i - 1, key |-> ops[i].key,
                                 value |-> ops[i].value]]
        id == IF NeedsRollOver(d, Len(ops)) THEN Active(d) + 1 ELSE Active(d)
    IN  WithFile(d, id, (IF id \in DOMAIN d THEN d[id] ELSE <<>>) \o recs)

AppendToTarget(n) ==
    CASE log = "dir" -> dir' = Appended(dir, pending, n) /\ UNCHANGED placeholder
      [] log = "placeholder" -> placeholder' = Appended(placeholder, pending, n) /\ UNCHANGED dir
      [] log = "unlinked" -> UNCHANGED <<dir, placeholder>>

\* Store::put, delete and apply_batch are called.  Bound: an unlinked file
\* does not roll over.
StartWrite(ops) ==
    /\ pc = "idle"
    /\ next_seq + Len(ops) <= IF faults = 0 THEN MaxSeq ELSE MaxSeqAfterFault
    /\ IF log = "unlinked" THEN next_seq + Len(ops) <= SegMax
       ELSE NeedsRollOver(Target, Len(ops)) => Active(Target) + 1 < MaxSegs
    /\ pc' = "writing" /\ pending' = ops
    /\ UNCHANGED <<disk, caller, memory, bounded>>

\* They return: the records are on disk, the versions in the index.
FinishWrite ==
    /\ pc = "writing"
    /\ AppendToTarget(Len(pending))
    /\ index' = [k \in Key |->
         index[k] \o LET own == SelectSeq([i \in DOMAIN pending |-> <<i, pending[i]>>],
                                          LAMBDA p : p[2].key = k)
                     IN  [i \in DOMAIN own |-> [seq |-> next_seq + own[i][1] - 1,
                                                value |-> own[i][2].value]]]
    /\ next_seq' = next_seq + Len(pending)
    /\ pc' = "idle" /\ pending' = <<>>
    /\ UNCHANGED <<tmp, backup, marker, caller, log, held, bounded>>

\* Store::hold_snapshot.  How many guards share a snapshot is Txn's matter:
\* compact() looks at the oldest one only.
HoldSnapshot ==
    /\ pc = "idle" /\ Cardinality(held) < MaxGuards
    /\ next_seq \notin held
    /\ held' = held \cup {next_seq}
    /\ UNCHANGED <<disk, pc, caller, index, next_seq, log, pending, bounded>>

\* The last SnapshotGuard of a snapshot is dropped.
DropSnapshot(s) ==
    /\ pc = "idle" /\ s \in held
    /\ held' = held \ {s}
    /\ UNCHANGED <<disk, pc, caller, index, next_seq, log, pending, bounded>>

-----------------------------------------------------------------------------
(* Store::compact up to its call of finish_pending_compaction.             *)

\* Mutant: compaction does not ask for held snapshots.
KeptWithoutGuards(k) == KeptUnguarded(index[k])

\* The positions of k's version list that are retained.
Kept(k) ==
    IF held = {} THEN KeptUnguarded(index[k])
    ELSE KeptFrom(index[k], SmallestOf(held))

\* The records that survive, by sequence number; the sort is stable and the
\* index is walked in key order.
CompactedRecords ==
    LET kept == UNION {{k} \X Kept(k) : k \in Key}
        Before(p, q) ==
            LET v == index[p[1]][p[2]].seq
                w == index[q[1]][q[2]].seq
            IN  v < w \/ (v = w /\ (p[1] < q[1] \/ (p[1] = q[1] /\ p[2] < q[2])))
        order == SetToSortSeq(kept, Before)
    IN  [n \in DOMAIN order |->
            [seq |-> index[order[n][1]][order[n][2]].seq, key |-> order[n][1],
             value |-> index[order[n][1]][order[n][2]].value]]

\* compact() is called; is there a leftover temporary directory?
CompactBegin ==
    /\ pc = "idle" /\ compactions < MaxCompactions + faults
    /\ compactions' = compactions + 1
    /\ pc' = IF tmp = NoDir THEN "create" ELSE "clear"
    /\ caller' = "compact"
    /\ UNCHANGED <<disk, memory, pending, crashes, faults>>

\* It is removed, file by file,
ClearTmp ==
    /\ pc = "clear"
    /\ tmp' \in Shrunk(tmp)
    /\ pc' = IF tmp' = NoDir THEN "create" ELSE "clear"
    /\ UNCHANGED <<dir, backup, placeholder, marker, caller, memory, pending, bounded>>

\* created anew,
CreateTmp ==
    /\ pc = "create"
    /\ tmp' = EmptyDir
    /\ pc' = "open_tmp"
    /\ UNCHANGED <<dir, backup, placeholder, marker, caller, memory, pending, bounded>>

\* and opened as a log, which creates its first segment.
OpenTmp ==
    /\ pc = "open_tmp"
    /\ tmp' = Opened(tmp)
    /\ pc' = "build"
    /\ UNCHANGED <<dir, backup, placeholder, marker, caller, memory, pending, bounded>>

\* The survivors are written to the new log.
BuildTmp ==
    /\ pc = "build"
    /\ tmp' = OneSegment(CompactedRecords)
    /\ pc' = "mark"
    /\ UNCHANGED <<dir, backup, placeholder, marker, caller, memory, pending, bounded>>

\* The commit point.
WriteMarker ==
    /\ pc = "mark"
    /\ marker' = TRUE
    /\ pc' = "swap"
    /\ UNCHANGED <<dir, tmp, backup, placeholder, caller, memory, pending, bounded>>

\* A placeholder directory that an earlier compact() left is removed.
\* Store::log may still have its active segment open.
ClearPlaceholder ==
    /\ pc = "swap" /\ placeholder # NoDir
    /\ placeholder' \in Shrunk(placeholder)
    /\ log' = IF log = "placeholder" /\ Active(placeholder) \notin Files(placeholder')
              THEN "unlinked" ELSE log
    /\ UNCHANGED <<dir, tmp, backup, marker, pc, caller, index, next_seq, held, pending, bounded>>

CreatePlaceholder ==
    /\ pc = "swap" /\ placeholder = NoDir
    /\ placeholder' = EmptyDir
    /\ pc' = "open_placeholder"
    /\ UNCHANGED <<dir, tmp, backup, marker, caller, memory, pending, bounded>>

\* Store::log becomes a new, empty log in the placeholder directory.
SwapPlaceholder ==
    /\ pc = "open_placeholder"
    /\ placeholder' = Opened(placeholder)
    /\ log' = "placeholder" /\ next_seq' = 0
    /\ pc' = "finish"
    /\ UNCHANGED <<dir, tmp, backup, marker, caller, index, held, pending, bounded>>

-----------------------------------------------------------------------------
(* finish_pending_compaction, for compact() and for Store::open.           *)

AfterFinish == IF caller = "compact" THEN "reopen" ELSE "rm_placeholder"

\* Mutant: the directories are not looked at.
AlwaysFinish == FALSE

\* Neither directory is there: only the marker's removal was left to do.
NothingToFinish == tmp = NoDir /\ backup = NoDir

\* The early return.
FinishNothing ==
    /\ pc = "finish"
    /\ NothingToFinish
    /\ marker' = FALSE
    /\ pc' = AfterFinish
    /\ UNCHANGED <<dir, tmp, backup, placeholder, caller, memory, pending, bounded>>

\* Step 1 starts, or is skipped because its directory is there.
FinishStart ==
    /\ pc = "finish"
    /\ ~NothingToFinish
    /\ IF backup = NoDir
       THEN backup' = EmptyDir /\ pc' = "backup"
       ELSE pc' = "migrate" /\ UNCHANGED backup
    /\ UNCHANGED <<dir, tmp, placeholder, marker, caller, memory, pending, bounded>>

\* One rename of step 1; read_dir gives the files in any order.
BackupOne(id) ==
    /\ pc = "backup" /\ id \in DOMAIN dir
    /\ backup' = WithFile(backup, id, dir[id])
    /\ dir' = Without(dir, id)
    /\ UNCHANGED <<tmp, placeholder, marker, pc, caller, memory, pending, bounded>>

BackupDone ==
    /\ pc = "backup" /\ DOMAIN dir = {}
    /\ pc' = "migrate"
    /\ UNCHANGED <<disk, caller, memory, pending, bounded>>

\* One rename of step 2, over a file of that name if there is one.
MigrateOne(id) ==
    /\ pc = "migrate" /\ id \in Files(tmp)
    /\ dir' = WithFile(dir, id, tmp[id])
    /\ tmp' = Without(tmp, id)
    /\ UNCHANGED <<backup, placeholder, marker, pc, caller, memory, pending, bounded>>

\* Step 3: remove the temporary directory,
RemoveTmp ==
    /\ pc = "migrate" /\ Files(tmp) = {}
    /\ tmp' = NoDir
    /\ pc' = "rm_backup"
    /\ UNCHANGED <<dir, backup, placeholder, marker, caller, memory, pending, bounded>>

\* Mutant: the backup directory is removed only when it is empty.
RemoveEmptyBackup ==
    /\ pc = "rm_backup" /\ Files(backup) = {}
    /\ backup' = NoDir /\ pc' = "rm_marker"
    /\ UNCHANGED <<dir, tmp, placeholder, marker, caller, memory, pending, bounded>>

\* the old segments one by one, then their directory,
RemoveBackup ==
    /\ pc = "rm_backup"
    /\ backup' \in Shrunk(backup)
    /\ pc' = IF backup' = NoDir THEN "rm_marker" ELSE "rm_backup"
    /\ UNCHANGED <<dir, tmp, placeholder, marker, caller, memory, pending, bounded>>

\* and the marker.
RemoveMarker ==
    /\ pc = "rm_marker"
    /\ marker' = FALSE
    /\ pc' = AfterFinish
    /\ UNCHANGED <<dir, tmp, backup, placeholder, caller, memory, pending, bounded>>

-----------------------------------------------------------------------------
(* The end of Store::compact, and Store::open.                             *)

\* Log::open on the compacted segments; the index stays as it is.
Reopen ==
    /\ pc = "reopen"
    /\ dir' = Opened(dir)
    /\ next_seq' = NextSeqOf(dir) /\ log' = "dir"
    /\ pc' = "cleanup"
    /\ UNCHANGED <<tmp, backup, placeholder, marker, caller, index, held, pending, bounded>>

CleanUp ==
    /\ pc = "cleanup"
    /\ placeholder' \in Shrunk(placeholder)
    /\ pc' = IF placeholder' = NoDir THEN "idle" ELSE "cleanup"
    /\ UNCHANGED <<dir, tmp, backup, marker, caller, memory, pending, bounded>>


\* Mutant: a temporary directory without a marker is left where it is.
OpenKeepsTmp ==
    /\ pc = "down"
    /\ caller' = "open"
    /\ pc' = IF marker THEN "finish" ELSE "rm_placeholder"
    /\ UNCHANGED <<disk, memory, pending, bounded>>

\* finish_or_discard_pending_compaction.
OpenBegin ==
    /\ pc = "down"
    /\ caller' = "open"
    /\ pc' = IF marker THEN "finish" ELSE "discard"
    /\ UNCHANGED <<disk, memory, pending, bounded>>

\* Without a marker, whatever there is of a temporary directory goes,
DiscardTmp ==
    /\ pc = "discard"
    /\ tmp' \in Shrunk(tmp)
    /\ pc' = IF tmp' = NoDir THEN "rm_placeholder" ELSE "discard"
    /\ UNCHANGED <<dir, backup, placeholder, marker, caller, memory, pending, bounded>>

\* and the placeholder in any case.
RemovePlaceholder ==
    /\ pc = "rm_placeholder"
    /\ placeholder' \in Shrunk(placeholder)
    /\ pc' = IF placeholder' = NoDir THEN "replay" ELSE "rm_placeholder"
    /\ UNCHANGED <<dir, tmp, backup, marker, caller, memory, pending, bounded>>

\* Log::open, and the index from its records.
ReplayLog ==
    /\ pc = "replay"
    /\ dir' = Opened(dir)
    /\ index' = Replayed(dir) /\ next_seq' = NextSeqOf(dir) /\ log' = "dir"
    /\ pc' = "idle"
    /\ UNCHANGED <<tmp, backup, placeholder, marker, caller, held, pending, bounded>>

-----------------------------------------------------------------------------
(* Failures.                                                               *)

\* The process ends, at any point.  A write in progress leaves a prefix of
\* its records; so does the writing of the temporary log.
Crash ==
    /\ pc # "down" /\ crashes < MaxCrashes
    /\ crashes' = crashes + 1
    /\ \/ /\ pc = "writing"
          /\ \E n \in 0..Len(pending) : AppendToTarget(n)
          /\ UNCHANGED tmp
       \/ /\ pc = "build"
          /\ \E n \in 0..Len(CompactedRecords) : tmp' = OneSegment(SubSeq(CompactedRecords, 1, n))
          /\ UNCHANGED <<dir, placeholder>>
       \/ /\ pc \notin {"writing", "build"}
          /\ UNCHANGED <<dir, tmp, placeholder>>
    /\ pc' = "down" /\ caller' = "open" /\ pending' = <<>>
    /\ index' = [k \in Key |-> <<>>] /\ next_seq' = 0 /\ log' = "dir" /\ held' = {}
    /\ UNCHANGED <<backup, marker, compactions, faults>>

\* A file operation of compact() fails: the error is returned by `?` and the
\* store is used on.  Some of the survivors may have been written, and
\* Log::open may have created the segment it could not use.
CompactFails ==
    /\ pc \in Compacting \cup Finishing /\ caller = "compact"
    /\ faults < MaxFaults /\ faults' = faults + 1
    /\ \/ /\ pc = "build"
          /\ \E n \in 0..Len(CompactedRecords) : tmp' = OneSegment(SubSeq(CompactedRecords, 1, n))
          /\ UNCHANGED placeholder
       \/ /\ pc = "open_placeholder"
          /\ placeholder' = Opened(placeholder)
          /\ UNCHANGED tmp
       \/ /\ pc # "build"
          /\ UNCHANGED <<tmp, placeholder>>
    /\ pc' = "idle"
    /\ UNCHANGED <<dir, backup, marker, caller, memory, pending, compactions, crashes>>

Compact == CompactBegin \/ ClearTmp \/ CreateTmp \/ OpenTmp \/ BuildTmp \/ WriteMarker
              \/ ClearPlaceholder \/ CreatePlaceholder \/ SwapPlaceholder \/ Reopen \/ CleanUp

FinishPendingCompaction ==
    \/ FinishNothing \/ FinishStart \/ BackupDone \/ RemoveTmp \/ RemoveBackup \/ RemoveMarker
    \/ \E id \in 0..(MaxSegs - 1) : BackupOne(id) \/ MigrateOne(id)

Open == OpenBegin \/ DiscardTmp \/ RemovePlaceholder \/ ReplayLog

Next ==
    \/ \E ops \in Batches : StartWrite(ops)
    \/ FinishWrite
    \/ HoldSnapshot \/ \E s \in held : DropSnapshot(s)
    \/ Compact \/ FinishPendingCompaction \/ Open
    \/ Crash \/ CompactFails

\* A program that is down is started again and its recovery runs on.
Fairness == WF_vars(FinishPendingCompaction) /\ WF_vars(Open)

Spec == Init /\ [][Next]_vars /\ Fairness

-----------------------------------------------------------------------------
(* Properties.                                                             *)

\* The files a recovery that starts or goes on now ends up with.
WillHave ==
    IF ~marker \/ (tmp = NoDir /\ backup = NoDir) THEN dir
    ELSE IF backup = NoDir \/ pc = "backup" THEN tmp
    ELSE IF tmp = NoDir THEN dir ELSE Over(tmp, dir)

\* What the store contains: what get returns or, while it is not open, what
\* it will return.
Contents ==
    [k \in Key |->
        IF pc = "down" \/ pc \in Opening \/ (pc \in Finishing /\ caller = "open")
        THEN Get(Replayed(WillHave)[k]) ELSE Get(index[k])]

Map == INSTANCE KV WITH kv <- Contents

\* No version in the index is numbered above the last one of its key.
LastIsNewest ==
    \A k \in Key : \A i \in DOMAIN index[k] : index[k][i].seq <= index[k][Len(index[k])].seq

MovingThree == pc = "backup" /\ ~(DOMAIN dir \cup DOMAIN backup \subseteq {0, 1})


\* "Each individually resumable from a crash at any point" (store.rs
\* finish_pending_compaction): no step but that of a write changes what the
\* store contains.
ContentsAreAlwaysKept == [][pc # "writing" => Contents' = Contents]_vars

\* The same, as long as no compact() has failed.
ContentsAreKept == [][pc # "writing" /\ faults' = 0 => Contents' = Contents]_vars

\* The new segment is still to be moved, or it has been.  This is not so
\* when a compact() that is tried again after a failed one is stopped while
\* it replaces the temporary directory under the marker.
TmpIsWhole == (backup = NoDir \/ pc = "backup") /\ tmp # NoDir => 0 \in DOMAIN tmp

\* A recovery that is interrupted and resumed gives what it was going to
\* give, after a compact() that failed too: once Store::open has begun, no
\* step of it and no crash in it changes the contents it ends with, as long as
\* there is only one segment left to move away and one to move in.
RecoveryIsIdempotent ==
    [][(pc \in Opening \cup Finishing) /\ caller = "open"
          /\ DOMAIN dir \subseteq {0} /\ (marker => TmpIsWhole)
            => Contents' = Contents]_vars


\* "A real compact() call always removes both together with the marker at the
\* very end" (store.rs finish_pending_compaction): an idle store has none of
\* the four, and when compact() has failed, the next open clears them before
\* it reads the log.
NoScratchLeft ==
    pc = "replay" \/ (pc = "idle" /\ faults = 0) =>
        tmp = NoDir /\ backup = NoDir /\ placeholder = NoDir /\ ~marker

\* Every recovery ends, however often it is interrupted (store.rs open).
RecoveryEnds == pc = "down" ~> pc = "idle"

-----------------------------------------------------------------------------
(* The inductive invariant behind NoScratchLeft and RecoveryIsIdempotent.  *)

\* The temporary directory goes first, then the backup, and the marker last.
MarkerGoesLast ==
    /\ ~marker => backup = NoDir
    /\ pc \in {"swap", "open_placeholder"} \/ pc \in Finishing => marker
    /\ pc = "discard" => ~marker
    /\ pc = "rm_backup" => tmp = NoDir
    /\ pc \in {"rm_marker", "reopen", "cleanup", "rm_placeholder", "replay"} =>
          tmp = NoDir /\ backup = NoDir /\ (pc # "rm_marker" => ~marker)

\* Between two calls there is nothing to clean up, unless one has failed.
IdleIsClean ==
    /\ pc = "replay" => placeholder = NoDir
    /\ pc = "cleanup" => log = "dir"
    /\ pc \in {"idle", "writing"} /\ faults = 0 =>
          tmp = NoDir /\ backup = NoDir /\ placeholder = NoDir /\ ~marker /\ log = "dir"

ScratchInv == faults \in Nat /\ MarkerGoesLast /\ IdleIsClean

\* Segments have ids below MaxSegs.
IdsAreBounded ==
    /\ DOMAIN dir \subseteq 0..(MaxSegs - 1)
    /\ \A d \in {tmp, backup, placeholder} : d = NoDir \/ DOMAIN d \subseteq 0..(MaxSegs - 1)

\* An open store has a segment to append to, with room for the write in
\* progress, unless compact() has failed while it replaced the placeholder.
LogIsThere ==
    /\ pc \in Compacting => caller = "compact"
    /\ pc = "open_placeholder" => placeholder # NoDir
    /\ pc \in Finishing \cup {"reopen"} /\ caller = "compact" => log = "placeholder"
    /\ pc \in {"idle", "writing"} \cup Compacting \/ (pc \in Finishing /\ caller = "compact") =>
          /\ log \in {"dir", "placeholder", "unlinked"}
          /\ log # "unlinked" => DOMAIN Target # {}
          /\ log = "placeholder" => placeholder # NoDir
    /\ pc = "writing" /\ log # "unlinked" /\ NeedsRollOver(Target, Len(pending)) =>
          Active(Target) + 1 < MaxSegs

\* Segments are moved away from and into the store's directory only while
\* there is a backup, and away only while there is a temporary directory.
BackupIsThere ==
    /\ pc = "backup" => tmp # NoDir /\ backup # NoDir
    /\ pc = "migrate" => backup # NoDir
    /\ caller \in {"open", "compact"} /\ (pc \in Opening => caller = "open")

\* Together they are preserved by every step (store.rs).
StoreInv == ScratchInv /\ IdsAreBounded /\ LogIsThere /\ BackupIsThere
=============================================================================
