--------------------------------- MODULE Log ---------------------------------
(***************************************************************************)
(* The append-only log: record.rs, segment.rs and log.rs.                  *)
(*                                                                         *)
(* A segment file is a sequence of cells.  A cell is a record, which is    *)
(* what record::decode finds when all of its bytes are there and its CRC   *)
(* matches, or Torn, which is anything decode stops at.  Of each file the  *)
(* first synced cells are on stable storage; the others are in the page    *)
(* cache of the operating system.  A "kill" ends the process and keeps the *)
(* page cache; a "power" loss keeps, of what was not synced, any prefix.   *)
(* Creating and truncating a file, which the code does not fsync, are      *)
(* taken to reach the disk in order, as they do on a journaling file       *)
(* system.  A record takes one unit of segment_max_bytes.                  *)
(***************************************************************************)
EXTENDS Integers, SequencesExt

CONSTANTS
    Op,             \* what a LogOp carries: put or delete, key and value
    Torn,           \* bytes that are not a complete, valid record
    SegMax,         \* segment_max_bytes, in records
    MaxBatch,       \* bound: operations in one append_batch
    MaxSeq,         \* bound: sequence numbers
    Crashes,        \* bound: the sequences of crashes that can happen
    MaxFaults       \* bound: I/O errors returned to the log

ASSUME SegMaxAssumption == SegMax \in Nat \ {0}
ASSUME CrashesAssumption == \A h \in Crashes : h \in Seq({"kill", "power"})
ASSUME BoundsAssumption == {MaxBatch, MaxSeq, MaxFaults} \subseteq Nat

Record == [seq : Nat, op : Op]

ASSUME TornAssumption == Torn \notin Record

VARIABLES
    files,          \* the segments of the directory, in the order of their ids
    synced,         \* how many cells of each segment are on stable storage
    mode,           \* "closed", "ready", "writing" a batch, or "corrupt"
    active,         \* which segment Log::active has open
    len,            \* Segment::len of the active segment
    next_seq,       \* Log::next_seq
    batch,          \* the records of the latest append_batch
    written,        \* how many of them write_all has handed over
    crashes,        \* the crashes so far, in order
    faults,         \* I/O errors so far
    acked           \* observation: the records reported to a caller, in order

disk == <<files, synced>>
memory == <<active, len, next_seq>>
vars == <<files, synced, mode, active, len, next_seq, batch, written, crashes, faults, acked>>

TypeOK ==
    /\ files \in Seq(Seq(Record \cup {Torn}))
    /\ synced \in Seq(Nat) /\ DOMAIN synced = DOMAIN files
    /\ \A i \in DOMAIN files : synced[i] <= Len(files[i])
    /\ mode \in {"closed", "ready", "writing", "corrupt"}
    /\ active \in Nat /\ (mode \in {"ready", "writing"} => active \in DOMAIN files)
    /\ len \in Nat /\ next_seq \in Nat
    /\ batch \in Seq(Record) /\ written \in 0..Len(batch)
    /\ crashes \in Seq({"kill", "power"}) /\ faults \in 0..MaxFaults
    /\ acked \in Seq(Record)

-----------------------------------------------------------------------------
(* Recovery.                                                               *)

\* segment::recover: decode until the first cell that is not a record.
ValidLen(f) == CHOOSE n \in 0..Len(f) :
                  /\ \A i \in 1..n : f[i] # Torn
                  /\ n < Len(f) => f[n + 1] = Torn

\* Mutant: the last record of a segment is missed.
RecoverAllButLast(f) == SubSeq(f, 1, ValidLen(f) - 1)

\* The records recover returns.
Recover(f) == SubSeq(f, 1, ValidLen(f))

\* Whether bytes are left over behind them.
HasTornTail(f) == ValidLen(f) < Len(f)

\* OpenReport::records: every segment's records, in order.
Replay(fs) == FlattenSeq([i \in DOMAIN fs |-> Recover(fs[i])])

\* Mutant: the largest sequence number is given out again.
LargestSeq(rs) == IF rs = <<>> THEN 0 ELSE Max({r.seq : r \in ToSet(rs)})

\* One past the largest sequence number seen.
NextSeq(rs) == IF rs = <<>> THEN 0 ELSE Max({r.seq : r \in ToSet(rs)}) + 1

\* The directory does not exist yet.
Init ==
    /\ files = <<>> /\ synced = <<>>
    /\ mode = "closed"
    /\ active = 0 /\ len = 0 /\ next_seq = 0
    /\ batch = <<>> /\ written = 0
    /\ crashes = <<>> /\ faults = 0
    /\ acked = <<>>

\* A sealed segment, one that is not the last, must not be torn.
SealedTorn(fs) == \E i \in 1..(Len(fs) - 1) : HasTornTail(fs[i])

\* Mutant: appends continue behind the torn bytes.
NotTruncated(f) == f

\* Mutant: the last valid record is cut off with the torn bytes.
TruncatedTooFar(f) == SubSeq(f, 1, ValidLen(f) - 1)

\* Segment::open_for_append: set_len to the valid length.
Truncated(f) == SubSeq(f, 1, ValidLen(f))

\* Log::open: replay the segments, truncate the torn tail of the last one
\* and open it for appending, or create the first segment.
OpenLog ==
    /\ mode = "closed"
    /\ ~SealedTorn(files)
    /\ IF files = <<>>
       THEN /\ files' = << <<>> >>
            /\ synced' = <<0>>
       ELSE /\ files' = [files EXCEPT ![Len(files)] = Truncated(@)]
            /\ synced' = [synced EXCEPT ![Len(files)] =
                            IF @ <= Len(files'[Len(files)]) THEN @ ELSE Len(files'[Len(files)])]
    /\ active' = Len(files')
    /\ len' = Len(files'[Len(files')])
    /\ next_seq' = NextSeq(Replay(files))
    /\ mode' = "ready"
    /\ acked' = Replay(files)
    /\ UNCHANGED <<batch, written, crashes, faults>>

\* Log::open that returns SealedSegmentCorrupted.
OpenFails ==
    /\ mode = "closed"
    /\ SealedTorn(files)
    /\ mode' = "corrupt"
    /\ UNCHANGED <<disk, memory, batch, written, crashes, faults, acked>>

-----------------------------------------------------------------------------
(* Appending.                                                              *)

\* roll_over_if_needed for a batch of n records.
NeedsRollOver(n) == len # 0 /\ len + n > SegMax

\* The records Log::append_batch makes of ops.
Numbered(ops) == [i \in DOMAIN ops |-> [seq |-> next_seq + i - 1, op |-> ops[i]]]

Batches == UNION {[1..n -> Op] : n \in 0..MaxBatch}

\* Log::append_batch (append_put and append_delete are batches of one):
\* number the records and make sure they have a segment.
StartAppend(ops) ==
    /\ mode = "ready"
    /\ next_seq + Len(ops) <= MaxSeq
    /\ mode' = "writing"
    /\ batch' = Numbered(ops) /\ written' = 0
    /\ IF NeedsRollOver(Len(ops))
       THEN /\ files' = Append(files, <<>>)
            /\ synced' = Append(synced, 0)
            /\ active' = Len(files') /\ len' = 0
       ELSE UNCHANGED <<disk, active, len>>
    /\ UNCHANGED <<next_seq, crashes, faults, acked>>

\* One write_all of Segment::append_batch: the file's cursor is at its end.
WriteRecord ==
    /\ mode = "writing" /\ written < Len(batch)
    /\ files' = [files EXCEPT ![active] = Append(@, batch[written + 1])]
    /\ written' = written + 1
    /\ UNCHANGED <<synced, mode, memory, batch, crashes, faults, acked>>

\* Mutant: append_batch returns without sync_data.
SyncLeftOut ==
    /\ mode = "writing" /\ written = Len(batch)
    /\ len' = len + Len(batch)
    /\ next_seq' = next_seq + Len(batch)
    /\ mode' = "ready"
    /\ acked' = acked \o batch
    /\ UNCHANGED <<files, synced, active, batch, written, crashes, faults>>

\* sync_data, after which append_batch returns Ok.
Sync ==
    /\ mode = "writing" /\ written = Len(batch)
    /\ synced' = [synced EXCEPT ![active] = Len(files[active])]
    /\ len' = len + Len(batch)
    /\ next_seq' = next_seq + Len(batch)
    /\ mode' = "ready"
    /\ acked' = acked \o batch
    /\ UNCHANGED <<files, active, batch, written, crashes, faults>>

-----------------------------------------------------------------------------
(* I/O errors: the caller gets Err and the log stays open.                 *)

Fault == faults < MaxFaults /\ faults' = faults + 1

\* write_all fails, having written some or none of the record's bytes.
WriteFault ==
    /\ Fault
    /\ mode = "writing" /\ written < Len(batch)
    /\ \/ files' = [files EXCEPT ![active] = Append(@, Torn)]
       \/ UNCHANGED files
    /\ mode' = "ready"
    /\ UNCHANGED <<synced, memory, batch, written, crashes, acked>>

\* sync_data fails: all of the batch is in the page cache, none of it known
\* to be on disk.
SyncFault ==
    /\ Fault
    /\ mode = "writing" /\ written = Len(batch)
    /\ mode' = "ready"
    /\ UNCHANGED <<disk, memory, batch, written, crashes, acked>>

\* Segment::open_for_append fails in roll_over_if_needed, with or without
\* having created the file; the old segment stays the active one.
RollOverFault(ops) ==
    /\ Fault
    /\ mode = "ready" /\ NeedsRollOver(Len(ops))
    /\ \/ files' = Append(files, <<>>) /\ synced' = Append(synced, 0)
       \/ UNCHANGED disk
    /\ UNCHANGED <<mode, memory, batch, written, crashes, acked>>

-----------------------------------------------------------------------------
(* Crashes.                                                                *)

\* What the power loss can leave of a file with n synced cells.
Survivors(f, n) ==
    {SubSeq(f, 1, j) : j \in n..Len(f)}
        \cup {Append(SubSeq(f, 1, j), Torn) : j \in n..(Len(f) - 1)}

\* What a kill can leave: a write_all may have stopped within a record.
AfterKill ==
    {files} \cup (IF mode = "writing" /\ written < Len(batch)
                  THEN {[files EXCEPT ![active] = Append(@, Torn)]} ELSE {})

Stop(kind) ==
    /\ mode \in {"ready", "writing"}
    /\ crashes' = Append(crashes, kind) /\ crashes' \in Crashes
    /\ mode' = "closed"
    /\ active' = 0 /\ len' = 0 /\ next_seq' = 0
    /\ UNCHANGED <<batch, written, faults, acked>>

Kill ==
    /\ Stop("kill")
    /\ files' \in AfterKill
    /\ UNCHANGED synced

PowerLoss ==
    /\ Stop("power")
    /\ \E fs \in AfterKill :
          \E left \in [DOMAIN fs -> UNION {Survivors(fs[i], synced[i]) : i \in DOMAIN fs}] :
             /\ \A i \in DOMAIN fs : left[i] \in Survivors(fs[i], synced[i])
             /\ files' = left
             /\ synced' = [i \in DOMAIN left |-> Len(left[i])]

Next ==
    \/ OpenLog \/ OpenFails
    \/ \E ops \in Batches : StartAppend(ops) \/ RollOverFault(ops)
    \/ WriteRecord \/ Sync \/ WriteFault \/ SyncFault
    \/ Kill \/ PowerLoss

\* A started append runs to its end and a stopped program is started again.
Fairness == WF_vars(WriteRecord \/ Sync) /\ WF_vars(OpenLog \/ OpenFails)

Spec == Init /\ [][Next]_vars /\ Fairness

-----------------------------------------------------------------------------
(* Properties.                                                             *)

\* So far no I/O error was returned, and the crashes were all kills or all
\* power losses.
Calm == faults = 0 /\ \A i, j \in DOMAIN crashes : crashes[i] = crashes[j]

\* "A record is never reported as written until it is durable" (segment.rs
\* append): at every moment, what recovery would return starts with every
\* record an append or an earlier recovery has reported, in that order.
AckedAlwaysSurvive == IsPrefix(acked, Replay(files))

\* The same, while it is calm.
AckedSurvive == Calm => AckedAlwaysSurvive

\* next_seq is right after every recovery: the records on disk are numbered
\* 0, 1, 2, ... without a gap or a repetition, in commit order.
SeqsAreContiguous ==
    Calm => \A i \in DOMAIN Replay(files) : Replay(files)[i].seq = i - 1

\* Only the last segment can be torn (log.rs, module comment): no crash
\* leaves a log that Log::open refuses as SealedSegmentCorrupted.
OpenAlwaysSucceeds == mode # "corrupt"

\* The same, while it is calm.
OpenSucceeds == Calm => OpenAlwaysSucceeds

\* "The only truncation this codebase ever performs" is "of bytes that were
\* never a complete, checksum-valid record" (segment.rs open_for_append): no
\* step, crash or I/O error included, takes away a synced record that
\* recovery has been able to reach.
SyncedRecordsStay ==
    [][\A i \in DOMAIN files :
          /\ i \in DOMAIN files'
          /\ \A j \in 1..ValidLen(files[i]) : j <= synced[i] =>
                /\ j \in DOMAIN files'[i]
                /\ files'[i][j] = files[i][j]]_vars

\* "A batch that didn't finish fsync-ing ... the whole batch must be treated
\* as not committed" (segment.rs append_batch): once the log is open, it
\* holds all of the latest batch or none of it.
BatchIsAllOrNothing ==
    mode = "ready" =>
        ToSet(batch) \cap ToSet(Replay(files)) \in {{}, ToSet(batch)}

\* A log that crashed comes back, whatever the crash left behind.
ComesBack == (mode = "closed" /\ Calm) ~> (mode = "ready")

\* Log implements DurableLog: what is being written is in flight.
Unacknowledged == IF mode = "writing" THEN written ELSE 0
Abstract == INSTANCE DurableLog WITH
    Rec <- Record,
    records <- SubSeq(Replay(files), 1, Len(Replay(files)) - Unacknowledged),
    inflight <- IF mode = "writing" THEN batch ELSE <<>>,
    up <- mode \in {"ready", "writing"}

\* As long as it is calm, every behaviour of the log is one of a DurableLog
\* (log.rs, segment.rs).
ImplementsDurableLog ==
    Abstract!Init /\ [][Calm' => [Abstract!Next]_(Abstract!vars)]_vars

-----------------------------------------------------------------------------
(* The inductive invariant behind them.                                    *)

\* A segment without torn bytes.
Clean(f) == \A i \in DOMAIN f : f[i] # Torn

\* While it is calm, the segment being appended to is the last one and only
\* a stopped program leaves torn bytes, there.
OnlyLastIsTorn ==
    /\ mode # "corrupt"
    /\ \A i \in DOMAIN files : i < Len(files) => Clean(files[i])
    /\ mode \in {"ready", "writing"} => active = Len(files) /\ Clean(files[active])

\* Unless a process was killed, every cell is synced that is not of the batch
\* being written.
OthersAreSynced ==
    (\A n \in DOMAIN crashes : crashes[n] = "power") =>
        \A i \in DOMAIN files :
            synced[i] + (IF mode = "writing" /\ i = active THEN written ELSE 0) = Len(files[i])

\* What recovery would return is what was reported, and then what has been
\* written of the batch; next_seq is the number of records reported.
ReplayIsAcked ==
    /\ mode = "ready" => Replay(files) = acked
    /\ mode = "writing" => /\ Replay(files) = acked \o SubSeq(batch, 1, written)
                           /\ \A i \in DOMAIN batch : batch[i].seq = next_seq + i - 1
    /\ mode = "closed" => IsPrefix(acked, Replay(files))
    /\ mode \in {"ready", "writing"} => next_seq = Len(acked)

\* Together they are preserved by every step (log.rs, segment.rs).
CalmInv == OnlyLastIsTorn /\ OthersAreSynced /\ ReplayIsAcked /\ SeqsAreContiguous
LogInv == TypeOK /\ (Calm => CalmInv)
=============================================================================
