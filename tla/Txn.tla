-------------------------------- MODULE Txn --------------------------------
(***************************************************************************)
(* TransactionalStore and Transaction (crates/storage/src/txn.rs) over the *)
(* in-memory half of Store (store.rs), for the lifetime of one process.    *)
(*                                                                         *)
(* Threads share a Store behind a Mutex.  Every operation that touches the *)
(* store holds that Mutex from its first read to its last write, so it is  *)
(* one action; the SnapshotGuard a transaction holds is dropped after the  *)
(* Mutex is released, so Release is an action of its own and other threads *)
(* run between the end of a commit and the release of its snapshot.        *)
(* Log::next_seq, which Store::compact recomputes from what it kept on     *)
(* disk, is the only part of the log this module needs.  A compact that    *)
(* fails half way leaves the store on an empty placeholder log, numbered   *)
(* from 0, and the transactions go on: what then still holds is said by    *)
(* each property, and by what it says only "until a compact fails".        *)
(***************************************************************************)
EXTENDS Versions, FiniteSets

CONSTANTS
    Transactions,   \* Transaction objects, each reused after it has ended
    Key,            \* byte-string keys, in their BTreeMap order
    Writable,       \* what clients write: values, and None if they delete
    Recovered,      \* version lists Store::open may have replayed
    MaxSeq,         \* bound: no batch takes next_seq, or a list, past it
    MaxSeqAfterFailure, \* bound: the same of next_seq, once a compact has failed
    MaxFailures     \* bound on the compactions that fail half way

NoWrite == "no buffered write"

ASSUME KeyAssumption == Key \subseteq Nat /\ IsFiniteSet(Key)
ASSUME TransactionsAssumption == IsFiniteSet(Transactions)
ASSUME WritableAssumption ==
    Writable \subseteq Val \cup {None} /\ NoWrite \notin Val \cup {None}
\* Any log the transactional API has written replays to ordered lists.
ASSUME RecoveredAssumption ==
    /\ Recovered \subseteq [Key -> Seq(Version)]
    /\ \A ix \in Recovered : \A k \in Key :
          OrderedList(ix[k]) /\ \A i \in DOMAIN ix[k] : ix[k][i].seq < MaxSeq
ASSUME MaxSeqAssumption == MaxSeq \in Nat /\ MaxSeqAfterFailure \in 0..MaxSeq
ASSUME MaxFailuresAssumption == MaxFailures \in Nat

VARIABLES
    index,          \* Store::index
    next_seq,       \* Log::next_seq
    held,           \* Store::held_snapshots: as_of_seq -> number of guards
    status,         \* what has become of each transaction
    snap,           \* Transaction::snapshot
    writes,         \* Transaction::writes
    failures,       \* observation: compactions that failed half way
    overwritten,    \* observation: keys others committed since begin()
    base            \* observation: what get() returned when it began

vars == <<index, next_seq, held, status, snap, writes, failures, overwritten, base>>

\* A transaction's SnapshotGuard lives until the transaction is dropped.
guards == {t \in Transactions : status[t] # "idle"}

Ended == {"committed", "conflicted", "failed", "aborted"}

TypeOK ==
    /\ index \in [Key -> Seq(Version)]
    /\ next_seq \in Nat
    /\ DOMAIN held \subseteq Nat /\ held \in [DOMAIN held -> Nat \ {0}]
    /\ status \in [Transactions -> {"idle", "open"} \cup Ended]
    /\ snap \in [Transactions -> Nat]
    /\ writes \in [Transactions -> [Key -> Val \cup {None, NoWrite}]]
    /\ failures \in Nat
    /\ overwritten \in [Transactions -> SUBSET Key]
    /\ base \in [Transactions -> [Key -> Val \cup {None}]]

\* TransactionalStore::open: Store::open replayed the log and the registry
\* of held snapshots is new.
Init ==
    /\ index \in Recovered
    /\ next_seq = NextSeq(UNION {{index[k][i].seq : i \in DOMAIN index[k]} : k \in Key})
    /\ held = [s \in {} |-> 1]
    /\ status = [t \in Transactions |-> "idle"]
    /\ snap = [t \in Transactions |-> 0]
    /\ writes = [t \in Transactions |-> [k \in Key |-> NoWrite]]
    /\ failures = 0
    /\ overwritten = [t \in Transactions |-> {}]
    /\ base = [t \in Transactions |-> [k \in Key |-> None]]

-----------------------------------------------------------------------------
(* Operations.                                                             *)

\* hold_snapshot counts one more guard on snapshot s in the registry h.
Held(h, s) ==
    [x \in DOMAIN h \cup {s} |->
        IF x \notin DOMAIN h THEN 1 ELSE IF x = s THEN h[x] + 1 ELSE h[x]]

\* Mutant: the entry goes with the first guard.
DroppedAtOnce(h, s) == [x \in DOMAIN h \ {s} |-> h[x]]

\* SnapshotGuard::drop counts one less, and forgets s with the last.
Dropped(h, s) ==
    IF s \in DOMAIN h /\ h[s] > 1 THEN [h EXCEPT ![s] = @ - 1]
    ELSE [x \in DOMAIN h \ {s} |-> h[x]]

\* TransactionalStore::begin: Store::hold_snapshot takes next_seq as the
\* snapshot and counts a guard on it; the transaction buffers nothing yet.
Begin(t) ==
    /\ status[t] = "idle"
    /\ snap' = [snap EXCEPT ![t] = next_seq]
    /\ held' = Held(held, next_seq)
    /\ status' = [status EXCEPT ![t] = "open"]
    /\ writes' = [writes EXCEPT ![t] = [k \in Key |-> NoWrite]]
    /\ overwritten' = [overwritten EXCEPT ![t] = {}]
    /\ base' = [base EXCEPT ![t] = [k \in Key |-> Get(index[k])]]
    /\ UNCHANGED <<index, next_seq, failures>>

\* Transaction::get: a buffered write, else the version at the snapshot.
Read(t, k) ==
    IF writes[t][k] # NoWrite THEN writes[t][k] ELSE GetAt(index[k], snap[t])

\* Transaction::put and Transaction::delete (v is None): buffered only.
Write(t, k, v) ==
    /\ status[t] = "open"
    /\ writes' = [writes EXCEPT ![t][k] = v]
    /\ UNCHANGED <<index, next_seq, held, status, snap, failures, overwritten, base>>

\* The keys a transaction has buffered a put or a delete for.
WriteSet(t) == {k \in Key : writes[t][k] # NoWrite}

\* Mutant: a version numbered like the snapshot is taken for an older one.
StaleAfter(t, k) == LatestAtOrAfter(index[k], snap[t] + 1)

\* Mutant: the version just before the snapshot is taken for a newer one.
StaleFrom(t, k) == LatestAtOrAfter(index[k], snap[t] - 1)

\* Mutant: the check is left out.
StaleNever(t, k) == FALSE

\* The check of Transaction::commit on one key of its write set.
Stale(t, k) == LatestAtOrAfter(index[k], snap[t])

\* Log::append_batch numbers a batch from next_seq on, in key order.
BatchOrder(W, ord) ==
    /\ \A j, k \in W : j < k => ord[j] < ord[k]
    /\ \A n \in 0..(Cardinality(W) - 1) : \E k \in W : ord[k] = n

\* Mutant: the log counts a batch as one record.
ApplyBatchAsOne(W, ws, ord) ==
    /\ index' = [k \in Key |->
                   IF k \in W
                   THEN Append(index[k], [seq |-> next_seq + ord[k], value |-> ws[k]])
                   ELSE index[k]]
    /\ next_seq' = next_seq + (IF W = {} THEN 0 ELSE 1)

\* Store::apply_batch: every write becomes the last version of its key.
ApplyBatch(W, ws, ord) ==
    /\ index' = [k \in Key |->
                   IF k \in W
                   THEN Append(index[k], [seq |-> next_seq + ord[k], value |-> ws[k]])
                   ELSE index[k]]
    /\ next_seq' = next_seq + Cardinality(W)

\* Transaction::commit that finds no conflict (nothing to check, and
\* nothing to apply, when nothing is buffered).
Commit(t) ==
    /\ status[t] = "open"
    /\ \A k \in WriteSet(t) : ~Stale(t, k)
    /\ next_seq + Cardinality(WriteSet(t)) <= IF failures = 0 THEN MaxSeq ELSE MaxSeqAfterFailure
    /\ \A k \in WriteSet(t) : Len(index[k]) < MaxSeq
    /\ \E ord \in [WriteSet(t) -> 0..(Cardinality(WriteSet(t)) - 1)] :
          /\ BatchOrder(WriteSet(t), ord)
          /\ ApplyBatch(WriteSet(t), writes[t], ord)
    /\ status' = [status EXCEPT ![t] = "committed"]
    /\ overwritten' = [u \in Transactions |->
                         IF u # t /\ status[u] = "open"
                         THEN overwritten[u] \cup WriteSet(t) ELSE overwritten[u]]
    /\ UNCHANGED <<held, snap, writes, failures, base>>

\* Transaction::commit that returns TxnError::Conflict.
Conflict(t) ==
    /\ status[t] = "open"
    /\ \E k \in WriteSet(t) : Stale(t, k)
    /\ status' = [status EXCEPT ![t] = "conflicted"]
    /\ UNCHANGED <<index, next_seq, held, snap, writes, failures, overwritten, base>>

\* Transaction::commit that returns TxnError::Store: apply_batch stopped at
\* an I/O error before Store's index and Log's next_seq were touched.
Fail(t) ==
    /\ status[t] = "open"
    /\ WriteSet(t) # {} /\ \A k \in WriteSet(t) : ~Stale(t, k)
    /\ status' = [status EXCEPT ![t] = "failed"]
    /\ UNCHANGED <<index, next_seq, held, snap, writes, failures, overwritten, base>>

\* Transaction::abort, or a transaction that goes out of scope.
Abort(t) ==
    /\ status[t] = "open"
    /\ status' = [status EXCEPT ![t] = "aborted"]
    /\ UNCHANGED <<index, next_seq, held, snap, writes, failures, overwritten, base>>

\* SnapshotGuard::drop, under the registry's own Mutex, at the end of commit
\* or abort; the transaction is gone and its variables are reset.
Release(t) ==
    /\ status[t] \in Ended
    /\ held' = Dropped(held, snap[t])
    /\ status' = [status EXCEPT ![t] = "idle"]
    /\ snap' = [snap EXCEPT ![t] = 0]
    /\ writes' = [writes EXCEPT ![t] = [k \in Key |-> NoWrite]]
    /\ overwritten' = [overwritten EXCEPT ![t] = {}]
    /\ base' = [base EXCEPT ![t] = [k \in Key |-> None]]
    /\ UNCHANGED <<index, next_seq, failures>>

\* Mutant: compaction does not ask for held snapshots.
KeptWithoutGuards(k) == KeptUnguarded(index[k])

\* Positions of key k's list that Store::compact writes to the new log.
Kept(k) ==
    IF DOMAIN held = {} THEN KeptUnguarded(index[k])
    ELSE KeptFrom(index[k], SmallestOf(DOMAIN held))

\* What Log::open computes from the records compact wrote.
Recomputed == NextSeq(UNION {{index[k][i].seq : i \in Kept(k)} : k \in Key})

\* The numbers of the versions in memory; every record in a segment is one.
AllSeqs == UNION {{index[k][i].seq : i \in DOMAIN index[k]} : k \in Key}

\* Store::compact, seen from memory: Log::open on the rewritten log computes
\* next_seq from the records it finds; the index is left as it was.  After a
\* compact that failed, it may find old segments too that the interrupted
\* swap left in the directory.  The same if only the removal of the
\* placeholder, the last thing compact does, fails.
Compact ==
    /\ \/ next_seq' = Recomputed
       \/ failures > 0 /\ next_seq' \in {s + 1 : s \in {x \in AllSeqs : x >= Recomputed}}
    /\ UNCHANGED <<index, held, status, snap, writes, failures, overwritten, base>>

\* Store::compact that returns an error once self.log is the placeholder
\* (the swap failed, or Log::open after it): next_seq is that of an empty
\* log, everything else is as it was.  An error before that changes nothing
\* in memory.
CompactFails ==
    /\ failures < MaxFailures
    /\ failures' = failures + 1
    /\ next_seq' = 0
    /\ UNCHANGED <<index, held, status, snap, writes, overwritten, base>>

Next ==
    \/ \E t \in Transactions :
          \/ Begin(t) \/ Commit(t) \/ Conflict(t) \/ Fail(t) \/ Abort(t) \/ Release(t)
          \/ \E k \in Key, v \in Writable : Write(t, k, v)
    \/ Compact
    \/ CompactFails

Spec == Init /\ [][Next]_vars

-----------------------------------------------------------------------------
(* Properties.  Those with failures = 0 hold until a compact fails: from   *)
(* then on new records are numbered from 0 again, below versions and       *)
(* snapshots that are still in use.                                        *)

\* Dropping a guard finds the count it was registered under: the registry
\* holds exactly the snapshots of the transactions whose guard is alive,
\* each with the number of those transactions (store.rs hold_snapshot/drop).
RegistryMatchesGuards ==
    /\ DOMAIN held = {snap[t] : t \in guards}
    /\ \A s \in DOMAIN held : held[s] = Cardinality({t \in guards : snap[t] = s})

\* "A concurrent Store::compact() can never invalidate an in-flight
\* transaction's reads" (txn.rs begin): no step of anybody changes what an
\* open transaction reads for a key, except its own put or delete of it,
\* until a compact fails.
ReadsAreStable ==
    [][failures' = 0 =>
        \A t \in Transactions, k \in Key :
          (status[t] = "open" /\ status'[t] = "open" /\ writes'[t][k] = writes[t][k])
             => Read(t, k)' = Read(t, k)]_vars

\* First committer wins (txn.rs commit): a transaction that commits has
\* written no key another transaction committed since it began, whether or
\* not a compact has failed.
NoLostUpdateEver ==
    \A t \in Transactions :
        status[t] = "committed" => WriteSet(t) \cap overwritten[t] = {}

\* First committer wins, until a compact fails.
NoLostUpdate == failures = 0 => NoLostUpdateEver

ListsOrdered == \A k \in Key : OrderedList(index[k])

\* The versions of a key are in commit order: the last one, which get reads
\* and the conflict check looks at, carries the largest sequence number
\* even after a compaction has moved next_seq back, until a compact fails.
VersionsInCommitOrder == failures = 0 => ListsOrdered

SnapshotsFaithful ==
    \A t \in Transactions : status[t] = "open" =>
        \A k \in Key : GetAt(index[k], snap[t]) = base[t][k]

\* "The transaction sees exactly the state as of this call" (txn.rs begin):
\* what an open transaction reads from its snapshot is what get returned
\* when it began, until a compact fails.
SnapshotIsStateAtBegin == failures = 0 => SnapshotsFaithful

ConflictsJustified ==
    \A t \in Transactions :
        status[t] = "conflicted" => WriteSet(t) \cap overwritten[t] # {}

\* "A conflict is: some other transaction committed a newer version of a key
\* this transaction also wrote, after this transaction's snapshot was taken"
\* (txn.rs commit), until a compact fails.
ConflictIsReal == failures = 0 => ConflictsJustified

-----------------------------------------------------------------------------
(* The inductive invariant behind NoLostUpdate and ReadsAreStable.          *)

\* No batch is numbered past the bound.
SeqsBounded == \A k \in Key : \A i \in DOMAIN index[k] : index[k][i].seq < MaxSeq

\* No snapshot that is still held lies above next_seq, or a later commit
\* would be numbered into its past.
SnapshotsNotAhead == \A t \in guards : snap[t] <= next_seq

\* The version just below s is in the index.  Compaction keeps it for the
\* oldest held snapshot and for every later one, which is why next_seq, when
\* it is computed anew from what was kept, stays at or above all of them.
Anchored(s) ==
    s = 0 \/ \E k \in Key : \E i \in DOMAIN index[k] : index[k][i].seq = s - 1

SnapshotsAnchored == Anchored(next_seq) /\ \A t \in guards : Anchored(snap[t])

\* The conflict check sees every overwrite.
OverwritesAreSeen ==
    \A t \in Transactions : status[t] = "open" =>
        \A k \in overwritten[t] : LatestAtOrAfter(index[k], snap[t])

\* What no failure disturbs.
AlwaysInv == TypeOK /\ RegistryMatchesGuards /\ SeqsBounded

\* What holds until a compact fails.
CalmInv ==
    /\ AlwaysInv
    /\ ListsOrdered
    /\ SnapshotsNotAhead
    /\ SnapshotsAnchored
    /\ OverwritesAreSeen
    /\ NoLostUpdateEver

\* Preserved by every step (txn.rs, store.rs compact), the failed compact
\* and all that comes after it included.
IInv == AlwaysInv /\ (failures = 0 => CalmInv)

-----------------------------------------------------------------------------
(* Clients that never delete, and what the store promises them.             *)

\* No client deletes, and the log Store::open replayed ends no key's list
\* with a tombstone.
PutsOnly ==
    /\ None \notin Writable
    /\ \A ix \in Recovered, k \in Key : ix[k] # <<>> => Get(ix[k]) # None

\* The promise of SnapshotIsolation: db is what get reads; a transaction's
\* copy is what it reads at its snapshot while it is open.  The copy of an
\* ended transaction is kept as it was when it began.
db == [k \in Key |-> Get(index[k])]
copy == [t \in Transactions |->
           IF status[t] = "open" THEN [k \in Key |-> GetAt(index[k], snap[t])] ELSE base[t]]

SI == INSTANCE SnapshotIsolation WITH db <- db, copy <- copy, touched <- overwritten

\* The transactional store implements snapshot isolation, step by step,
\* until a compact fails.
ImplementsSnapshotIsolation ==
    SI!Init /\ [][failures' = 0 => [SI!Next]_(SI!vars)]_vars

\* Compaction keeps the last version of every key, so that next_seq is never
\* computed to lie at or below a version that is still in the index.
SeqsBelowNext ==
    /\ \A k \in Key : index[k] # <<>> => Get(index[k]) # None
    /\ \A t \in Transactions, k \in Key : writes[t][k] # None
    /\ \A k \in Key : \A i \in DOMAIN index[k] : index[k][i].seq < next_seq

\* A version at or after the snapshot was committed since.
StaleMeansOverwritten ==
    \A t \in Transactions, k \in Key :
        status[t] = "open" /\ LatestAtOrAfter(index[k], snap[t]) => k \in overwritten[t]

\* A transaction that is over has left nothing behind.
IdleIsClean ==
    \A t \in Transactions : status[t] = "idle" =>
        /\ writes[t] = [k \in Key |-> NoWrite]
        /\ overwritten[t] = {}
        /\ base[t] = [k \in Key |-> None]

\* With CalmInv, preserved by every step when nobody deletes.
PutsInv ==
    /\ SeqsBelowNext
    /\ StaleMeansOverwritten
    /\ IdleIsClean
    /\ SnapshotsFaithful
    /\ ConflictsJustified
=============================================================================
