------------------------------ MODULE Versions ------------------------------
(***************************************************************************)
(* The version lists of crates/storage/src/store.rs: what Store keeps per  *)
(* key (BTreeMap<Vec<u8>, Vec<VersionEntry>>) and the reads, the conflict  *)
(* check and the retention rule of compaction on one such list.  A key     *)
(* with no entry in the map has the empty list.  Pure operators, shared by *)
(* Txn and Store.                                                          *)
(***************************************************************************)
EXTENDS Integers, Sequences

CONSTANTS
    Val,        \* the values a put may store
    None        \* Rust's None: a tombstone, or a key that is not there

ASSUME NoneAssumption == None \notin Val

\* VersionEntry: the sequence number of a write and what it stored.
Version == [seq : Nat, value : Val \cup {None}]

\* Sequence numbers grow along the list.
OrderedList(vs) == \A i, j \in DOMAIN vs : i < j => vs[i].seq < vs[j].seq

\* The largest and the smallest element of a non-empty finite set of integers.
LargestOf(S) == CHOOSE i \in S : \A j \in S : j <= i
SmallestOf(S) == CHOOSE i \in S : \A j \in S : i <= j

-----------------------------------------------------------------------------
(* Reads.                                                                  *)

\* Store::get: the last version, whatever its sequence number.
Get(vs) == IF vs = <<>> THEN None ELSE vs[Len(vs)].value

\* Mutant: a snapshot sees the first write after it.
BelowOrAt(vs, s) == {i \in DOMAIN vs : vs[i].seq <= s}

\* The positions a snapshot taken at s may see.
Below(vs, s) == {i \in DOMAIN vs : vs[i].seq < s}

\* Store::get_at: searching from the end, the first version below s.
GetAt(vs, s) ==
    IF Below(vs, s) = {} THEN None ELSE vs[LargestOf(Below(vs, s))].value

\* Store::latest_seq says this key has a version at or after s.
LatestAtOrAfter(vs, s) == vs # <<>> /\ vs[Len(vs)].seq >= s

-----------------------------------------------------------------------------
(* What Store::compact keeps of one key, as positions in its version list. *)

\* No guard held: the last version, unless it is a tombstone.
KeptUnguarded(vs) == {i \in DOMAIN vs : i = Len(vs) /\ vs[i].value # None}

\* Mutant: the version the oldest snapshot reads is not kept.
KeptAfter(vs, s) == {i \in DOMAIN vs : vs[i].seq >= s}

\* Oldest held snapshot s: the version that snapshot reads, and all later.
KeptFrom(vs, s) ==
    {i \in DOMAIN vs : vs[i].seq >= s \/ i = LargestOf(Below(vs, s))}

\* Log::open's next_seq for a log holding exactly the sequence numbers S.
NextSeq(S) == IF S = {} THEN 0 ELSE LargestOf(S) + 1
=============================================================================
