-------------------------- MODULE SnapshotIsolation --------------------------
(***************************************************************************)
(* What TransactionalStore promises its callers, without sequence numbers, *)
(* version lists or compaction: a map, transactions that read a copy of it *)
(* taken when they begin, and a commit that installs all of a transaction's*)
(* writes at once if, and only if, no other transaction has committed one  *)
(* of those keys in between.                                               *)
(***************************************************************************)
CONSTANTS Transactions, Key, Val, None, NoWrite

VARIABLES
    db,         \* the committed map
    status,
    copy,       \* what each transaction reads besides its own writes
    writes,
    touched     \* keys committed by others since the transaction began

vars == <<db, status, copy, writes, touched>>

Nothing == [k \in Key |-> NoWrite]

Init ==
    /\ db \in [Key -> Val \cup {None}]
    /\ status = [t \in Transactions |-> "idle"]
    /\ copy = [t \in Transactions |-> [k \in Key |-> None]]
    /\ writes = [t \in Transactions |-> Nothing]
    /\ touched = [t \in Transactions |-> {}]

WriteSet(t) == {k \in Key : writes[t][k] # NoWrite}

Begin(t) ==
    /\ status[t] = "idle"
    /\ status' = [status EXCEPT ![t] = "open"]
    /\ copy' = [copy EXCEPT ![t] = db]
    /\ UNCHANGED <<db, writes, touched>>

Write(t) ==
    /\ status[t] = "open"
    /\ \E k \in Key, v \in Val \cup {None} : writes' = [writes EXCEPT ![t][k] = v]
    /\ UNCHANGED <<db, status, copy, touched>>

Commit(t) ==
    /\ status[t] = "open"
    /\ WriteSet(t) \cap touched[t] = {}
    /\ status' = [status EXCEPT ![t] = "committed"]
    /\ db' = [k \in Key |-> IF k \in WriteSet(t) THEN writes[t][k] ELSE db[k]]
    /\ touched' = [u \in Transactions |->
                     IF u # t /\ status[u] = "open"
                     THEN touched[u] \cup WriteSet(t) ELSE touched[u]]
    /\ UNCHANGED <<copy, writes>>

\* A refused commit applies nothing; it is refused for a conflict only when
\* there is one.
Refuse(t) ==
    /\ status[t] = "open"
    /\ \/ /\ WriteSet(t) \cap touched[t] # {}
          /\ status' = [status EXCEPT ![t] = "conflicted"]
       \/ status' = [status EXCEPT ![t] = "failed"]
       \/ status' = [status EXCEPT ![t] = "aborted"]
    /\ UNCHANGED <<db, copy, writes, touched>>

\* An ended transaction is forgotten.
Forget(t) ==
    /\ status[t] \notin {"idle", "open"}
    /\ status' = [status EXCEPT ![t] = "idle"]
    /\ copy' = [copy EXCEPT ![t] = [k \in Key |-> None]]
    /\ writes' = [writes EXCEPT ![t] = Nothing]
    /\ touched' = [touched EXCEPT ![t] = {}]
    /\ UNCHANGED db

Next ==
    \E t \in Transactions :
        Begin(t) \/ Write(t) \/ Commit(t) \/ Refuse(t) \/ Forget(t)

Spec == Init /\ [][Next]_vars
=============================================================================
