-------------------------------- MODULE MCTxn --------------------------------
(***************************************************************************)
(* Small instances of Txn for TLC.                                         *)
(***************************************************************************)
EXTENDS Txn, TLC

CONSTANTS t1, t2, a, b

Symm == Permutations({t1, t2})

\* Key 1 holds the only surviving version of a log that was compacted and
\* reopened: its sequence number leaves a gap below it.
Compacted == [k \in Key |-> IF k = 1 THEN <<[seq |-> 1, value |-> a]>> ELSE <<>>]
Empty == [k \in Key |-> <<>>]
EmptyOrCompacted == {Empty, Compacted}
OnlyEmpty == {Empty}
OnlyCompacted == {Compacted}
=============================================================================
