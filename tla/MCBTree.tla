------------------------------- MODULE MCBTree -------------------------------
(***************************************************************************)
(* Small instances of BTree for TLC.                                       *)
(***************************************************************************)
EXTENDS BTree

CONSTANTS small, big, huge

\* A leaf of three bytes holds three small values, or one big one; a huge one
\* fits in no leaf.
Sizes == [v \in Val |-> IF v = small THEN 1 ELSE IF v = big THEN 3 ELSE 6]
=============================================================================
