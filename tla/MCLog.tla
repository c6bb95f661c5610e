-------------------------------- MODULE MCLog --------------------------------
(***************************************************************************)
(* Small instances of Log for TLC.                                         *)
(***************************************************************************)
EXTENDS Log

CONSTANTS put, del, MaxCrashes

\* At most MaxCrashes crashes, of whatever kinds.
AnyCrashes == UNION {[1..n -> {"kill", "power"}] : n \in 0..MaxCrashes}

\* The same, all of one kind.
AlikeCrashes == {h \in AnyCrashes : \A i, j \in DOMAIN h : h[i] = h[j]}
=============================================================================
