---------------------------------- MODULE KV ----------------------------------
(***************************************************************************)
(* What Store promises: a map that changes only when a batch of puts and   *)
(* deletes is applied to it, in order and all of it, or, when a crash cuts *)
(* the call short, some prefix of it.  Compaction, a crash at any other    *)
(* moment and recovery change nothing a caller can see.                    *)
(***************************************************************************)
EXTENDS Naturals, Sequences

CONSTANTS Key, Val, None

VARIABLES
    kv,         \* the contents: a value, or None for a key that is not there
    pending     \* the batch being applied

vars == <<kv, pending>>

Init == kv = [k \in Key |-> None] /\ pending = <<>>

\* What k maps to after the first n operations of pending.
ValueAfter(k, n) ==
    LET writers == {i \in 1..n : pending[i].key = k}
    IN  IF writers = {} THEN kv[k]
        ELSE pending[CHOOSE i \in writers : \A j \in writers : j <= i].value

Request ==
    /\ pending = <<>>
    /\ pending' \in Seq([key : Key, value : Val \cup {None}])
    /\ UNCHANGED kv

Apply ==
    /\ kv' = [k \in Key |-> ValueAfter(k, Len(pending))]
    /\ pending' = <<>>

CutShort ==
    /\ \E n \in 0..Len(pending) : kv' = [k \in Key |-> ValueAfter(k, n)]
    /\ pending' = <<>>

Next == Request \/ Apply \/ CutShort

Spec == Init /\ [][Next]_vars
=============================================================================
