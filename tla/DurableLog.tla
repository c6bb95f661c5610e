------------------------------ MODULE DurableLog ------------------------------
(***************************************************************************)
(* What Log promises: one sequence of records that only ever grows at its  *)
(* end.  A batch is in flight until it is acknowledged, and then all of it *)
(* is in the sequence for good.  A crash ends the flight: the records of   *)
(* some prefix of the batch are in the sequence, the others never will be. *)
(***************************************************************************)
EXTENDS Sequences, Naturals

CONSTANT Rec    \* the records

VARIABLES
    records,    \* the records a reader of the log gets
    inflight,   \* the records being appended
    up          \* whether the log is open

vars == <<records, inflight, up>>

Init == records = <<>> /\ inflight = <<>> /\ up = FALSE

Start ==
    /\ up /\ inflight = <<>>
    /\ inflight' \in Seq(Rec)
    /\ UNCHANGED <<records, up>>

Acknowledge ==
    /\ up
    /\ records' = records \o inflight
    /\ inflight' = <<>>
    /\ UNCHANGED up

Crash ==
    /\ up' = FALSE
    /\ \E n \in 0..Len(inflight) : records' = records \o SubSeq(inflight, 1, n)
    /\ inflight' = <<>>

Open == ~up /\ up' = TRUE /\ UNCHANGED <<records, inflight>>

Next == Start \/ Acknowledge \/ Crash \/ Open

Spec == Init /\ [][Next]_vars
=============================================================================
