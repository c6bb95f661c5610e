------------------------------ MODULE PageStore ------------------------------
(***************************************************************************)
(* What an implementation of the trait PageStore (page_store.rs) promises: *)
(* read_page returns the page last written whole; a write that a crash or  *)
(* an I/O error cuts short has happened or has not, and one that returns   *)
(* has happened.                                                           *)
(***************************************************************************)
CONSTANTS PageId, Content, Missing

VARIABLES
    pages,      \* what read_page returns, now or after any crash
    pending,    \* the write_page call in progress: <<id, page>>, or <<>>
    done        \* whether a call is about to return Ok

vars == <<pages, pending, done>>

Init == pages = [p \in PageId |-> Missing] /\ pending = <<>> /\ done = FALSE

Call ==
    /\ pending = <<>> /\ ~done
    /\ pending' \in PageId \X Content
    /\ UNCHANGED <<pages, done>>

\* The write happens, and is going to be acknowledged or not.
Effect ==
    /\ pending # <<>>
    /\ pages' = [pages EXCEPT ![pending[1]] = pending[2]]
    /\ pending' = <<>> /\ done' \in BOOLEAN

\* The call ends without it.
Abandon == pending # <<>> /\ pending' = <<>> /\ UNCHANGED <<pages, done>>

Return == done /\ done' = FALSE /\ UNCHANGED <<pages, pending>>

Next == Call \/ Effect \/ Abandon \/ Return

Spec == Init /\ [][Next]_vars
=============================================================================
