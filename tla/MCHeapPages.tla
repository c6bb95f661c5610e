---------------------------- MODULE MCHeapPages ----------------------------
(***************************************************************************)
(* HeapPages with few pages.                                               *)
(***************************************************************************)
EXTENDS HeapPages
=============================================================================
