---------------------------- MODULE MCBufferPool ----------------------------
(***************************************************************************)
(* BufferPool on small pools.                                              *)
(***************************************************************************)
EXTENDS BufferPool
=============================================================================
