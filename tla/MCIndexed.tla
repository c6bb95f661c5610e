------------------------------ MODULE MCIndexed ------------------------------
(***************************************************************************)
(* Small instances of Indexed for TLC.                                     *)
(***************************************************************************)
EXTENDS Indexed

CONSTANTS a, b
=============================================================================
