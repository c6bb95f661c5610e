------------------------------- MODULE MCStore -------------------------------
(***************************************************************************)
(* Small instances of Store for TLC.                                       *)
(***************************************************************************)
EXTENDS Store

CONSTANTS a, b
=============================================================================
