------------------------------ MODULE MCDiffDB ------------------------------
(* The instance of DiffDB for TLC. *)
EXTENDS DiffDB

CONSTANTS a, b
=============================================================================
