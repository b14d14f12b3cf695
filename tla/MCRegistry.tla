----------------------------- MODULE MCRegistry ------------------------------
(***************************************************************************)
(* An instance of module Registry for TLC.                                 *)
(***************************************************************************)
EXTENDS Registry, TLC

CONSTANTS p1, p2

Symmetric == Permutations(Procs)
==============================================================================
