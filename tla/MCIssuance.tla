----------------------------- MODULE MCIssuance -----------------------------
(***************************************************************************)
(* An instance of module Issuance for TLC: two commands with model values  *)
(* for names.                                                              *)
(***************************************************************************)
EXTENDS Issuance, TLC

CONSTANTS c1, c2
==============================================================================
