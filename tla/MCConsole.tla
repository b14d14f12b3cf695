------------------------------ MODULE MCConsole ------------------------------
(***************************************************************************)
(* An instance of module Console for TLC.                                  *)
(***************************************************************************)
EXTENDS Console

CONSTANTS con, cli, ours, theirs

\* A provider's record: it lets its own hosts pass and ends.
Include == [kind |-> "ip4", hosts |-> {theirs}, pass |-> TRUE]
MCForeign == {<<Include, Deny>>}
==============================================================================
