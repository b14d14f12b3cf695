----------------------------- MODULE MCMailboxes -----------------------------
(***************************************************************************)
(* An instance of module Mailboxes for TLC: every pair of envelopes for    *)
(* two mailboxes, for the same one twice, and for one and then a name the  *)
(* store refuses.                                                          *)
(***************************************************************************)
EXTENDS Mailboxes, TLC

CONSTANTS m1, m2, alice, bob, odd

MCEnvelopes == {<<alice, bob>>, <<bob, bob>>, <<bob, odd>>}

MCSize == m1 :> 1 @@ m2 :> 2
==============================================================================
