------------------------------ MODULE MCNetwork ------------------------------
(***************************************************************************)
(* Three servers for module Network: x and y forward to each other, w's    *)
(* server has a webhook and forwards to v, whose mail goes no further.  A  *)
(* message is for x and v, or for w.                                       *)
(***************************************************************************)
EXTENDS Network

CONSTANTS here, there, far, x, y, v, w

MCHome == [b \in Boxes |-> CASE b = y -> there [] b = w -> far [] OTHER -> here]
MCRule == [b \in Boxes |-> CASE b = x -> y [] b = y -> x [] b = w -> v [] OTHER -> Nil]
MCOffers == {<<x, v>>, <<w>>}
==============================================================================
