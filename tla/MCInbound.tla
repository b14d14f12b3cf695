------------------------------ MODULE MCInbound ------------------------------
(***************************************************************************)
(* The instance of module Inbound for TLC: an account, one that is         *)
(* switched off, the only one of its domain, an alias, and a foreigner.    *)
(***************************************************************************)
EXTENDS Inbound

CONSTANTS ann, dan, ali, far, ours, old, away

MCDomainOf == [r \in Recipients |-> CASE r = far -> away [] r = dan -> old [] OTHER -> ours]

MCAccounts == <<[address |-> dan, enabled |-> FALSE], [address |-> ann, enabled |-> TRUE]>>

MCDeliverable == {r \in Recipients : AcceptRecipient(r)}
==============================================================================
