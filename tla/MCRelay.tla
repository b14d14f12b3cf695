------------------------------- MODULE MCRelay -------------------------------
(***************************************************************************)
(* The instance of module Relay for TLC: no MX, two hosts in either order, *)
(* two hosts of one preference, and a null MX.                             *)
(***************************************************************************)
EXTENDS Relay

CONSTANTS a, b

Mx(p, h) == [priority |-> p, host |-> h]

SmallAnswers ==
  {<<>>, <<Mx(20, b), Mx(10, a)>>, <<Mx(10, a), Mx(20, b)>>, <<Mx(5, b), Mx(5, a)>>,
   <<Mx(0, Null)>>}
==============================================================================
