------------------------------- MODULE Attempt -------------------------------
(***************************************************************************)
(* What one delivery attempt promises its caller: a single outcome, true   *)
(* of what the receiving server did.  "Delivered" means the server has the *)
(* message; after a refusal it has not and never will; only "Wire", the    *)
(* connection lost, leaves the question open, and the server may still be  *)
(* taking the message when the caller has moved on.                        *)
(***************************************************************************)
EXTENDS Naturals

CONSTANTS
  None   \* no outcome yet

VARIABLES
  outcome,
  taken     \* how often the server has taken responsibility for the message

Outcome == {"Delivered", "Deferred", "Rejected", "Wire"}

Init == outcome = None /\ taken = 0

Take ==
  /\ outcome \in {None, "Wire"} /\ taken = 0
  /\ taken' = 1
  /\ UNCHANGED outcome

Report(o) ==
  /\ outcome = None
  /\ o = "Delivered" => taken = 1
  /\ o \in {"Deferred", "Rejected"} => taken = 0
  /\ outcome' = o
  /\ UNCHANGED taken

Next == Take \/ \E o \in Outcome : Report(o)

Spec == Init /\ [][Next]_<<outcome, taken>>
==============================================================================
