-------------------------------- MODULE Relay --------------------------------
(***************************************************************************)
(* A target that mails a message on: forward.rs, `ForwardTarget::deliver`, *)
(* and outbound.rs, `OutboundTarget::deliver`, with the journey of each    *)
(* copy (send/mod.rs, `send` and `send_to_host`; send/route.rs, `plan`).   *)
(*                                                                         *)
(* A round walks the destinations in order and stops at the first that     *)
(* fails; the worker calls for another round until one succeeds or its     *)
(* budget is spent.  A dialogue is what module Attempt promises of it.     *)
(* What DNS answers is chosen anew at every lookup.                        *)
(***************************************************************************)
EXTENDS Naturals, Sequences, FiniteSets

CONSTANTS
  NDest,        \* destinations of the message, 1 .. NDest in order
  Domain,       \* the name of a destination's own domain
  Null,         \* the host "." of a null MX
  Answers,      \* the MX answers DNS may give, each a sequence of records
  None,
  MaxRounds     \* bound: the rounds the worker's budget allows

ASSUME RelayAssumption ==
  /\ None \notin {"Delivered", "Deferred", "Rejected", "Wire", "Failed", "gaveUp"}
  /\ NDest \in Nat \ {0} /\ MaxRounds \in Nat \ {0}
  /\ \A answer \in Answers :
       /\ Len(answer) \in Nat /\ DOMAIN answer = 1 .. Len(answer)
       /\ \A i \in DOMAIN answer : answer[i].priority \in Nat

VARIABLES
  letter,      \* "good", or what `deliver` finds wrong with it
  phase,
  round,
  result,      \* the answer of the last round
  dest,        \* the destination the round is at
  records,     \* the MX answer for it
  hosts,       \* the plan made of that
  host,        \* the index of the host being tried
  silent,      \* the hosts that could not be reached, this lookup
  outcome,     \* of the dialogue under way
  taken,
  late,        \* dialogues given up that the server may still complete
  copies,      \* how often some server took the message for a destination
  never        \* history: the destinations a server or DNS refused for good

dialogue == <<outcome, taken>>
route == <<records, hosts, host, silent>>
books == <<late, copies>>
vars == <<letter, phase, round, result, dest, route, dialogue, books, never>>

Attempted == INSTANCE Attempt

Dests == 1 .. NDest

Letter == {"good", "looping", "badSender"}

Phase == {"idle", "lookup", "dial", "talk"}

Init ==
  /\ letter \in Letter
  /\ phase = "idle" /\ round = 0
  /\ result = None
  /\ dest = 1
  /\ records = <<>> /\ hosts = <<>> /\ host = 1 /\ silent = {}
  /\ outcome = None /\ taken = 0
  /\ late = [d \in Dests |-> 0]
  /\ copies = [d \in Dests |-> 0]
  /\ never = {}

Ends(answer) == phase' = "idle" /\ result' = answer

Fails == Ends("Failed")

\* Variant: in the order DNS gave.
PlanUnsorted(answer) ==
  IF answer = <<>> THEN <<[priority |-> 0, host |-> Domain]>> ELSE answer

\* Where record i comes when they are sorted by priority; sort_by_key is
\* stable: equal ones keep DNS's order.
Place(answer, i) ==
  Cardinality({j \in DOMAIN answer :
                 \/ answer[j].priority < answer[i].priority
                 \/ answer[j].priority = answer[i].priority /\ j <= i})

\* plan, for an answer that does not refuse mail.
Plan(answer) ==
  IF answer = <<>>
    THEN <<[priority |-> 0, host |-> Domain]>>
    ELSE [k \in DOMAIN answer |-> answer[CHOOSE i \in DOMAIN answer : Place(answer, i) = k]]

RefusesMail(answer) == \E i \in DOMAIN answer : answer[i].host = Null

------------------------------------------------------------------------------
\* The worker hands the message over.  A looping one and one whose sender
\* cannot be used fail before anything is on the wire.
Begin ==
  /\ phase = "idle" /\ result \in {None, "Failed"} /\ round < MaxRounds
  /\ round' = round + 1
  /\ dest' = 1
  /\ IF letter = "good"
       THEN phase' = "lookup" /\ UNCHANGED result
       ELSE Fails
  /\ UNCHANGED <<letter, route, dialogue, books, never>>

\* The worker's budget is spent.
GiveUp ==
  /\ phase = "idle" /\ result = "Failed" /\ round = MaxRounds
  /\ result' = "gaveUp"
  /\ UNCHANGED <<letter, phase, round, dest, route, dialogue, books, never>>

\* A forwarding rule may name something that is no address.
BadDestination ==
  /\ phase = "lookup"
  /\ Fails
  /\ UNCHANGED <<letter, round, dest, route, dialogue, books, never>>

LookupFails ==
  /\ phase = "lookup"
  /\ Fails
  /\ UNCHANGED <<letter, round, dest, route, dialogue, books, never>>

Lookup(answer) ==
  /\ phase = "lookup"
  /\ ~ RefusesMail(answer)
  /\ phase' = "dial"
  /\ records' = answer /\ hosts' = Plan(answer) /\ host' = 1 /\ silent' = {}
  /\ UNCHANGED <<letter, round, result, dest, dialogue, books, never>>

LookupRefuses(answer) ==
  /\ phase = "lookup"
  /\ RefusesMail(answer)
  /\ Fails
  /\ never' = never \cup {dest}
  /\ UNCHANGED <<letter, round, dest, route, dialogue, books>>

\* lookup_host knows no address: `send` returns this error as it is.
NoAddress ==
  /\ phase = "dial"
  /\ Fails
  /\ UNCHANGED <<letter, round, dest, route, dialogue, books, never>>

\* Nobody answers the dial: the next host, if there is one.
Unreachable ==
  /\ phase = "dial"
  /\ silent' = silent \cup {hosts[host].host}
  /\ IF host < Len(hosts)
       THEN host' = host + 1 /\ UNCHANGED <<phase, result>>
       ELSE Fails /\ UNCHANGED host
  /\ UNCHANGED <<letter, round, dest, records, hosts, dialogue, books, never>>

Connect ==
  /\ phase = "dial"
  /\ phase' = "talk"
  /\ outcome' = None /\ taken' = 0
  /\ UNCHANGED <<letter, round, result, dest, route, books, never>>

ServerTakes ==
  /\ phase = "talk"
  /\ Attempted!Take
  /\ copies' = [copies EXCEPT ![dest] = @ + 1]
  /\ UNCHANGED <<letter, phase, round, result, dest, route, late, never>>

\* Variant: a temporary refusal is no reason to stop.
DeliveredLax ==
  /\ phase = "talk"
  /\ Attempted!Report("Delivered") \/ Attempted!Report("Deferred")
  /\ IF dest < NDest
       THEN dest' = dest + 1 /\ phase' = "lookup" /\ UNCHANGED result
       ELSE Ends("Delivered") /\ UNCHANGED dest
  /\ UNCHANGED <<letter, round, route, books, never>>

\* One destination is served: on to the next.
Delivered ==
  /\ phase = "talk"
  /\ Attempted!Report("Delivered")
  /\ IF dest < NDest
       THEN dest' = dest + 1 /\ phase' = "lookup" /\ UNCHANGED result
       ELSE Ends("Delivered") /\ UNCHANGED dest
  /\ UNCHANGED <<letter, round, route, books, never>>

\* A refusal for now and one for good end the round alike.
Refused(o) ==
  /\ phase = "talk" /\ o \in {"Deferred", "Rejected"}
  /\ Attempted!Report(o)
  /\ Fails
  /\ never' = IF o = "Rejected" THEN never \cup {dest} ELSE never
  /\ UNCHANGED <<letter, round, dest, route, books>>

\* Variant: a broken dialogue is tried again with the next host.
BrokenTryNext ==
  /\ phase = "talk"
  /\ Attempted!Report("Wire")
  /\ IF host < Len(hosts)
       THEN host' = host + 1 /\ phase' = "dial" /\ UNCHANGED result
       ELSE Fails /\ UNCHANGED host
  /\ late' = [late EXCEPT ![dest] = @ + (1 - taken)]
  /\ UNCHANGED <<letter, round, dest, records, hosts, silent, copies, never>>

\* The wire breaks; the server may yet complete what it was sent.
Broken ==
  /\ phase = "talk"
  /\ Attempted!Report("Wire")
  /\ Fails
  /\ late' = [late EXCEPT ![dest] = @ + (1 - taken)]
  /\ UNCHANGED <<letter, round, dest, route, copies, never>>

\* Killed in the middle of a round: the spool knows nothing of it.
Kill ==
  /\ phase # "idle"
  /\ Fails
  /\ late' = IF phase = "talk" THEN [late EXCEPT ![dest] = @ + (1 - taken)] ELSE late
  /\ UNCHANGED <<letter, round, dest, route, dialogue, copies, never>>

TakenLate(d) ==
  /\ late[d] > 0
  /\ late' = [late EXCEPT ![d] = @ - 1]
  /\ copies' = [copies EXCEPT ![d] = @ + 1]
  /\ UNCHANGED <<letter, phase, round, result, dest, route, dialogue, never>>

------------------------------------------------------------------------------
Next ==
  \/ Begin \/ GiveUp \/ BadDestination \/ LookupFails
  \/ \E answer \in Answers : Lookup(answer) \/ LookupRefuses(answer)
  \/ NoAddress \/ Unreachable \/ Connect
  \/ ServerTakes \/ Delivered \/ Broken \/ Kill
  \/ \E o \in Attempted!Outcome : Refused(o)
  \/ \E d \in Dests : TakenLate(d)

Spec == Init /\ [][Next]_vars

------------------------------------------------------------------------------
TypeOK ==
  /\ letter \in Letter
  /\ phase \in Phase
  /\ round \in 0 .. MaxRounds
  /\ result \in {None, "Delivered", "Failed", "gaveUp"}
  /\ dest \in Dests
  /\ records \in Answers \cup {<<>>}
  /\ host \in Nat \ {0}
  /\ outcome \in Attempted!Outcome \cup {None} /\ taken \in 0 .. 1
  /\ late \in [Dests -> Nat] /\ copies \in [Dests -> Nat]
  /\ never \subseteq Dests

\* A target answers Delivered only when a server has the message for every one
\* of its destinations: the worker will then forget it.
DeliveredIsTrue ==
  result = "Delivered" => \A d \in Dests : copies[d] > 0

\* A destination gets at most one copy per round, counting those that a server
\* completes after its round was given up: a round never serves one twice.
OneCopyPerRound ==
  \A d \in Dests : copies[d] + late[d] <= round

\* The dialogue is held with the most preferred of the hosts that can be
\* reached: every one that DNS prefers was tried just before and was silent.
BestHostFirst ==
  phase = "talk" =>
    \A i \in DOMAIN records :
      records[i].priority < hosts[host].priority => records[i].host \in silent
==============================================================================
