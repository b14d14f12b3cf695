--------------------------- MODULE ForwardingProofs ---------------------------
(***************************************************************************)
(* What is proved of mail that leaves a server.                            *)
(*                                                                         *)
(* Of module Relay, for any number of destinations, rounds and whatever    *)
(* DNS answers: what a target reports delivered is delivered, no           *)
(* destination gets two copies in one round, and the hosts are tried in    *)
(* the order DNS prefers.                                                  *)
(*                                                                         *)
(* Of module Network, for any number of servers, boxes and rules: mail     *)
(* that servers forward to one another is not lost between them, what an   *)
(* embedding program does not get is what its channel held, and a box gets *)
(* no more copies than the rules and the mishaps account for.              *)
(***************************************************************************)
EXTENDS Relay, Network, Sums, FiniteSetTheorems, TLAPS

(***************************************************************************)
(*                                 Relay                                   *)
(***************************************************************************)
\* What the servers have of the letter for destination d, or may yet take.
Sent(d) == copies[d] + late[d]

\* The destinations before the one at hand have had this round's copy, those
\* behind it have not; the one at hand has it once the server has taken it.
ThisRound ==
  IF phase = "idle" THEN \A d \in Dests : Sent(d) <= round
  ELSE /\ round > 0
       /\ \A d \in 1 .. (dest - 1) : Sent(d) <= round
       /\ \A d \in Dests : d > dest => Sent(d) < round
       /\ Sent(dest) < round + (IF phase = "talk" THEN taken ELSE 0)

\* A round that has come to dest found a server for all before it.
ServedBefore ==
  /\ phase # "idle" => result \in {None, "Failed"} /\ \A d \in 1 .. (dest - 1) : copies[d] > 0
  /\ phase = "talk" /\ taken = 1 => copies[dest] > 0

\* A dialogue still open has no outcome.
Open == phase = "talk" => outcome = None

RInv == TypeOK /\ ThisRound /\ ServedBefore /\ Open /\ DeliveredIsTrue

LEMMA InitRelay == Init => RInv
  BY RelayAssumption DEF Init, RInv, TypeOK, ThisRound, ServedBefore, Open, DeliveredIsTrue,
     Letter, Phase, Dests, Sent

\* In the middle of a round none has had more copies than there were rounds.
LEMMA PastIsEnough == RInv => \A d \in Dests : Sent(d) <= round
  <1> SUFFICES ASSUME RInv, NEW d \in Dests PROVE Sent(d) <= round
    OBVIOUS
  <1> USE RelayAssumption DEF RInv, TypeOK, Dests
  <1>1. Sent(d) \in Nat /\ round \in Nat /\ taken \in 0 .. 1
    BY DEF Sent
  <1>2. d < dest \/ d = dest \/ d > dest
    OBVIOUS
  <1> QED
    BY <1>1, <1>2 DEF ThisRound

\* Before the dialogue nothing is sent.
LEMMA BeforeKeeps ==
  ASSUME RInv, Begin \/ GiveUp \/ BadDestination \/ LookupFails \/ NoAddress \/ Unreachable
                 \/ Connect \/ \E answer \in Answers : Lookup(answer) \/ LookupRefuses(answer)
  PROVE  RInv'
  <1> USE RelayAssumption
      DEF RInv, ServedBefore, Open, DeliveredIsTrue, route, dialogue, books, Ends, Fails
  <1>1. CASE Begin
    <2>1. TypeOK'
      BY <1>1 DEF Begin, TypeOK, Phase, Dests
    <2>2. ThisRound'
      <3>1. /\ dest' = 1 /\ round' = round + 1 /\ round \in Nat /\ phase' \in {"idle", "lookup"}
            /\ \A d \in Dests : Sent(d)' = Sent(d) /\ Sent(d) \in Nat /\ Sent(d) <= round
        BY <1>1 DEF Begin, TypeOK, ThisRound, Sent
      <3> QED
        BY <3>1 DEF ThisRound, Dests
    <2>3. (ServedBefore /\ Open /\ DeliveredIsTrue)'
      BY <1>1 DEF Begin
    <2> QED
      BY <2>1, <2>2, <2>3
  <1>2. CASE GiveUp
    BY <1>2 DEF GiveUp, TypeOK, ThisRound, Sent
  <1>3. CASE BadDestination \/ LookupFails \/ NoAddress
    <2>1. TypeOK'
      BY <1>3 DEF BadDestination, LookupFails, NoAddress, TypeOK, Phase, Dests
    <2>2. ThisRound'
      BY <1>3, PastIsEnough DEF BadDestination, LookupFails, NoAddress, ThisRound, Sent
    <2> QED
      BY <1>3, <2>1, <2>2 DEF BadDestination, LookupFails, NoAddress
  <1>4. CASE Unreachable
    <2>1. TypeOK'
      BY <1>4, SMTT(30) DEF Unreachable, TypeOK, Phase, Dests
    <2>2. ThisRound'
      BY <1>4, PastIsEnough DEF Unreachable, ThisRound, Sent
    <2> QED
      BY <1>4, <2>1, <2>2 DEF Unreachable
  <1>5. CASE Connect
    BY <1>5, SMTT(30) DEF Connect, TypeOK, Phase, ThisRound, Sent, Dests
  <1>6. ASSUME NEW answer \in Answers, Lookup(answer)
        PROVE  RInv'
    BY <1>6, SMTT(30) DEF Lookup, TypeOK, Phase, ThisRound, Sent, Dests
  <1>7. ASSUME NEW answer \in Answers, LookupRefuses(answer)
        PROVE  RInv'
    <2>1. TypeOK'
      BY <1>7 DEF LookupRefuses, TypeOK, Phase, Dests
    <2>2. ThisRound'
      BY <1>7, PastIsEnough DEF LookupRefuses, ThisRound, Sent
    <2> QED
      BY <1>7, <2>1, <2>2 DEF LookupRefuses
  <1> QED
    BY <1>1, <1>2, <1>3, <1>4, <1>5, <1>6, <1>7

\* A server takes the letter.
LEMMA TakesKeeps ==
  ASSUME RInv, ServerTakes
  PROVE  RInv'
  <1> USE RelayAssumption DEF RInv, ServerTakes, Attempted!Take, route, TypeOK, Dests
  <1>1. taken = 0 /\ taken' = 1 /\ dest' = dest /\ dest \in Dests /\ late' = late
    OBVIOUS
  <1>2. copies'[dest] = copies[dest] + 1 /\ \A d \in Dests \ {dest} : copies'[d] = copies[d]
    OBVIOUS
  <1>3. TypeOK'
    <2>1. copies' \in [Dests -> Nat] /\ outcome' \in Attempted!Outcome \cup {None}
      OBVIOUS
    <2> QED
      BY <2>1 DEF Phase
  <1>4. ThisRound'
    BY <1>1, <1>2 DEF ThisRound, Sent
  <1>5. (ServedBefore /\ Open /\ DeliveredIsTrue)'
    BY <1>1, <1>2 DEF ServedBefore, Open, DeliveredIsTrue
  <1> QED
    BY <1>3, <1>4, <1>5

\* The server has answered, or the wire or the process is gone.
LEMMA OutcomeKeeps ==
  ASSUME RInv, Delivered \/ Broken \/ Kill \/ \E o \in Attempted!Outcome : Refused(o)
  PROVE  RInv'
  <1> USE RelayAssumption
      DEF RInv, Ends, Fails, route, dialogue, books, Attempted!Outcome, Attempted!Report
  <1>1. CASE Delivered
    <2>1. taken = 1 /\ phase = "talk" /\ copies[dest] > 0 /\ Sent(dest) <= round
      BY <1>1 DEF Delivered, ServedBefore, ThisRound, TypeOK, Dests, Sent
    <2>2. TypeOK'
      <3>1. dest' \in Dests /\ result' \in {None, "Delivered", "Failed", "gaveUp"}
        BY <1>1 DEF Delivered, TypeOK, Dests
      <3>2. phase' \in {"idle", "lookup"} /\ outcome' = "Delivered" /\ taken' = taken
        BY <1>1 DEF Delivered
      <3> QED
        BY <1>1, <3>1, <3>2 DEF Delivered, TypeOK, Phase
    <2>3. ThisRound'
      <3>1. CASE dest < NDest
        <4>1. /\ dest' = dest + 1 /\ phase' = "lookup" /\ round' = round /\ dest \in Dests /\ round \in Nat
              /\ \A d \in Dests : Sent(d)' = Sent(d) /\ Sent(d) \in Nat
          BY <1>1, <3>1 DEF Delivered, TypeOK, Sent
        <4>2. round > 0 /\ (\A d \in 1 .. (dest - 1) : Sent(d) <= round)
              /\ \A d \in Dests : d > dest => Sent(d) < round
          BY <2>1 DEF ThisRound
        <4>3. \A d \in 1 .. dest : Sent(d) <= round
          BY <2>1, <4>1, <4>2 DEF Dests
        <4>4. \A d \in Dests : (d < dest' => Sent(d)' <= round') /\ (d >= dest' => Sent(d)' < round')
          BY <4>1, <4>2, <4>3 DEF Dests
        <4>5. dest' \in Dests /\ 1 .. (dest' - 1) \subseteq Dests
          BY <3>1, <4>1, RelayAssumption DEF Dests
        <4>6. round' > 0 /\ (\A d \in 1 .. (dest' - 1) : Sent(d)' <= round')
          BY <4>1, <4>2, <4>4, <4>5 DEF Dests
        <4>7. (\A d \in Dests : d > dest' => Sent(d)' < round')
          BY <4>1, <4>4, <4>5 DEF Dests
        <4>8. copies'[dest'] + late'[dest'] < round'
          BY <4>4, <4>5 DEF Sent, Dests
        <4> QED
          BY <4>1, <4>6, <4>7, <4>8 DEF ThisRound, Sent
      <3>2. CASE dest = NDest
        BY <1>1, <2>1, <3>2 DEF Delivered, ThisRound, TypeOK, Dests, Sent
      <3> QED
        BY <3>1, <3>2 DEF TypeOK, Dests
    <2>4. (ServedBefore /\ Open /\ DeliveredIsTrue)'
      BY <1>1, <2>1, SMTT(30) DEF Delivered, ServedBefore, Open, DeliveredIsTrue, TypeOK, Dests
    <2> QED
      BY <2>2, <2>3, <2>4
  <1>2. CASE Broken \/ Kill
    <2>1. phase' = "idle" /\ round' = round /\ result' = "Failed" /\ copies' = copies
      BY <1>2 DEF Broken, Kill
    <2>2. /\ late' \in [Dests -> Nat]
          /\ \A d \in Dests \ {dest} : late'[d] = late[d]
          /\ late'[dest] = late[dest] + (IF phase = "talk" THEN 1 - taken ELSE 0)
      <3>1. CASE phase = "talk"
        BY <1>2, <3>1 DEF Broken, Kill, TypeOK
      <3>2. CASE phase # "talk"
        BY <1>2, <3>2 DEF Broken, Kill, TypeOK
      <3> QED
        BY <3>1, <3>2
    <2>3. TypeOK'
      BY <1>2, <2>2 DEF Broken, Kill, TypeOK, Phase
    <2>4. ASSUME NEW d \in Dests PROVE copies'[d] + late'[d] <= round'
      <3>1. phase # "idle" /\ copies[d] \in Nat /\ late[d] \in Nat /\ taken \in 0 .. 1 /\ round \in Nat
        BY <1>2 DEF Broken, Kill, TypeOK
      <3>2. CASE d = dest
        <4>1. copies[d] + late[d] < round + (IF phase = "talk" THEN taken ELSE 0)
          BY <3>1, <3>2 DEF ThisRound, Sent
        <4>2. late'[d] = late[d] + (IF phase = "talk" THEN 1 - taken ELSE 0)
          BY <2>2, <3>2
        <4> QED
          BY <2>1, <3>1, <4>1, <4>2
      <3>3. CASE d # dest
        BY <2>1, <2>2, <3>1, <3>3, PastIsEnough DEF Sent
      <3> QED
        BY <3>2, <3>3
    <2> QED
      BY <2>1, <2>3, <2>4 DEF ThisRound, Sent, ServedBefore, Open, DeliveredIsTrue
  <1>3. ASSUME NEW o \in Attempted!Outcome, Refused(o)
        PROVE  RInv'
    <2>1. TypeOK'
      BY <1>3 DEF Refused, TypeOK, Phase, Dests
    <2>2. ThisRound'
      BY <1>3, PastIsEnough DEF Refused, ThisRound, Sent
    <2> QED
      BY <1>3, <2>1, <2>2 DEF Refused, ServedBefore, Open, DeliveredIsTrue
  <1> QED
    BY <1>1, <1>2, <1>3

LEMMA LateKeeps ==
  ASSUME RInv, NEW d \in Dests, TakenLate(d)
  PROVE  RInv'
  BY SMTT(30) DEF RInv, TypeOK, Phase, Dests, Sent, ThisRound, ServedBefore, Open, DeliveredIsTrue,
     route, dialogue, TakenLate

LEMMA StepKeeps == RInv /\ [Next]_vars => RInv'
  <1> SUFFICES ASSUME RInv, [Next]_vars PROVE RInv'
    OBVIOUS
  <1>1. CASE UNCHANGED vars
    BY <1>1 DEF vars, route, dialogue, books, RInv, TypeOK, ThisRound, ServedBefore, Open,
       DeliveredIsTrue, Sent
  <1>2. CASE Next
    BY <1>2, BeforeKeeps, TakesKeeps, OutcomeKeeps, LateKeeps DEF Next
  <1> QED
    BY <1>1, <1>2

------------------------------------------------------------------------------
\* The invariant of the rounds: forward.rs and outbound.rs, `deliver`.
THEOREM Relay_Invariant == Spec => []RInv
  BY InitRelay, StepKeeps, PTL DEF Spec

\* The state of a target that mails on has its types.
THEOREM RelayTypes == Spec => []TypeOK
  BY Relay_Invariant, PTL DEF RInv

\* What the worker is told is delivered, and will forget, every destination's
\* server has taken.
THEOREM DeliveredTruly == Spec => []DeliveredIsTrue
  BY Relay_Invariant, PTL DEF RInv

\* However often rounds break off, are killed or are completed late by a
\* server: no more copies for a destination than rounds were begun.
THEOREM CopiesBounded == Spec => []OneCopyPerRound
  <1>1. RInv => OneCopyPerRound
    BY PastIsEnough DEF OneCopyPerRound, Sent
  <1> QED
    BY <1>1, Relay_Invariant, PTL

------------------------------------------------------------------------------
(***************************************************************************)
(* The order of the hosts.                                                 *)
(***************************************************************************)

\* Record j of an answer is dialled before record i.
Before(answer, j, i) ==
  \/ answer[j].priority < answer[i].priority
  \/ answer[j].priority = answer[i].priority /\ j < i

\* The records up to record i.
UpTo(answer, i) ==
  {j \in DOMAIN answer :
     \/ answer[j].priority < answer[i].priority
     \/ answer[j].priority = answer[i].priority /\ j <= i}

LEMMA PlaceType ==
  ASSUME NEW answer \in Answers, NEW i \in DOMAIN answer
  PROVE  Place(answer, i) \in DOMAIN answer
  <1>1. /\ Len(answer) \in Nat /\ DOMAIN answer = 1 .. Len(answer)
        /\ IsFiniteSet(DOMAIN answer) /\ Cardinality(DOMAIN answer) = Len(answer)
    <2>1. Len(answer) \in Nat /\ DOMAIN answer = 1 .. Len(answer)
      BY RelayAssumption
    <2> DEFINE n == Len(answer)
    <2>2. n \in Int /\ n >= 0
      BY <2>1
    <2> HIDE DEF n
    <2>3. IsFiniteSet(1 .. n) /\ Cardinality(1 .. n) = n
      BY <2>2, FS_Interval
    <2> QED
      BY <2>1, <2>3 DEF n
  <1>2. UpTo(answer, i) \subseteq DOMAIN answer /\ i \in UpTo(answer, i)
    BY <1>1 DEF UpTo
  <1>3. IsFiniteSet(UpTo(answer, i)) /\ Cardinality(UpTo(answer, i)) <= Len(answer)
    BY <1>1, <1>2, FS_Subset
  <1>4. Cardinality(UpTo(answer, i)) \in Nat /\ Cardinality(UpTo(answer, i)) # 0
    BY <1>2, <1>3, FS_CardinalityType, FS_EmptySet
  <1>5. Place(answer, i) = Cardinality(UpTo(answer, i))
    BY DEF Place, UpTo
  <1> QED
    BY <1>1, <1>3, <1>4, <1>5

LEMMA PlaceOrders ==
  ASSUME NEW answer \in Answers, NEW i \in DOMAIN answer, NEW j \in DOMAIN answer,
         Before(answer, j, i)
  PROVE  Place(answer, j) < Place(answer, i)
  <1> DEFINE A == UpTo(answer, j)
             B == UpTo(answer, i)
  <1>1. /\ Len(answer) \in Nat /\ DOMAIN answer = 1 .. Len(answer) /\ IsFiniteSet(DOMAIN answer)
        /\ \A n \in DOMAIN answer : answer[n].priority \in Nat
    BY RelayAssumption, FS_Interval
  <1>2. A \subseteq B /\ i \in B /\ i \notin A /\ B \subseteq DOMAIN answer
    BY <1>1 DEF Before, UpTo
  <1> HIDE DEF A, B
  <1>3. IsFiniteSet(B)
    BY <1>1, <1>2, FS_Subset
  <1>4. IsFiniteSet(A) /\ Cardinality(A) <= Cardinality(B) /\ Cardinality(A) # Cardinality(B)
    BY <1>2, <1>3, FS_Subset
  <1>5. Cardinality(A) \in Nat /\ Cardinality(B) \in Nat
    BY <1>3, <1>4, FS_CardinalityType
  <1>6. Place(answer, j) = Cardinality(A) /\ Place(answer, i) = Cardinality(B)
    BY DEF Place, UpTo, A, B
  <1> QED
    BY <1>4, <1>5, <1>6

\* Two records never share a place, and no place stays empty.
LEMMA PlaceIsUnique ==
  ASSUME NEW answer \in Answers, NEW i \in DOMAIN answer, NEW j \in DOMAIN answer,
         Place(answer, i) = Place(answer, j)
  PROVE  i = j
  <1>1. /\ Len(answer) \in Nat /\ DOMAIN answer = 1 .. Len(answer)
        /\ \A n \in DOMAIN answer : answer[n].priority \in Nat
    BY RelayAssumption
  <1>2. i # j => Before(answer, i, j) \/ Before(answer, j, i)
    BY <1>1 DEF Before
  <1>3. Place(answer, i) \in Nat /\ Place(answer, j) \in Nat
    BY <1>1, PlaceType
  <1> QED
    BY <1>2, <1>3, PlaceOrders

LEMMA PlacesAreFilled ==
  ASSUME NEW answer \in Answers, NEW k \in DOMAIN answer
  PROVE  \E i \in DOMAIN answer : Place(answer, i) = k
  <1> DEFINE D == DOMAIN answer
             p == [i \in D |-> Place(answer, i)]
  <1>1. IsFiniteSet(D)
    BY RelayAssumption, FS_Interval
  <1>2. p \in [D -> D]
    BY PlaceType
  <1>3. \A i, j \in D : p[i] = p[j] => i = j
    BY PlaceIsUnique
  <1>4. \A i \in D : p[i] = Place(answer, i)
    OBVIOUS
  <1> HIDE DEF D, p
  <1>5. p \in Injection(D, D)
    BY <1>2, <1>3 DEF Injection, IsInjective
  <1>6. p \in Surjection(D, D)
    BY <1>1, <1>5, FS_Injection
  <1>7. k \in D
    BY DEF D
  <1>8. \E i \in D : p[i] = k
    BY <1>6, <1>7 DEF Surjection
  <1> QED
    BY <1>4, <1>8 DEF D

\* The plan holds every record of the answer, in its place.
LEMMA PlanHolds ==
  ASSUME NEW answer \in Answers, answer # <<>>
  PROVE  /\ DOMAIN Plan(answer) = DOMAIN answer
         /\ \A i \in DOMAIN answer : Plan(answer)[Place(answer, i)] = answer[i]
  <1>1. Plan(answer) =
          [k \in DOMAIN answer |-> answer[CHOOSE i \in DOMAIN answer : Place(answer, i) = k]]
    BY DEF Plan
  <1>2. ASSUME NEW i \in DOMAIN answer
        PROVE  Plan(answer)[Place(answer, i)] = answer[i]
    <2> DEFINE c == CHOOSE n \in DOMAIN answer : Place(answer, n) = Place(answer, i)
    <2>1. Place(answer, i) \in DOMAIN answer
      BY PlaceType
    <2>2. c \in DOMAIN answer /\ Place(answer, c) = Place(answer, i)
      OBVIOUS
    <2>3. c = i
      BY <2>2, PlaceIsUnique
    <2> QED
      BY <1>1, <2>1, <2>3
  <1> QED
    BY <1>1, <1>2

\* A record that DNS prefers to the one at a place of the plan comes before it.
LEMMA PlanSorts ==
  ASSUME NEW answer \in Answers, NEW i \in DOMAIN answer, NEW h \in DOMAIN answer,
         answer[i].priority < Plan(answer)[h].priority
  PROVE  Place(answer, i) < h
  <1>1. PICK j \in DOMAIN answer : Place(answer, j) = h
    BY PlacesAreFilled
  <1>2. answer # <<>>
    OBVIOUS
  <1>3. Plan(answer)[h] = answer[j]
    BY <1>1, <1>2, PlanHolds
  <1> QED
    BY <1>1, <1>3, PlaceOrders DEF Before

LEMMA PlacesAreNumbers ==
  ASSUME NEW answer \in Answers
  PROVE  \A k \in DOMAIN Plan(answer) : k \in Nat \ {0}
  <1>1. CASE answer = <<>>
    BY <1>1 DEF Plan
  <1>2. CASE answer # <<>>
    BY <1>2, PlanHolds, RelayAssumption
  <1> QED
    BY <1>1, <1>2

\* A lookup's hosts are planned from its records, and those the round is past
\* were silent.
Dialled ==
  phase \in {"dial", "talk"} =>
    /\ records \in Answers /\ hosts = Plan(records)
    /\ \A k \in DOMAIN hosts : k < host => hosts[k].host \in silent

LEMMA DialledStep == RInv /\ Dialled /\ [Next]_vars => Dialled'
  <1> SUFFICES ASSUME RInv, Dialled, [Next]_vars PROVE Dialled'
    OBVIOUS
  <1>1. ASSUME NEW answer \in Answers, Lookup(answer)
        PROVE  Dialled'
    <2>1. \A k \in DOMAIN Plan(answer) : ~ (k < 1)
      BY PlacesAreNumbers
    <2> QED
      BY <1>1, <2>1 DEF Lookup, Dialled
  <1>2. CASE Unreachable /\ host < Len(hosts)
    <2>1. /\ records' = records /\ hosts' = hosts /\ host' = host + 1 /\ phase = "dial"
          /\ silent' = silent \cup {hosts[host].host}
      BY <1>2 DEF Unreachable
    <2>2. ASSUME NEW k \in DOMAIN hosts, k < host + 1
          PROVE  hosts[k].host \in silent'
      <3>1. k \in Nat /\ host \in Nat
        BY <2>1, PlacesAreNumbers DEF Dialled, RInv, TypeOK
      <3>2. k < host \/ k = host
        BY <2>2, <3>1
      <3> QED
        BY <2>1, <2>2, <3>2 DEF Dialled
    <2> QED
      BY <2>1, <2>2 DEF Dialled
  <1>3. CASE Unreachable /\ ~ (host < Len(hosts))
    BY <1>3 DEF Unreachable, Fails, Ends, Dialled
  <1>4. CASE Connect \/ ServerTakes \/ UNCHANGED vars \/ \E d \in Dests : TakenLate(d)
    BY <1>4 DEF Connect, ServerTakes, TakenLate, route, vars, Dialled
  <1>5. ASSUME \/ Begin \/ GiveUp \/ BadDestination \/ LookupFails \/ NoAddress
               \/ Delivered \/ Broken \/ Kill
               \/ \E answer \in Answers : LookupRefuses(answer)
               \/ \E o \in Attempted!Outcome : Refused(o)
        PROVE  Dialled'
    <2>1. phase' \in {"idle", "lookup"}
      <3>1. CASE GiveUp
        BY <3>1 DEF GiveUp
      <3>2. CASE Begin \/ BadDestination \/ LookupFails \/ NoAddress
        BY <3>2 DEF Begin, BadDestination, LookupFails, NoAddress, Fails, Ends
      <3>3. CASE Delivered \/ Broken \/ Kill
        BY <3>3 DEF Delivered, Broken, Kill, Fails, Ends
      <3>4. CASE \/ \E answer \in Answers : LookupRefuses(answer)
                 \/ \E o \in Attempted!Outcome : Refused(o)
        BY <3>4 DEF LookupRefuses, Refused, Fails, Ends
      <3> QED
        BY <1>5, <3>1, <3>2, <3>3, <3>4
    <2> QED
      BY <2>1 DEF Dialled
  <1> QED
    BY <1>1, <1>2, <1>3, <1>4, <1>5 DEF Next

\* The sort of route.rs, `plan`, and the walk of send/mod.rs, `send`: a
\* dialogue is held with a host only when DNS prefers none, or none but silent
\* ones, to it.
THEOREM BestFirst == Spec => []BestHostFirst
  <1>1. Init => Dialled
    BY DEF Init, Dialled
  <1>2. RInv /\ Dialled => BestHostFirst
    <2> SUFFICES ASSUME RInv, Dialled, phase = "talk", NEW i \in DOMAIN records,
                        records[i].priority < hosts[host].priority
                 PROVE  records[i].host \in silent
      BY DEF BestHostFirst
    <2> DEFINE k == Place(records, i)
    <2>1. /\ records \in Answers /\ hosts = Plan(records) /\ records # <<>>
          /\ \A n \in DOMAIN hosts : n < host => hosts[n].host \in silent
      BY DEF Dialled
    <2>2. /\ DOMAIN hosts = DOMAIN records /\ DOMAIN records = 1 .. Len(records)
          /\ Len(records) \in Nat
          /\ k \in DOMAIN records /\ hosts[k] = records[i]
      BY <2>1, PlanHolds, PlaceType, RelayAssumption
    <2>3. k < host
      <3>1. CASE host \in DOMAIN records
        BY <2>1, <3>1, PlanSorts
      <3>2. CASE host \notin DOMAIN records
        <4>1. host \in Nat \ {0}
          BY DEF RInv, TypeOK
        <4> QED
          BY <2>2, <3>2, <4>1
      <3> QED
        BY <3>1, <3>2
    <2> QED
      BY <2>1, <2>2, <2>3
  <1> QED
    BY <1>1, <1>2, DialledStep, Relay_Invariant, PTL DEF Spec

(***************************************************************************)
(*                                Network                                  *)
(***************************************************************************)
\* The recipients of one message live at one server.
OneHome(rcpts) ==
  /\ rcpts \in Seq(Boxes) /\ rcpts # <<>>
  /\ \A i \in DOMAIN rcpts : Home[rcpts[i]] = Home[rcpts[1]]

\* Some server took a message for these recipients after so many forwardings.
WasTaken(rcpts, received) ==
  \E m \in Ids :
    status[m] # "new" /\ envelope[m].rcpts = rcpts /\ envelope[m].received = received

Passed(m, i) == WasTaken(<<Destination(m, i)>>, envelope[m].received + 1)

\* An entry names a deliverable message, and owes each target of its server
\* until that was handed the message or was given up, or the record is torn.
Entries ==
  \A m \in Ids :
    IF status[m] = "new" THEN \A t \in Target : <<m, t>> \notin handed \cup waived
    ELSE /\ envelope[m] \in Envelope
         /\ OneHome(envelope[m].rcpts) /\ envelope[m].received <= MaxReceived
         /\ \A t \in TargetsOf(HomeOf(m)) :
              \/ <<m, t>> \in handed \cup waived
              \/ status[m] = "queued" /\ t \in owed[m]
              \/ status[m] = "damaged"

\* A pass is one of an entry of the worker's own queue, and its record is rewritten
\* when nothing is left to do.
Passes ==
  \A s \in Servers :
    work[s] # Nil => /\ status[Entry(s)] = "queued" /\ HomeOf(Entry(s)) = s
                     /\ work[s].rewrites => work[s].left = {}

\* What lies behind a pass at its target has been done.
Progress ==
  \A s \in Servers :
    /\ AtTarget(s, "mailbox") =>
         \A i \in DOMAIN envelope[Entry(s)].rcpts :
           i < work[s].at => filed[envelope[Entry(s)].rcpts[i]] > 0
    /\ AtTarget(s, "forward") =>
         \A i \in Aliases(Entry(s)) : i < work[s].at => Passed(Entry(s), i)

\* A target that was handed a message did all of its work.
HandedIsDone ==
  /\ \A m \in Ids : <<m, "mailbox">> \in handed =>
       \A i \in DOMAIN envelope[m].rcpts : filed[envelope[m].rcpts[i]] > 0
  /\ \A m \in Ids : <<m, "forward">> \in handed => \A i \in Aliases(m) : Passed(m, i)

\* A dialogue is about the destination its client is at.
Belongs(f) ==
  /\ f.by = Sender => f.rcpts = offered.rcpts /\ f.received = 0
  /\ f.by \in Servers =>
       /\ AtTarget(f.by, "forward") /\ ~ envelope[Entry(f.by)].null
       /\ \E i \in Aliases(Entry(f.by)) :
            /\ Turn(f.by, Aliases(Entry(f.by)), i)
            /\ f.rcpts = <<Destination(Entry(f.by), i)>>
            /\ f.received = envelope[Entry(f.by)].received + 1

Dialogues ==
  /\ \A f \in flight :
       /\ OneHome(f.rcpts) /\ f.received <= MaxReceived
       /\ Belongs(f)
       /\ f.taken => Waiting(f) /\ WasTaken(f.rcpts, f.received)
  /\ \A f, g \in flight : Waiting(f) /\ f.by = g.by => f = g

SenderIsSure == sender = "done" => WasTaken(offered.rcpts, 0)

NInv ==
  /\ NetTypeOK /\ Entries /\ Passes /\ Progress /\ HandedIsDone
  /\ Dialogues /\ SenderIsSure

------------------------------------------------------------------------------
\* What the steps that are not the sender's and not a Take do to the queues.
QueueMoves ==
  \/ UNCHANGED queue
  \/ \E m \in Ids :
       \/ \E t \in Target : Q!Hand(m, t)
       \/ \E T \in SUBSET Target : Q!Waive(m, T) \/ Q!Record(m, T)
       \/ Q!Leave(m) \/ Q!Damage(m)

\* What the worker of s does, its mishaps among it.
Works(s) == Worker(s) \/ StoreFails(s) \/ RewriteFails(s) \/ SettleFails(s)

\* A dialogue with f ends, for its client or for nobody.
Closes(f) == Hear(f) \/ Refuse(f) \/ CommitFails(f) \/ Cut(f)

\* With a reply, or without.
Breaks(f) == Refuse(f) \/ CommitFails(f) \/ Cut(f)

LEMMA NetInit_NInv == NetInit => NInv
  <1> SUFFICES ASSUME NetInit PROVE NInv
    OBVIOUS
  <1>1. NetTypeOK
    BY NetworkAssumption DEF NetInit, NetTypeOK, Q!Init
  <1>2. Entries /\ Passes /\ Progress /\ HandedIsDone
    BY DEF NetInit, Q!Init, Entries, Passes, Progress, HandedIsDone, AtTarget
  <1>3. Dialogues /\ SenderIsSure
    BY DEF NetInit, Dialogues, SenderIsSure
  <1> QED
    BY <1>1, <1>2, <1>3 DEF NInv

\* There is one target at hand, and one place.
LEMMA OneAtHand ==
  ASSUME NEW s, NEW t \in Target, NEW u \in Target, AtTarget(s, t), AtTarget(s, u)
  PROVE  t = u
  BY DEF AtTarget, Rank, Target

LEMMA OneTurn ==
  ASSUME NEW s, NEW P \in SUBSET Nat, NEW i, NEW j, work[s].at \in Nat, Turn(s, P, i), Turn(s, P, j)
  PROVE  i = j
  <1>1. i \in Nat /\ j \in Nat /\ i <= j /\ j <= i
    BY DEF Turn
  <1> QED
    BY <1>1

\* The type of a pass at hand.
LEMMA PassAtHand ==
  ASSUME NetTypeOK, NEW s \in Servers, work[s] # Nil
  PROVE  work[s] \in Pass /\ Entry(s) \in Ids
  BY DEF NetTypeOK, Entry, Pass

LEMMA DamageTypes ==
  ASSUME NetTypeOK, NEW m \in Ids, Q!Damage(m)
  PROVE  /\ status' \in [Ids -> {"new", "queued", "gone", "damaged"}]
         /\ owed' \in [Ids -> SUBSET Target] /\ UNCHANGED <<handed, waived>>
  BY DEF NetTypeOK, Q!Damage

LEMMA AdvanceTypes ==
  ASSUME NetTypeOK, NEW s \in Servers, NEW t \in Target, NEW P \in SUBSET Nat, NEW i \in P,
         work[s] # Nil,
         Advance(s, t, P, i) \/ Done(s, t) \/ TargetFails(s, t)
  PROVE  /\ handed' \subseteq Ids \X Target /\ work' \in [Servers -> Pass \cup {Nil}]
         /\ UNCHANGED <<status, owed, waived>>
         /\ QueueMoves
  <1>1. Entry(s) \in Ids /\ work[s] \in Pass
    BY PassAtHand
  <1>2. CASE TargetFails(s, t)
    <2>1. work' = [work EXCEPT ![s] = Without(s, t, work[s].failed \cup {t})]
      BY <1>1, <1>2 DEF TargetFails, NetTypeOK, Pass
    <2>2. work' \in [Servers -> Pass \cup {Nil}]
      BY <1>1, <2>1 DEF NetTypeOK, Pass, Without
    <2> QED
      BY <1>1, <1>2, <2>2 DEF TargetFails, NetTypeOK, queue, QueueMoves
  <1>3. CASE Done(s, t)
    <2>1. work' = [work EXCEPT ![s] = Without(s, t, work[s].failed)]
      BY <1>1, <1>3 DEF Done, NetTypeOK, Pass
    <2>2. work' \in [Servers -> Pass \cup {Nil}]
      BY <1>1, <2>1 DEF NetTypeOK, Pass, Without
    <2>3. QueueMoves
      BY <1>1, <1>3 DEF Done, QueueMoves
    <2> QED
      BY <1>1, <1>3, <2>2, <2>3 DEF Done, NetTypeOK, Q!Hand
  <1>4. CASE Advance(s, t, P, i) /\ ~ Done(s, t)
    <2>1. work' = [work EXCEPT ![s] = [of |-> work[s].of, left |-> work[s].left,
                                       at |-> i + 1, failed |-> work[s].failed,
                                       rewrites |-> work[s].rewrites]]
      BY <1>1, <1>4 DEF Advance, NetTypeOK, Pass
    <2>2. work' \in [Servers -> Pass \cup {Nil}]
      BY <1>1, <2>1 DEF NetTypeOK, Pass
    <2> QED
      BY <1>1, <1>4, <2>2 DEF Advance, NetTypeOK, queue, QueueMoves
  <1> QED
    BY <1>2, <1>3, <1>4

\* Each step keeps the types, and moves the queues as a queue may be moved or
\* is a message taken.
LEMMA WorkerTypes ==
  ASSUME NInv, NEW s \in Servers, Works(s)
  PROVE  NetTypeOK' /\ QueueMoves /\ UNCHANGED envelope
  <1> USE DEF NInv, mail, channel, spool
  <1>1. ASSUME NEW m \in Ids, BeginPass(s, m) PROVE NetTypeOK' /\ QueueMoves /\ UNCHANGED envelope
    <2>1. work' \in [Servers -> Pass \cup {Nil}]
      BY <1>1 DEF BeginPass, NetTypeOK, Pass, TargetsOf
    <2>2. listed' \in [Servers -> SUBSET Ids]
      BY <1>1 DEF BeginPass, NetTypeOK
    <2> QED
      BY <1>1, <2>1, <2>2 DEF BeginPass, NetTypeOK, queue, QueueMoves
  <1>2. CASE Store(s)
    <2>1. work[s] # Nil /\ Entry(s) \in Ids /\ status[Entry(s)] = "queued"
      BY <1>2, PassAtHand DEF Store, AtTarget, Passes
    <2>2. PICK i \in DOMAIN envelope[Entry(s)].rcpts :
            /\ filed' = [filed EXCEPT ![envelope[Entry(s)].rcpts[i]] = @ + 1]
            /\ Advance(s, "mailbox", DOMAIN envelope[Entry(s)].rcpts, i)
      BY <1>2 DEF Store
    <2>3. DOMAIN envelope[Entry(s)].rcpts \in SUBSET Nat /\ envelope[Entry(s)].rcpts[i] \in Boxes
      BY <2>1 DEF Entries, Envelope, OneHome
    <2>4. filed' \in [Boxes -> Nat]
      BY <2>2, <2>3 DEF NetTypeOK
    <2> HIDE DEF NInv
    <2>5. NetTypeOK
      BY DEF NInv
    <2>6. /\ handed' \subseteq Ids \X Target /\ work' \in [Servers -> Pass \cup {Nil}]
          /\ UNCHANGED <<status, owed, waived>> /\ QueueMoves
      BY <2>1, <2>2, <2>3, <2>5, AdvanceTypes DEF Target
    <2> QED
      BY <1>2, <2>4, <2>5, <2>6 DEF NetTypeOK, Store
  <1>3. ASSUME NEW t \in Target, AtTarget(s, t), Done(s, t) \/ TargetFails(s, t),
               inbox' \in [Servers -> Seq(Ids)], mishaps' \in 0 .. MaxMishaps,
               UNCHANGED <<envelope, tries, filed, offered, spool, flight, sender, open, got, losses>>
        PROVE  NetTypeOK' /\ QueueMoves /\ UNCHANGED envelope
    <2>1. work[s] # Nil /\ NetTypeOK
      BY <1>3 DEF AtTarget
    <2> HIDE DEF NInv
    <2>2. /\ handed' \subseteq Ids \X Target /\ work' \in [Servers -> Pass \cup {Nil}]
          /\ UNCHANGED <<status, owed, waived>> /\ QueueMoves
      <3>1. 1 \in Nat /\ Nat \in SUBSET Nat
        OBVIOUS
      <3> QED
        BY <1>3, <2>1, <3>1, AdvanceTypes
    <2> QED
      BY <1>3, <2>1, <2>2 DEF NetTypeOK
  <1>4. CASE Hand(s)
    <2>1. inbox' \in [Servers -> Seq(Ids)]
      BY <1>4, PassAtHand, SMTT(30) DEF Hand, AtTarget, NetTypeOK
    <2> QED
      BY <1>3, <1>4, <2>1 DEF Hand, Target, NetTypeOK
  <1>5. CASE Post(s) \/ HandFails(s) \/ NothingToForward(s) \/ RefuseToForward(s) \/ StoreFails(s)
    <2>1. inbox' \in [Servers -> Seq(Ids)] /\ mishaps' \in 0 .. MaxMishaps
      BY <1>5, NetworkAssumption, SMTT(30)
      DEF Post, HandFails, NothingToForward, RefuseToForward, StoreFails, Mishap, NetTypeOK
    <2> QED
      BY <1>3, <1>5, <2>1 DEF Post, HandFails, NothingToForward, RefuseToForward, StoreFails, Target
  <1>6. CASE Dial(s)
    <2>1. flight' \subseteq [by : Servers \cup {Sender} \cup Nat, rcpts : Seq(Boxes),
                             received : Nat, null : BOOLEAN, taken : BOOLEAN]
      <3>1. Entry(s) \in Ids /\ status[Entry(s)] = "queued"
        BY <1>6, PassAtHand DEF Dial, AtTarget, Passes
      <3>2. PICK i \in Aliases(Entry(s)) :
              flight' = flight \cup
                   {[by |-> s, rcpts |-> <<Destination(Entry(s), i)>>, null |-> FALSE,
                     received |-> Prepare(envelope[Entry(s)].received), taken |-> FALSE]}
        BY <1>6 DEF Dial
      <3>3. Destination(Entry(s), i) \in Boxes /\ Prepare(envelope[Entry(s)].received) \in Nat
        <4>1. /\ envelope[Entry(s)] \in Envelope
              /\ i \in DOMAIN envelope[Entry(s)].rcpts /\ Destination(Entry(s), i) # Nil
          BY <3>1 DEF Entries, Aliases, Destination
        <4>2. envelope[Entry(s)].rcpts[i] \in Boxes
          BY <4>1 DEF Envelope
        <4> QED
          BY <4>1, <4>2, NetworkAssumption DEF Destination, Prepare, Envelope
      <3>4. <<Destination(Entry(s), i)>> \in Seq(Boxes)
        BY <3>3
      <3>5. [by |-> s, rcpts |-> <<Destination(Entry(s), i)>>, null |-> FALSE,
              received |-> Prepare(envelope[Entry(s)].received), taken |-> FALSE]
              \in [by : Servers \cup {Sender} \cup Nat, rcpts : Seq(Boxes),
                   received : Nat, null : BOOLEAN, taken : BOOLEAN]
        BY <3>3, <3>4
      <3> QED
        BY <3>2, <3>5 DEF NetTypeOK
    <2> QED
      BY <1>6, <2>1 DEF Dial, NetTypeOK, queue, QueueMoves
  <1>7. CASE Finish(s) \/ Reschedule(s) \/ WaiveFailed(s)
    <2>1. Entry(s) \in Ids /\ work[s].failed \in SUBSET Target /\ work[s] # Nil
      BY <1>7, PassAtHand DEF Finish, Reschedule, WaiveFailed, Over, Rewriting, Pass
    <2>2. work' \in [Servers -> Pass \cup {Nil}] /\ tries' \in [Ids -> Nat]
      <3>1. UNCHANGED work \/ work' = [work EXCEPT ![s] = Nil]
        BY <1>7 DEF Finish, Reschedule, WaiveFailed
      <3>2. UNCHANGED tries \/ tries' = [tries EXCEPT ![Entry(s)] = @ + 1]
        BY <1>7 DEF Finish, Reschedule, WaiveFailed
      <3>3. work \in [Servers -> Pass \cup {Nil}] /\ tries \in [Ids -> Nat]
        BY DEF NetTypeOK
      <3> HIDE DEF NInv
      <3>4. work' \in [Servers -> Pass \cup {Nil}]
        BY <3>1, <3>3
      <3>5. tries' \in [Ids -> Nat]
        BY <3>2, <3>3
      <3> QED
        BY <3>4, <3>5
    <2>3. QueueMoves
      BY <1>7, <2>1 DEF Finish, Reschedule, WaiveFailed, QueueMoves
    <2>4. /\ status' \in [Ids -> {"new", "queued", "gone", "damaged"}]
          /\ owed' \in [Ids -> SUBSET Target]
          /\ handed' \subseteq Ids \X Target /\ waived' \subseteq Ids \X Target
      BY <1>7, <2>1
      DEF Finish, Reschedule, WaiveFailed, NetTypeOK, Q!Leave, Q!Record, Q!Waive
    <2> QED
      BY <1>7, <2>2, <2>3, <2>4 DEF Finish, Reschedule, WaiveFailed, NetTypeOK
  <1>8. CASE ListDue(s)
    <2>1. listed' \in [Servers -> SUBSET Ids]
      BY <1>8 DEF ListDue, Queued, NetTypeOK
    <2> QED
      BY <1>8, <2>1 DEF ListDue, NetTypeOK, queue, QueueMoves
  <1>9. CASE StartRewrite(s)
    <2>1. work[s] \in Pass /\ work \in [Servers -> Pass \cup {Nil}]
      BY <1>9, PassAtHand DEF StartRewrite, Over, NetTypeOK
    <2> HIDE DEF NInv
    <2>2. [work[s] EXCEPT !.rewrites = TRUE] \in Pass
      BY <2>1 DEF Pass
    <2>3. work' \in [Servers -> Pass \cup {Nil}]
      BY <1>9, <2>1, <2>2 DEF StartRewrite
    <2> QED
      BY <1>9, <2>3 DEF NInv, StartRewrite, NetTypeOK, queue, QueueMoves
  <1>10. CASE RewriteFails(s) \/ SettleFails(s)
    <2>1. mishaps' \in 0 .. MaxMishaps
      BY <1>10, NetworkAssumption DEF RewriteFails, SettleFails, Mishap, NetTypeOK
    <2>2. work' \in [Servers -> Pass \cup {Nil}] /\ listed' \in [Servers -> SUBSET Ids]
      BY <1>10 DEF RewriteFails, SettleFails, NetTypeOK
    <2>3. CASE SettleFails(s)
      BY <2>1, <2>2, <2>3 DEF SettleFails, NetTypeOK, queue, QueueMoves
    <2>4. CASE RewriteFails(s)
      <3>1. Entry(s) \in Ids
        BY <2>4, PassAtHand DEF RewriteFails, Rewriting
      <3> QED
        BY <2>1, <2>2, <2>4, <3>1, DamageTypes DEF RewriteFails, Tears, NetTypeOK, QueueMoves
    <2> QED
      BY <1>10, <2>3, <2>4
  <1> QED
    BY <1>1, <1>2, <1>4, <1>5, <1>6, <1>7, <1>8, <1>9, <1>10 DEF Works, Worker

LEMMA DialogueTypes ==
  ASSUME NInv, NEW f \in flight, Closes(f)
  PROVE  NetTypeOK' /\ QueueMoves /\ UNCHANGED envelope
  <1> DEFINE Flight == [by : Servers \cup {Sender} \cup Nat, rcpts : Seq(Boxes),
                        received : Nat, null : BOOLEAN, taken : BOOLEAN]
  <1>1. NetTypeOK /\ f \in Flight
    BY DEF NInv, NetTypeOK
  <1>2. CASE Hear(f)
    <2>1. flight' \subseteq Flight /\ sender' \in {"holding", "done"}
      BY <1>1, <1>2 DEF Hear, NetTypeOK
    <2>2. CASE f.by = Sender
      BY <1>1, <1>2, <2>1, <2>2 DEF Hear, NetTypeOK, queue, mail, spool, channel, QueueMoves
    <2>3. CASE f.by # Sender
      <3>1. f.by \in Servers /\ Forwarded(f.by) /\ AtTarget(f.by, "forward")
        BY <1>2, <2>3 DEF Hear, Waiting, NInv, Dialogues, Belongs
      <3>2. PICK i \in Aliases(Entry(f.by)) : Advance(f.by, "forward", Aliases(Entry(f.by)), i)
        BY <3>1 DEF Forwarded
      <3>3. work[f.by] # Nil
        BY <3>1 DEF AtTarget
      <3>4. Aliases(Entry(f.by)) \in SUBSET Nat
        <4>1. Entry(f.by) \in Ids /\ status[Entry(f.by)] = "queued"
          BY <1>1, <3>1, <3>3, PassAtHand DEF NInv, Passes
        <4> QED
          BY <4>1 DEF NInv, Entries, Envelope, Aliases
      <3>5. /\ handed' \subseteq Ids \X Target /\ work' \in [Servers -> Pass \cup {Nil}]
            /\ UNCHANGED <<status, owed, waived>> /\ QueueMoves
        BY <1>1, <3>1, <3>2, <3>3, <3>4, AdvanceTypes DEF Target
      <3> QED
        BY <1>1, <1>2, <2>1, <3>5 DEF Hear, NetTypeOK, mail, spool, channel
    <2> QED
      BY <2>2, <2>3
  <1>3. CASE Breaks(f)
    <2>1. mishaps' \in 0 .. MaxMishaps
      BY <1>1, <1>3, NetworkAssumption, SMTT(30)
      DEF Breaks, Refuse, CommitFails, Untaken, Cut, Mishap, NetTypeOK
    <2>2. flight' \subseteq Flight
      <3>1. \A orphan \in Orphaned(f) : orphan \subseteq Flight
        BY <1>1, <2>1 DEF Orphaned
      <3> QED
        BY <1>1, <1>3, <3>1 DEF Breaks, Refuse, CommitFails, Untaken, Cut, NetTypeOK
    <2>3. listed' \in [Servers -> SUBSET Ids] /\ torn' \subseteq Servers
      <3>1. Home[f.rcpts[1]] \in Servers
        BY NetworkAssumption DEF NInv, Dialogues, OneHome
      <3> QED
        BY <1>1, <1>3, <3>1 DEF Breaks, Refuse, CommitFails, Untaken, Cut, spool, NetTypeOK
    <2>4. UNCHANGED <<envelope, tries, filed, offered, sender, inbox, open, got, losses>>
      BY <1>3 DEF Breaks, Refuse, CommitFails, Untaken, Cut, mail, channel
    <2>5. Disappointed(f.by)
      BY <1>3 DEF Breaks, Refuse, CommitFails, Untaken, Cut
    <2>6. CASE f.by \notin Servers
      BY <1>1, <2>1, <2>2, <2>3, <2>4, <2>5, <2>6 DEF Disappointed, NetTypeOK, queue, QueueMoves
    <2>7. CASE f.by \in Servers
      <3>1. TargetFails(f.by, "forward") /\ AtTarget(f.by, "forward")
        BY <2>5, <2>7 DEF Disappointed, NInv, Dialogues, Belongs
      <3>2. work[f.by] # Nil
        BY <3>1 DEF AtTarget
      <3>3. 1 \in Nat /\ Nat \in SUBSET Nat
        OBVIOUS
      <3>4. /\ handed' \subseteq Ids \X Target /\ work' \in [Servers -> Pass \cup {Nil}]
            /\ UNCHANGED <<status, owed, waived>> /\ QueueMoves
        BY <1>1, <2>7, <3>1, <3>2, <3>3, AdvanceTypes DEF Target
      <3> QED
        BY <1>1, <2>1, <2>2, <2>3, <2>4, <3>4 DEF NetTypeOK
    <2> QED
      BY <2>6, <2>7
  <1> QED
    BY <1>2, <1>3 DEF Closes, Breaks

LEMMA OtherTypes ==
  ASSUME NInv, SenderDials \/ \E s \in Servers : Crash(s) \/ Receive(s) \/ DropReceiver(s)
  PROVE  NetTypeOK' /\ QueueMoves /\ UNCHANGED envelope
  <1> DEFINE Flight == [by : Servers \cup {Sender} \cup Nat, rcpts : Seq(Boxes),
                        received : Nat, null : BOOLEAN, taken : BOOLEAN]
  <1>1. NetTypeOK
    BY DEF NInv
  <1>2. CASE SenderDials
    <2>1. offered.rcpts \in Seq(Boxes) /\ offered.null \in BOOLEAN
      BY <1>1, NetworkAssumption DEF NetTypeOK
    <2>2. flight' \subseteq Flight
      <3>1. [by |-> Sender, rcpts |-> offered.rcpts, null |-> offered.null,
             received |-> 0, taken |-> FALSE] \in Flight
        BY <2>1
      <3> QED
        BY <1>1, <1>2, <3>1 DEF SenderDials, NetTypeOK
    <2> QED
      BY <1>1, <1>2, <2>2 DEF SenderDials, NetTypeOK, queue, mail, spool, channel, QueueMoves
  <1>3. ASSUME NEW s \in Servers, Crash(s) PROVE NetTypeOK' /\ QueueMoves /\ UNCHANGED envelope
    <2>1. mishaps' \in 0 .. MaxMishaps /\ losses' \in Nat /\ open' \subseteq Embedding
      BY <1>1, <1>3, NetworkAssumption DEF Crash, Mishap, NetTypeOK
    <2>2. flight' \subseteq Flight
      <3>1. CASE Waits(s)
        <4>1. PICK f \in flight : f.by = s /\ \E orphan \in Orphaned(f) : flight' = (flight \ {f}) \cup orphan
          BY <1>3, <3>1 DEF Crash, Waits
        <4>2. f \in Flight
          BY <1>1 DEF NetTypeOK
        <4>3. \A orphan \in Orphaned(f) : orphan \subseteq Flight
          BY <2>1, <4>2 DEF Orphaned
        <4> QED
          BY <1>1, <4>1, <4>3 DEF NetTypeOK
      <3>2. CASE ~ Waits(s)
        BY <1>1, <1>3, <3>2 DEF Crash, NetTypeOK
      <3> QED
        BY <3>1, <3>2
    <2>3. /\ work' \in [Servers -> Pass \cup {Nil}] /\ inbox' \in [Servers -> Seq(Ids)]
          /\ listed' \in [Servers -> SUBSET Ids]
      BY <1>1, <1>3 DEF Crash, NetTypeOK
    <2>4. UNCHANGED <<envelope, tries, filed, offered, sender, got>>
      BY <1>3 DEF Crash, mail
    <2>5. CASE Rewriting(s)
      <3>1. Entry(s) \in Ids /\ Q!Damage(Entry(s)) /\ torn' = torn \cup {s}
        BY <1>1, <1>3, <2>5, PassAtHand DEF Crash, Rewriting, Tears
      <3> QED
        BY <1>1, <2>1, <2>2, <2>3, <2>4, <3>1, DamageTypes DEF NetTypeOK, QueueMoves
    <2>6. CASE ~ Rewriting(s)
      BY <1>1, <1>3, <2>1, <2>2, <2>3, <2>4, <2>6 DEF Crash, NetTypeOK, queue, QueueMoves
    <2> QED
      BY <2>5, <2>6
  <1>4. ASSUME NEW s \in Servers, Receive(s) \/ DropReceiver(s)
        PROVE  NetTypeOK' /\ QueueMoves /\ UNCHANGED envelope
    <2>1. mishaps' \in 0 .. MaxMishaps /\ losses' \in Nat /\ open' \subseteq Embedding
      <3>1. CASE Receive(s)
        BY <1>1, <3>1 DEF Receive, NetTypeOK
      <3>2. CASE DropReceiver(s)
        <4>1. open' = open \ {s} /\ losses' = losses + 1 /\ Mishap
          BY <3>2 DEF DropReceiver
        <4>2. mishaps \in 0 .. MaxMishaps /\ losses \in Nat /\ open \subseteq Embedding
          BY <1>1 DEF NetTypeOK
        <4> QED
          BY <4>1, <4>2, NetworkAssumption DEF Mishap
      <3> QED
        BY <1>4, <3>1, <3>2
    <2>2. inbox[s] \in Seq(Ids)
      BY <1>1 DEF NetTypeOK
    <2>3. got' \subseteq Ids /\ inbox' \in [Servers -> Seq(Ids)]
      <3>1. CASE Receive(s)
        <4>1. Head(inbox[s]) \in Ids /\ Tail(inbox[s]) \in Seq(Ids)
          BY <2>2, <3>1 DEF Receive
        <4> QED
          BY <1>1, <3>1, <4>1 DEF Receive, NetTypeOK
      <3>2. CASE DropReceiver(s)
        BY <1>1, <3>2 DEF DropReceiver, NetTypeOK
      <3> QED
        BY <1>4, <3>1, <3>2
    <2> QED
      BY <1>1, <1>4, <2>1, <2>3
      DEF Receive, DropReceiver, NetTypeOK, queue, mail, spool, QueueMoves
  <1> QED
    BY <1>2, <1>3, <1>4

LEMMA TakeTypes ==
  ASSUME NInv, NEW f \in flight, Take(f) PROVE NetTypeOK'
  <1> DEFINE Flight == [by : Servers \cup {Sender} \cup Nat, rcpts : Seq(Boxes),
                        received : Nat, null : BOOLEAN, taken : BOOLEAN]
  <1>1. NetTypeOK /\ f \in Flight
    BY DEF NInv, NetTypeOK
  <1>2. PICK m \in Ids :
          /\ status[m] = "new" /\ Q!Accept(m)
          /\ envelope' = [envelope EXCEPT ![m] = [rcpts |-> f.rcpts, received |-> f.received,
                                                  null |-> f.null]]
    BY DEF Take
  <1>3. envelope' \in [Ids -> Envelope \cup {Nil}]
    BY <1>1, <1>2 DEF NetTypeOK, Envelope
  <1>4. flight' \subseteq Flight
    <2>1. [f EXCEPT !.taken = TRUE] \in Flight
      BY <1>1
    <2> QED
      BY <1>1, <2>1 DEF Take, NetTypeOK
  <1>5. status' \in [Ids -> {"new", "queued", "gone", "damaged"}] /\ owed' \in [Ids -> SUBSET Target]
    BY <1>1, <1>2 DEF Q!Accept, NetTypeOK
  <1> QED
    BY <1>1, <1>2, <1>3, <1>4, <1>5 DEF Take, Q!Accept, NetTypeOK, spool, channel

LEMMA Moves ==
  ASSUME NInv, NetNext
  PROVE  NetTypeOK' /\ ((QueueMoves /\ UNCHANGED envelope) \/ \E f \in flight : Take(f))
  BY WorkerTypes, DialogueTypes, OtherTypes, TakeTypes DEF NetNext, Works, Closes

------------------------------------------------------------------------------
\* What was taken stays taken as it was, and mailboxes only fill.
LEMMA TakenStays ==
  ASSUME NInv, NetNext, NEW m \in Ids, status[m] # "new"
  PROVE  status'[m] # "new" /\ envelope'[m] = envelope[m]
  <1>1. NetTypeOK
    BY DEF NInv
  <1>2. CASE QueueMoves /\ UNCHANGED envelope
    <2>1. CASE UNCHANGED queue
      BY <1>2, <2>1 DEF queue
    <2>2. ASSUME NEW n \in Ids, NEW t, Q!Hand(n, t) PROVE status'[m] # "new"
      BY <2>2 DEF Q!Hand
    <2>3. ASSUME NEW n \in Ids, NEW T, Q!Waive(n, T) \/ Q!Record(n, T) PROVE status'[m] # "new"
      BY <2>3 DEF Q!Waive, Q!Record
    <2>4. ASSUME NEW n \in Ids, Q!Leave(n) \/ Q!Damage(n) PROVE status'[m] # "new"
      BY <1>1, <2>4 DEF Q!Leave, Q!Damage, NetTypeOK
    <2> QED
      BY <1>2, <2>1, <2>2, <2>3, <2>4 DEF QueueMoves
  <1>3. ASSUME NEW f \in flight, Take(f) PROVE status'[m] # "new" /\ envelope'[m] = envelope[m]
    BY <1>1, <1>3 DEF Take, Q!Accept, NetTypeOK
  <1> QED
    BY <1>2, <1>3, Moves

LEMMA TakenOnce ==
  ASSUME NInv, NetNext, NEW rcpts, NEW received, WasTaken(rcpts, received)
  PROVE  WasTaken(rcpts, received)'
  BY TakenStays DEF WasTaken

LEMMA PassedOnce ==
  ASSUME NInv, NetNext, NEW m \in Ids, status[m] # "new", NEW i, Passed(m, i)
  PROVE  Passed(m, i)'
  BY TakenStays, TakenOnce DEF Passed, Destination

\* Destinations and places of what was taken stay.
LEMMA PlacesStay ==
  ASSUME NInv, NetNext, NEW m \in Ids, status[m] # "new"
  PROVE  /\ Aliases(m)' = Aliases(m) /\ HomeOf(m)' = HomeOf(m)
         /\ \A i : Destination(m, i)' = Destination(m, i)
  BY TakenStays DEF Aliases, HomeOf, Destination

LEMMA FiledGrows ==
  ASSUME NInv, NetNext, NEW b \in Boxes
  PROVE  filed[b] \in Nat /\ filed'[b] \in Nat /\ filed[b] <= filed'[b]
  <1>1. NetTypeOK /\ NetTypeOK'
    BY Moves DEF NInv
  <1>2. ASSUME NEW s \in Servers, Store(s) PROVE filed[b] <= filed'[b]
    BY <1>1, <1>2 DEF Store, NetTypeOK
  <1>3. CASE ~ \E s \in Servers : Store(s)
    <2>1. UNCHANGED filed
      BY <1>3
      DEF NetNext, Worker, SenderDials, ListDue, BeginPass, Post, Hand, HandFails, NothingToForward,
          RefuseToForward, Dial, Finish, StartRewrite, Reschedule, WaiveFailed, StoreFails,
          RewriteFails, SettleFails, Crash, Receive, DropReceiver, Take, Hear, Refuse, CommitFails,
          Untaken, Cut, mail
    <2> QED
      BY <1>1, <2>1 DEF NetTypeOK
  <1> QED
    BY <1>1, <1>2, <1>3 DEF NetTypeOK

LEMMA EntriesKeep == NInv /\ NetNext => Entries'
  <1> SUFFICES ASSUME NInv, NetNext PROVE Entries'
    OBVIOUS
  <1>1. NetTypeOK /\ Entries
    BY DEF NInv
  <1>2. ASSUME NEW f \in flight, Take(f) PROVE Entries'
    <2>1. PICK m \in Ids :
            /\ status[m] = "new" /\ Q!Accept(m)
            /\ owed'[m] = TargetsOf(Home[f.rcpts[1]])
            /\ envelope' = [envelope EXCEPT ![m] = [rcpts |-> f.rcpts, received |-> f.received,
                                                    null |-> f.null]]
      BY <1>2 DEF Take
    <2>2. OneHome(f.rcpts) /\ f.received <= MaxReceived
      BY DEF NInv, Dialogues
    <2>3. f.received \in Nat /\ f.null \in BOOLEAN /\ f.rcpts \in Seq(Boxes)
      BY <1>1 DEF NetTypeOK
    <2>4. /\ status'[m] = "queued" /\ envelope'[m] \in Envelope /\ envelope'[m].received <= MaxReceived
          /\ OneHome(envelope'[m].rcpts) /\ TargetsOf(HomeOf(m))' = owed'[m]
      BY <1>1, <2>1, <2>2, <2>3 DEF Q!Accept, NetTypeOK, HomeOf, Envelope, TargetsOf
    <2>5. ASSUME NEW n \in Ids, n # m
          PROVE  UNCHANGED <<status[n], owed[n], envelope[n], HomeOf(n)>>
      BY <1>1, <2>1, <2>5 DEF Q!Accept, NetTypeOK, HomeOf
    <2>6. UNCHANGED <<handed, waived>>
      BY <2>1 DEF Q!Accept
    <2>7. OneHome(envelope[m].rcpts)' <=> OneHome(envelope'[m].rcpts)
      BY DEF OneHome
    <2>8. ASSUME NEW n \in Ids, n # m PROVE OneHome(envelope[n].rcpts)' <=> OneHome(envelope[n].rcpts)
      BY <2>5, <2>8 DEF OneHome
    <2> QED
      BY <1>1, <2>4, <2>5, <2>6, <2>7, <2>8 DEF Entries, TargetsOf
  <1>3. CASE QueueMoves /\ UNCHANGED envelope
    <2>1. /\ \A m \in Ids : HomeOf(m)' = HomeOf(m)
          /\ \A m \in Ids : OneHome(envelope[m].rcpts)' <=> OneHome(envelope[m].rcpts)
          /\ \A s : TargetsOf(s)' = TargetsOf(s) /\ TargetsOf(s) \subseteq Target
      BY <1>3 DEF HomeOf, OneHome, TargetsOf
    <2>2. CASE UNCHANGED queue
      BY <1>1, <1>3, <2>1, <2>2 DEF queue, Entries
    <2>3. ASSUME NEW m \in Ids, NEW t \in Target, Q!Hand(m, t) PROVE Entries'
      BY <1>1, <1>3, <2>1, <2>3 DEF Q!Hand, Entries
    <2>4. ASSUME NEW m \in Ids, NEW T \in SUBSET Target, Q!Waive(m, T) PROVE Entries'
      BY <1>1, <1>3, <2>1, <2>4 DEF Q!Waive, Entries
    <2>5. ASSUME NEW m \in Ids, NEW T \in SUBSET Target, Q!Record(m, T) PROVE Entries'
      BY <1>1, <1>3, <2>1, <2>5 DEF Q!Record, Q!Closed, Entries, NetTypeOK
    <2>6. ASSUME NEW m \in Ids, Q!Leave(m) PROVE Entries'
      BY <1>1, <1>3, <2>1, <2>6 DEF Q!Leave, Q!Closed, Entries, NetTypeOK
    <2>7. ASSUME NEW m \in Ids, Q!Damage(m) PROVE Entries'
      BY <1>1, <1>3, <2>1, <2>7 DEF Q!Damage, Entries, NetTypeOK
    <2> QED
      BY <1>3, <2>2, <2>3, <2>4, <2>5, <2>6, <2>7 DEF QueueMoves
  <1> QED
    BY <1>2, <1>3, Moves

\* Only the end of its own worker's pass takes an entry out of a queue.
EndsPass(s) == work[s] # Nil /\ work' = [work EXCEPT ![s] = Nil]

LEMMA StaysQueued ==
  ASSUME NInv, NetNext, NEW m \in Ids, status[m] = "queued"
  PROVE  \/ status'[m] = "queued"
         \/ \E s \in Servers : EndsPass(s) /\ m = Entry(s) /\ (Finish(s) \/ status'[m] = "damaged")
  <1> DEFINE Goal == \/ status'[m] = "queued"
                     \/ \E s \in Servers : /\ EndsPass(s) /\ m = Entry(s)
                                           /\ Finish(s) \/ status'[m] = "damaged"
  <1>1. NetTypeOK
    BY DEF NInv
  <1>2. ASSUME NEW s \in Servers, Finish(s) PROVE Goal
    BY <1>1, <1>2 DEF Finish, Over, EndsPass, Q!Leave, NetTypeOK
  <1>3. ASSUME NEW f \in flight, Take(f) PROVE status'[m] = "queued"
    BY <1>1, <1>3 DEF Take, Q!Accept, NetTypeOK
  <1>4. ASSUME NEW s \in Servers, RewriteFails(s) \/ Crash(s) PROVE Goal
    <2>1. CASE ~ Rewriting(s)
      BY <1>4, <2>1 DEF RewriteFails, Crash, queue
    <2>2. CASE Rewriting(s)
      BY <1>1, <1>4, <2>2
      DEF RewriteFails, Crash, Rewriting, Tears, EndsPass, Q!Damage, NetTypeOK
    <2> QED
      BY <2>1, <2>2
  <1>5. CASE /\ ~ \E s \in Servers : Finish(s) \/ RewriteFails(s) \/ Crash(s)
             /\ ~ \E f \in flight : Take(f)
    <2>1. UNCHANGED status
      BY <1>5, ZenonT(30)
      DEF NetNext, Worker, SenderDials, ListDue, BeginPass, Store, Post, Hand, HandFails,
          NothingToForward, RefuseToForward, Dial, StartRewrite, Reschedule, WaiveFailed, StoreFails,
          SettleFails, Receive, DropReceiver, Hear, Refuse, CommitFails, Untaken, Cut, Forwarded,
          Disappointed, Advance, Done, TargetFails, Q!Hand, Q!Record, Q!Waive, queue
    <2> QED
      BY <2>1
  <1> QED
    BY <1>2, <1>3, <1>4, <1>5

\* What one step may do to the pass of server s.
Steps(s) ==
  \/ work'[s] = work[s]
  \/ work'[s] = Nil
  \/ \E m \in Ids : BeginPass(s, m)
  \/ \E t \in Target : AtTarget(s, t) /\ (Done(s, t) \/ TargetFails(s, t))
  \/ Store(s)
  \/ \E f \in flight : f.by = s /\ Hear(f) /\ AtTarget(s, "forward") /\ Forwarded(s)
  \/ StartRewrite(s)

LEMMA WorkSteps ==
  ASSUME NInv, NetNext, NEW s \in Servers
  PROVE  Steps(s)
  <1>1. NetTypeOK
    BY DEF NInv
  <1>2. ASSUME NEW r \in Servers, Works(r) PROVE Steps(s)
    <2>1. CASE r = s
      BY <1>1, <1>2, <2>1
      DEF Works, Worker, Steps, ListDue, Post, Hand, HandFails, NothingToForward, RefuseToForward,
          Dial, Finish, Reschedule, WaiveFailed, StoreFails, RewriteFails, SettleFails, Target,
          NetTypeOK
    <2>2. CASE r # s
      <3>1. work'[s] = work[s]
        BY <1>1, <1>2, <2>2
        DEF Works, Worker, ListDue, BeginPass, Store, Post, Hand, HandFails, NothingToForward,
            RefuseToForward, Dial, Finish, StartRewrite, Reschedule, WaiveFailed, StoreFails,
            RewriteFails, SettleFails, Advance, Done, TargetFails, NetTypeOK
      <3> QED
        BY <3>1 DEF Steps
    <2> QED
      BY <2>1, <2>2
  <1>3. ASSUME NEW f \in flight, Closes(f) PROVE Steps(s)
    <2>1. CASE f.by \notin Servers
      BY <1>3, <2>1
      DEF Closes, Hear, Refuse, CommitFails, Untaken, Cut, Waiting, Disappointed, Steps
    <2>2. CASE f.by \in Servers
      <3>1. /\ AtTarget(f.by, "forward")
            /\ (Hear(f) /\ Forwarded(f.by)) \/ TargetFails(f.by, "forward")
        BY <1>3, <2>2, NetworkAssumption
        DEF Closes, Hear, Refuse, CommitFails, Untaken, Cut, Disappointed, NInv, Dialogues, Belongs
      <3>2. CASE f.by = s
        BY <3>1, <3>2 DEF Steps, Target
      <3>3. CASE f.by # s
        <4>1. work'[s] = work[s]
          BY <1>1, <3>1, <3>3 DEF Forwarded, Advance, Done, TargetFails, NetTypeOK
        <4> QED
          BY <4>1 DEF Steps
      <3> QED
        BY <3>2, <3>3
    <2> QED
      BY <2>1, <2>2
  <1>4. ASSUME NEW r \in Servers, Crash(r) PROVE Steps(s)
    BY <1>1, <1>4 DEF Crash, Steps, NetTypeOK
  <1>5. ASSUME NEW r \in Servers, Receive(r) \/ DropReceiver(r) PROVE Steps(s)
    BY <1>5 DEF Receive, DropReceiver, Steps
  <1>6. ASSUME SenderDials \/ \E f \in flight : Take(f) PROVE Steps(s)
    BY <1>6 DEF SenderDials, Take, Steps
  <1> QED
    BY <1>2, <1>3, <1>4, <1>5, <1>6 DEF NetNext, Works, Closes

\* A pass keeps its entry to its end.
LEMMA SameEntry ==
  ASSUME NInv, NetNext, NEW s \in Servers, work'[s] # Nil
  PROVE  \/ \E m \in Ids : BeginPass(s, m) /\ work'[s].of = m
         \/ work[s] # Nil /\ work'[s].of = work[s].of
  <1>1. NetTypeOK
    BY DEF NInv
  <1>2. CASE work'[s] = work[s]
    BY <1>2
  <1>3. ASSUME NEW m \in Ids, BeginPass(s, m) PROVE work'[s].of = m
    BY <1>1, <1>3 DEF BeginPass, NetTypeOK
  <1>4. ASSUME NEW t \in Target, AtTarget(s, t), Done(s, t) \/ TargetFails(s, t)
        PROVE  work[s] # Nil /\ work'[s].of = work[s].of
    BY <1>1, <1>4 DEF AtTarget, Done, TargetFails, Without, Entry, NetTypeOK
  <1>5. ASSUME NEW t, NEW P, NEW i, AtTarget(s, t), Advance(s, t, P, i)
        PROVE  work[s] # Nil /\ work'[s].of = work[s].of
    BY <1>1, <1>5, PassAtHand DEF AtTarget, Advance, Done, Without, Entry, NetTypeOK, Pass
  <1>6. CASE Store(s) \/ (AtTarget(s, "forward") /\ Forwarded(s))
    BY <1>5, <1>6 DEF Store, Forwarded
  <1>7. CASE StartRewrite(s)
    BY <1>1, <1>7, PassAtHand DEF StartRewrite, Over, NetTypeOK, Pass
  <1> QED
    BY <1>2, <1>3, <1>4, <1>6, <1>7, WorkSteps DEF Steps

LEMMA PassesKeep == NInv /\ NetNext => Passes'
  <1> SUFFICES ASSUME NInv, NetNext, NEW s \in Servers, work'[s] # Nil
               PROVE  /\ (status[Entry(s)] = "queued" /\ HomeOf(Entry(s)) = s)'
                      /\ work'[s].rewrites => work'[s].left = {}
    BY DEF Passes
  <1>1. NetTypeOK /\ NetTypeOK' /\ Passes
    BY Moves DEF NInv
  <1>2. PICK m \in Ids : m = work'[s].of /\ Entry(s)' = m
    BY <1>1 DEF NetTypeOK, Pass, Entry
  <1>3. status[m] = "queued" /\ HomeOf(m) = s /\ (work[s] # Nil => m = Entry(s))
    <2>1. ASSUME NEW k \in Ids, BeginPass(s, k), work'[s].of = k
          PROVE  status[m] = "queued" /\ HomeOf(m) = s /\ work[s] = Nil
      BY <1>2, <2>1 DEF BeginPass, Queued
    <2>2. ASSUME work[s] # Nil, work'[s].of = work[s].of
          PROVE  status[m] = "queued" /\ HomeOf(m) = s /\ m = Entry(s)
      BY <1>1, <1>2, <2>2 DEF Passes, Entry
    <2> QED
      BY <2>1, <2>2, SameEntry
  <1>4. HomeOf(m)' = HomeOf(m)
    BY <1>2, <1>3, PlacesStay
  <1>5. ASSUME NEW r \in Servers, EndsPass(r), m = Entry(r) PROVE FALSE
    <2>1. r = s
      BY <1>1, <1>3, <1>5 DEF EndsPass, Passes
    <2> QED
      BY <1>1, <1>5, <2>1 DEF EndsPass, NetTypeOK
  <1>6. status'[m] = "queued"
    BY <1>2, <1>3, <1>5, StaysQueued
  <1>7. work'[s].rewrites => work'[s].left = {}
    <2>1. CASE work'[s] = work[s]
      BY <1>1, <2>1 DEF Passes
    <2>2. ASSUME NEW k \in Ids, BeginPass(s, k) PROVE ~ work'[s].rewrites
      BY <1>1, <2>2 DEF BeginPass, NetTypeOK
    <2>3. ASSUME NEW t, Done(s, t) \/ TargetFails(s, t) PROVE ~ work'[s].rewrites
      BY <1>1, <2>3 DEF Done, TargetFails, Without, NetTypeOK
    <2>4. ASSUME NEW t, NEW P, NEW i, work[s] # Nil, Advance(s, t, P, i)
          PROVE  work'[s].rewrites => work'[s].left = {}
      <3>1. CASE Done(s, t)
        BY <2>3, <3>1
      <3>2. CASE ~ Done(s, t)
        <4>1. work' = [work EXCEPT ![s].at = i + 1]
          BY <2>4, <3>2 DEF Advance
        <4>2. work'[s].rewrites = work[s].rewrites /\ work'[s].left = work[s].left
          BY <1>1, <2>4, <4>1, PassAtHand DEF NetTypeOK, Pass
        <4> QED
          BY <1>1, <2>4, <4>2 DEF Passes
      <3> QED
        BY <3>1, <3>2
    <2>5. CASE Store(s) \/ (AtTarget(s, "forward") /\ Forwarded(s))
      BY <2>4, <2>5 DEF Store, Forwarded, AtTarget
    <2>6. CASE StartRewrite(s)
      BY <1>1, <2>6, PassAtHand DEF StartRewrite, Over, NetTypeOK, Pass
    <2> QED
      BY <2>1, <2>2, <2>3, <2>5, <2>6, WorkSteps DEF Steps
  <1> QED
    BY <1>2, <1>3, <1>4, <1>6, <1>7 DEF HomeOf

\* Where a pass has come to when it has not just come to another target.
LEMMA Behind ==
  ASSUME NInv, NEW s \in Servers, NEW t \in Target, NEW P \in SUBSET Nat, NEW i \in P,
         work[s] # Nil, Turn(s, P, i), NEW j \in P, j <= i
  PROVE  j = i \/ j < work[s].at
  <1>1. work[s].at \in Nat /\ i \in Nat /\ j \in Nat
    BY PassAtHand DEF NInv, Pass
  <1> QED
    BY <1>1 DEF Turn

\* What a forwarder hears of is the destination it is at.
LEMMA HeardAbout ==
  ASSUME NInv, NEW s \in Servers, work[s] # Nil, NEW f \in flight, f.by = s, Hear(f),
         Aliases(Entry(s)) \in SUBSET Nat,
         NEW i, Turn(s, Aliases(Entry(s)), i)
  PROVE  Passed(Entry(s), i)
  <1>1. Belongs(f) /\ WasTaken(f.rcpts, f.received)
    BY DEF Hear, NInv, Dialogues
  <1>2. PICK k \in Aliases(Entry(s)) :
          /\ Turn(s, Aliases(Entry(s)), k)
          /\ f.rcpts = <<Destination(Entry(s), k)>>
          /\ f.received = envelope[Entry(s)].received + 1
    BY <1>1 DEF Belongs
  <1>3. k = i
    BY <1>2, OneTurn, PassAtHand DEF NInv, Pass
  <1> QED
    BY <1>1, <1>2, <1>3 DEF Passed

LEMMA ProgressKeep == NInv /\ NetNext => Progress'
  <1> SUFFICES ASSUME NInv, NetNext, NEW s \in Servers
               PROVE  /\ AtTarget(s, "mailbox")' =>
                           \A i \in DOMAIN envelope'[Entry(s)'].rcpts :
                             i < work'[s].at => filed'[envelope'[Entry(s)'].rcpts[i]] > 0
                      /\ AtTarget(s, "forward")' =>
                           \A i \in Aliases(Entry(s))' : i < work'[s].at => Passed(Entry(s), i)'
    BY DEF Progress
  <1>1. NetTypeOK /\ NetTypeOK'
    BY Moves DEF NInv
  <1>2. CASE work'[s] = Nil
    BY <1>2 DEF AtTarget
  <1> SUFFICES ASSUME work'[s] # Nil
               PROVE  /\ AtTarget(s, "mailbox")' =>
                           \A i \in DOMAIN envelope'[Entry(s)'].rcpts :
                             i < work'[s].at => filed'[envelope'[Entry(s)'].rcpts[i]] > 0
                      /\ AtTarget(s, "forward")' =>
                           \A i \in Aliases(Entry(s))' : i < work'[s].at => Passed(Entry(s), i)'
    BY <1>2
  <1>m. PICK m \in Ids : m = work'[s].of /\ Entry(s)' = m
    BY <1>1 DEF NetTypeOK, Pass, Entry
  <1>3. status[m] = "queued" /\ envelope[m] \in Envelope
    <2>1. status[m] = "queued"
      BY <1>1, <1>m, SameEntry DEF NInv, Passes, BeginPass, Queued, Entry
    <2> QED
      BY <2>1 DEF NInv, Entries
  <1>4. envelope'[m] = envelope[m] /\ Aliases(m)' = Aliases(m)
    BY <1>3, TakenStays, PlacesStay
  <1>5. \A i \in DOMAIN envelope[m].rcpts :
          i \in Nat \ {0} /\ envelope[m].rcpts[i] \in Boxes
    BY <1>3 DEF Envelope
  <1>6. Aliases(m) \subseteq DOMAIN envelope[m].rcpts
    BY DEF Aliases
  <1>7. CASE work'[s].at = 1
    BY <1>m, <1>3, <1>4, <1>5, <1>6, <1>7 DEF Aliases
  <1>8. CASE work'[s] = work[s]
    <2>1. /\ AtTarget(s, "mailbox")' = AtTarget(s, "mailbox")
          /\ AtTarget(s, "forward")' = AtTarget(s, "forward")
          /\ Entry(s) = m
      BY <1>m, <1>8 DEF AtTarget, Entry
    <2>2. AtTarget(s, "mailbox") => \A i \in DOMAIN envelope[m].rcpts :
            i < work[s].at => filed'[envelope[m].rcpts[i]] > 0
      BY <1>5, <2>1, FiledGrows DEF NInv, Progress
    <2>3. AtTarget(s, "forward") => \A i \in Aliases(m) : i < work[s].at => Passed(m, i)'
      BY <1>3, <2>1, PassedOnce DEF NInv, Progress
    <2> QED
      BY <1>m, <1>3, <1>4, <1>8, <2>1, <2>2, <2>3 DEF Passed
  <1>10. CASE StartRewrite(s)
    <2>1. work[s] # Nil /\ work[s].left = {}
      BY <1>10 DEF StartRewrite, Over
    <2>2. work'[s].left = {}
      BY <1>1, <1>10, <2>1, PassAtHand DEF StartRewrite, NetTypeOK, Pass
    <2> QED
      BY <2>2 DEF AtTarget
  <1>9. CASE work'[s] # work[s] /\ work'[s].at # 1 /\ ~ StartRewrite(s)
    <2>1. ~ \E k \in Ids : BeginPass(s, k)
      BY <1>1, <1>9 DEF BeginPass, NetTypeOK
    <2>2. \A t \in Target : ~ Done(s, t) /\ ~ TargetFails(s, t)
      BY <1>1, <1>9 DEF Done, TargetFails, Without, NetTypeOK
    <2>3. \/ Store(s)
         \/ \E f \in flight : f.by = s /\ Hear(f) /\ AtTarget(s, "forward") /\ Forwarded(s)
      BY <1>9, <2>1, <2>2, WorkSteps DEF Steps
    <2>4. work[s] # Nil /\ Entry(s) = m
      BY <2>1, SameEntry, <1>m DEF Entry
    <2>5. CASE Store(s)
      <3>1. PICK i \in DOMAIN envelope[m].rcpts :
              /\ Turn(s, DOMAIN envelope[m].rcpts, i)
              /\ filed' = [filed EXCEPT ![envelope[m].rcpts[i]] = @ + 1]
              /\ Advance(s, "mailbox", DOMAIN envelope[m].rcpts, i)
        BY <2>4, <2>5 DEF Store
      <3>2. work' = [work EXCEPT ![s].at = i + 1]
        BY <2>2, <3>1 DEF Advance, Target
      <3>3. work'[s].at = i + 1 /\ work'[s].left = work[s].left
        BY <1>1, <2>4, <3>2, PassAtHand DEF NetTypeOK, Pass
      <3>4. AtTarget(s, "mailbox")
        BY <2>5 DEF Store
      <3>5. ~ AtTarget(s, "forward")'
        BY <2>4, <3>3, <3>4 DEF AtTarget, Rank
      <3>6. ASSUME NEW j \in DOMAIN envelope[m].rcpts, j < i + 1
            PROVE  filed'[envelope[m].rcpts[j]] > 0
        <4>1. j = i \/ j < work[s].at
          BY <1>3, <1>5, <2>4, <3>1, <3>6, Behind DEF Envelope, Target
        <4>2. CASE j = i
          BY <1>1, <1>5, <3>1, <4>2 DEF NetTypeOK
        <4>3. CASE j < work[s].at
          BY <1>5, <2>4, <3>4, <4>3, FiledGrows DEF NInv, Progress
        <4> QED
          BY <4>1, <4>2, <4>3
      <3> QED
        BY <1>m, <1>3, <1>4, <3>3, <3>5, <3>6
    <2>6. ASSUME NEW f \in flight, f.by = s, Hear(f), AtTarget(s, "forward"), Forwarded(s)
          PROVE  \A i \in Aliases(m) : i < work'[s].at => Passed(m, i)'
      <3>1. PICK i \in Aliases(m) : Turn(s, Aliases(m), i) /\ Advance(s, "forward", Aliases(m), i)
        BY <2>4, <2>6 DEF Forwarded
      <3>2. work' = [work EXCEPT ![s].at = i + 1]
        BY <2>2, <3>1 DEF Advance, Target
      <3>3. work'[s].at = i + 1 /\ work'[s].left = work[s].left
        BY <1>1, <2>4, <3>2, PassAtHand DEF NetTypeOK, Pass
      <3>5. Passed(m, i)
        BY <1>5, <1>6, <2>4, <2>6, <3>1, HeardAbout
      <3>6. ASSUME NEW j \in Aliases(m), j < i + 1 PROVE Passed(m, j)
        <4>1. j = i \/ j < work[s].at
          BY <1>5, <1>6, <2>4, <3>1, <3>6, Behind DEF Target
        <4> QED
          BY <2>4, <2>6, <3>5, <4>1 DEF NInv, Progress
      <3> QED
        BY <1>3, <3>3, <3>6, PassedOnce
    <2>7. ASSUME NEW f \in flight, f.by = s, Hear(f), AtTarget(s, "forward"), Forwarded(s)
          PROVE  ~ AtTarget(s, "mailbox")'
      <3>1. work'[s].left = work[s].left
        <4>1. PICK i : Advance(s, "forward", Aliases(m), i)
          BY <2>4, <2>7 DEF Forwarded
        <4> QED
          BY <1>1, <2>2, <2>4, <4>1, PassAtHand DEF Advance, Target, NetTypeOK, Pass
      <3> QED
        BY <2>4, <2>7, <3>1 DEF AtTarget, Rank
    <2> QED
      BY <1>m, <1>4, <2>3, <2>5, <2>6, <2>7 DEF Passed
  <1> QED
    BY <1>7, <1>8, <1>9, <1>10

\* A target is handed a message by the worker of the server, at that target.
LEMMA NewlyHanded ==
  ASSUME NInv, NetNext, NEW m \in Ids, NEW t \in {"mailbox", "channel", "forward"},
         <<m, t>> \in handed', <<m, t>> \notin handed
  PROVE  \E s \in Servers :
           /\ work[s] # Nil /\ m = Entry(s) /\ AtTarget(s, t)
           /\ \/ t = "mailbox" /\ Store(s)
              \/ t = "channel" /\ Hand(s)
              \/ t = "forward" /\ NothingToForward(s)
              \/ t = "forward" /\ \E f \in flight : f.by = s /\ Hear(f) /\ Forwarded(s)
  <1> DEFINE Goal == \E s \in Servers :
           /\ work[s] # Nil /\ m = Entry(s) /\ AtTarget(s, t)
           /\ \/ t = "mailbox" /\ Store(s)
              \/ t = "channel" /\ Hand(s)
              \/ t = "forward" /\ NothingToForward(s)
              \/ t = "forward" /\ \E f \in flight : f.by = s /\ Hear(f) /\ Forwarded(s)
  <1>1. ASSUME NEW s \in Servers, NEW u, Done(s, u), AtTarget(s, u)
        PROVE  work[s] # Nil /\ m = Entry(s) /\ t = u
    BY <1>1 DEF Done, Q!Hand, AtTarget
  <1>2. ASSUME NEW s \in Servers, NEW u, TargetFails(s, u) \/ UNCHANGED queue PROVE FALSE
    BY <1>2 DEF TargetFails, queue
  <1>3. ASSUME NEW s \in Servers, Store(s) PROVE Goal
    <2>1. AtTarget(s, "mailbox") /\ Done(s, "mailbox")
      BY <1>2, <1>3 DEF Store, Advance
    <2> QED
      BY <1>1, <1>3, <2>1
  <1>4. ASSUME NEW s \in Servers, NothingToForward(s) PROVE Goal
    <2>1. AtTarget(s, "forward") /\ Done(s, "forward")
      BY <1>4 DEF NothingToForward
    <2> QED
      BY <1>1, <1>4, <2>1
  <1>5. ASSUME NEW s \in Servers, Post(s) \/ Hand(s) PROVE Goal
    BY <1>1, <1>2, <1>5 DEF Post, Hand
  <1>6. ASSUME NEW f \in flight, Hear(f) PROVE Goal
    <2>1. f.by # Sender
      BY <1>2, <1>6 DEF Hear, queue
    <2>2. f.by \in Servers /\ Forwarded(f.by) /\ AtTarget(f.by, "forward")
      BY <1>6, <2>1 DEF Hear, Waiting, NInv, Dialogues, Belongs
    <2>3. Done(f.by, "forward")
      BY <1>2, <2>2 DEF Forwarded, Advance
    <2> QED
      BY <1>1, <1>6, <2>2, <2>3
  <1>7. ASSUME NEW s \in Servers,
               \/ StoreFails(s) \/ HandFails(s) \/ RefuseToForward(s) \/ Dial(s)
               \/ Receive(s) \/ DropReceiver(s) \/ (\E k \in Ids : BeginPass(s, k))
               \/ ListDue(s) \/ StartRewrite(s) \/ SettleFails(s)
        PROVE  FALSE
    BY <1>2, <1>7 DEF StoreFails, HandFails, RefuseToForward, Dial, Receive, DropReceiver,
       BeginPass, ListDue, StartRewrite, SettleFails
  <1>8. ASSUME NEW s \in Servers, Finish(s) \/ Reschedule(s) \/ WaiveFailed(s) PROVE FALSE
    BY <1>8 DEF Finish, Reschedule, WaiveFailed, Q!Leave, Q!Record, Q!Waive
  <1>11. ASSUME NEW s \in Servers, RewriteFails(s) \/ Crash(s) PROVE FALSE
    BY <1>2, <1>11 DEF RewriteFails, Crash, Tears, Q!Damage
  <1>9. ASSUME NEW f \in flight, Refuse(f) \/ CommitFails(f) \/ Cut(f) \/ Take(f) PROVE FALSE
    BY <1>9
    DEF Refuse, CommitFails, Untaken, Cut, Take, Disappointed, TargetFails, queue, Q!Accept
  <1>10. CASE SenderDials
    BY <1>10 DEF SenderDials, queue
  <1> QED
    BY <1>3, <1>4, <1>5, <1>6, <1>7, <1>8, <1>9, <1>10, <1>11 DEF NetNext, Worker

LEMMA HandedKeeps == NInv /\ NetNext => HandedIsDone'
  <1> SUFFICES ASSUME NInv, NetNext PROVE HandedIsDone'
    OBVIOUS
  <1>1. NetTypeOK /\ NetTypeOK'
    BY Moves DEF NInv
  <1>2. ASSUME NEW m \in Ids, NEW t \in {"mailbox", "forward"}, <<m, t>> \in handed'
        PROVE  /\ status[m] # "new" /\ envelope[m] \in Envelope
               /\ envelope'[m] = envelope[m] /\ Aliases(m)' = Aliases(m)
    <2>1. CASE <<m, t>> \in handed
      <3>1. status[m] # "new"
        BY <1>2, <2>1 DEF NInv, Entries, Target
      <3> QED
        BY <3>1, TakenStays, PlacesStay DEF NInv, Entries
    <2>2. CASE <<m, t>> \notin handed
      <3>1. status[m] # "new"
        BY <1>2, <2>2, NewlyHanded DEF NInv, Passes
      <3> QED
        BY <3>1, TakenStays, PlacesStay DEF NInv, Entries
    <2> QED
      BY <2>1, <2>2
  <1>3. ASSUME NEW m \in Ids, <<m, "mailbox">> \in handed', NEW i \in DOMAIN envelope[m].rcpts
        PROVE  filed'[envelope[m].rcpts[i]] > 0
    <2>1. envelope[m] \in Envelope
      BY <1>2, <1>3
    <2>2. envelope[m].rcpts[i] \in Boxes /\ i \in Nat /\ DOMAIN envelope[m].rcpts \in SUBSET Nat
      BY <2>1 DEF Envelope
    <2>3. CASE <<m, "mailbox">> \in handed
      BY <2>2, <2>3, FiledGrows DEF NInv, HandedIsDone
    <2>4. CASE <<m, "mailbox">> \notin handed
      <3>1. PICK s \in Servers :
              work[s] # Nil /\ m = Entry(s) /\ AtTarget(s, "mailbox") /\ Store(s)
        BY <1>3, <2>4, NewlyHanded
      <3>2. PICK k \in DOMAIN envelope[m].rcpts :
              /\ Turn(s, DOMAIN envelope[m].rcpts, k)
              /\ filed' = [filed EXCEPT ![envelope[m].rcpts[k]] = @ + 1]
              /\ Advance(s, "mailbox", DOMAIN envelope[m].rcpts, k)
        BY <3>1 DEF Store
      <3>3. ~ k < i
        BY <1>3, <2>4, <3>2 DEF Advance, queue
      <3>4. i <= k
        BY <2>2, <3>3
      <3>5. i = k \/ i < work[s].at
        BY <2>2, <3>1, <3>2, <3>4, Behind DEF Target
      <3>6. CASE i = k
        BY <1>1, <2>2, <3>2, <3>6 DEF NetTypeOK
      <3>7. CASE i < work[s].at
        BY <2>2, <3>1, <3>7, FiledGrows DEF NInv, Progress
      <3> QED
        BY <3>5, <3>6, <3>7
    <2> QED
      BY <2>3, <2>4
  <1>4. ASSUME NEW m \in Ids, <<m, "forward">> \in handed', NEW i \in Aliases(m)
        PROVE  Passed(m, i)
    <2>1. envelope[m] \in Envelope
      BY <1>2, <1>4
    <2>2. i \in Nat /\ Aliases(m) \in SUBSET Nat
      BY <2>1 DEF Envelope, Aliases
    <2>3. CASE <<m, "forward">> \in handed
      BY <2>3 DEF NInv, HandedIsDone
    <2>4. CASE <<m, "forward">> \notin handed
      <3>1. PICK s \in Servers :
              /\ work[s] # Nil /\ m = Entry(s) /\ AtTarget(s, "forward")
              /\ \/ NothingToForward(s)
                 \/ \E f \in flight : f.by = s /\ Hear(f) /\ Forwarded(s)
        BY <1>4, <2>4, NewlyHanded
      <3>2. ~ NothingToForward(s)
        BY <3>1 DEF NothingToForward
      <3>3. PICK f \in flight : f.by = s /\ Hear(f) /\ Forwarded(s)
        BY <3>1, <3>2
      <3>4. PICK k \in Aliases(m) : Turn(s, Aliases(m), k) /\ Advance(s, "forward", Aliases(m), k)
        BY <3>1, <3>3 DEF Forwarded
      <3>5. ~ k < i
        BY <1>4, <2>4, <3>4 DEF Advance, queue
      <3>6. i = k \/ i < work[s].at
        BY <2>2, <3>1, <3>4, <3>5, Behind DEF Target
      <3>7. CASE i = k
        BY <2>2, <3>1, <3>3, <3>4, <3>7, HeardAbout
      <3>8. CASE i < work[s].at
        BY <3>1, <3>8 DEF NInv, Progress
      <3> QED
        BY <3>6, <3>7, <3>8
    <2> QED
      BY <2>3, <2>4
  <1>5. ASSUME NEW m \in Ids, <<m, "forward">> \in handed', NEW i \in Aliases(m)
        PROVE  Passed(m, i)'
    BY <1>2, <1>4, <1>5, PassedOnce
  <1> QED
    BY <1>2, <1>3, <1>5 DEF HandedIsDone, Passed

InOrder(f) ==
  /\ OneHome(f.rcpts) /\ f.received <= MaxReceived
  /\ Belongs(f)
  /\ f.taken => Waiting(f) /\ WasTaken(f.rcpts, f.received)

\* A dialogue stays in order while its client waits.
LEMMA StaysInOrder ==
  ASSUME NInv, NetNext, UNCHANGED offered, NEW f \in flight,
         f.by \in Servers => work'[f.by] = work[f.by]
  PROVE  InOrder(f)'
  <1>1. OneHome(f.rcpts) /\ f.received <= MaxReceived /\ Belongs(f)
        /\ (f.taken => Waiting(f) /\ WasTaken(f.rcpts, f.received))
    BY DEF NInv, Dialogues
  <1>2. ASSUME f.by \in Servers
        PROVE  /\ AtTarget(f.by, "forward")' /\ ~ envelope'[Entry(f.by)'].null
               /\ \E i \in Aliases(Entry(f.by))' :
                    /\ Turn(f.by, Aliases(Entry(f.by)), i)'
                    /\ f.rcpts = <<Destination(Entry(f.by), i)'>>
                    /\ f.received = envelope'[Entry(f.by)'].received + 1
    <2>1. work[f.by] # Nil /\ Entry(f.by)' = Entry(f.by)
      BY <1>1, <1>2 DEF Belongs, AtTarget, Entry
    <2>2. PICK m \in Ids : m = Entry(f.by) /\ status[m] # "new"
      BY <1>2, <2>1, PassAtHand DEF NInv, Passes
    <2>3. envelope'[m] = envelope[m] /\ Aliases(m)' = Aliases(m)
          /\ \A i : Destination(m, i)' = Destination(m, i)
      BY <2>2, TakenStays, PlacesStay
    <2>4. AtTarget(f.by, "forward")'
      BY <1>1, <1>2 DEF Belongs, AtTarget
    <2>5. PICK i \in Aliases(m) :
            /\ Turn(f.by, Aliases(m), i)
            /\ f.rcpts = <<Destination(m, i)>> /\ f.received = envelope[m].received + 1
      BY <1>1, <1>2, <2>2 DEF Belongs
    <2>6. Turn(f.by, Aliases(m), i)'
      BY <1>2, <2>3, <2>5 DEF Turn
    <2>7. ~ envelope[m].null
      BY <1>1, <1>2, <2>2 DEF Belongs
    <2> QED
      BY <2>1, <2>2, <2>3, <2>4, <2>5, <2>6, <2>7 DEF Turn, Destination
  <1>3. Belongs(f)'
    BY <1>1, <1>2 DEF Belongs
  <1>4. f.taken => Waiting(f)' /\ WasTaken(f.rcpts, f.received)'
    BY <1>1, TakenOnce DEF Waiting
  <1> QED
    BY <1>1, <1>3, <1>4 DEF InOrder, OneHome

\* Dialogues are in order if the new one is, and its client had none.
LEMMA DialoguesFrom ==
  ASSUME NInv, NetNext, UNCHANGED offered,
         \A f \in flight' : f \in flight /\ f.by \in Servers => work'[f.by] = work[f.by],
         \A f \in flight' : f \notin flight => InOrder(f)',
         \A f, g \in flight' : f \notin flight /\ Waiting(f) /\ f.by = g.by => f = g
  PROVE  Dialogues'
  <1>1. \A f \in flight' : InOrder(f)'
    BY StaysInOrder
  <1>2. \A f, g \in flight : Waiting(f) /\ f.by = g.by => f = g
    BY DEF NInv, Dialogues
  <1>3. \A f, g \in flight' : Waiting(f) /\ f.by = g.by => f = g
    BY <1>2 DEF Waiting
  <1>4. \A f : Waiting(f)' <=> Waiting(f)
    BY DEF Waiting
  <1> QED
    BY <1>1, <1>3, <1>4 DEF Dialogues, InOrder

\* A forwarder that waits does nothing else.
LEMMA WaitsThere ==
  ASSUME NInv, NEW f \in flight, f.by \in Servers, Works(f.by)
  PROVE  FALSE
  <1> DEFINE s == f.by
  <1>1. AtTarget(s, "forward") /\ ~ envelope[Entry(s)].null
    BY DEF NInv, Dialogues, Belongs
  <1>2. PICK i \in Aliases(Entry(s)) : f.received = envelope[Entry(s)].received + 1
    BY DEF NInv, Dialogues, Belongs
  <1>3. work[s] # Nil /\ "forward" \in work[s].left
    BY <1>1 DEF AtTarget
  <1>4. envelope[Entry(s)].received \in Nat /\ MaxReceived \in Nat /\ f.received <= MaxReceived
    <2>1. Entry(s) \in Ids /\ status[Entry(s)] = "queued"
      BY <1>3, PassAtHand DEF NInv, Passes
    <2> QED
      BY <2>1, NetworkAssumption DEF NInv, Entries, Envelope, Dialogues
  <1>5. ~ Store(s) /\ ~ StoreFails(s) /\ ~ Post(s) /\ ~ Hand(s) /\ ~ HandFails(s)
    BY <1>1, OneAtHand DEF Store, StoreFails, Post, Hand, HandFails, Target
  <1>6. ~ NothingToForward(s) /\ ~ RefuseToForward(s) /\ ~ Dial(s)
    BY <1>1, <1>2, <1>4 DEF NothingToForward, RefuseToForward, Dial, Waits
  <1>7. /\ ~ Finish(s) /\ ~ StartRewrite(s) /\ ~ WaiveFailed(s) /\ ~ SettleFails(s)
        /\ ~ ListDue(s) /\ \A m \in Ids : ~ BeginPass(s, m)
    BY <1>3 DEF Finish, StartRewrite, WaiveFailed, SettleFails, Over, ListDue, BeginPass
  <1>8. ~ Rewriting(s)
    BY <1>3 DEF NInv, Passes, Rewriting
  <1> QED
    BY <1>5, <1>6, <1>7, <1>8 DEF Works, Worker, Reschedule, RewriteFails

LEMMA DialoguesKeep == NInv /\ NetNext => Dialogues'
  <1> SUFFICES ASSUME NInv, NetNext PROVE Dialogues'
    OBVIOUS
  <1>1. NetTypeOK /\ NetTypeOK' /\ UNCHANGED offered
    <2>1. UNCHANGED offered
      BY DEF NetNext, Worker, SenderDials, ListDue, BeginPass, Store, Post, Hand, HandFails,
          NothingToForward, RefuseToForward, Dial, Finish, StartRewrite, Reschedule, WaiveFailed,
          StoreFails, RewriteFails, SettleFails, Crash, Receive, DropReceiver, Take, Hear, Refuse,
          CommitFails, Untaken, Cut, mail
    <2> QED
      BY <2>1, Moves DEF NInv
  <1>2. ASSUME UNCHANGED flight, NEW s, \A r \in Servers : r # s => work'[r] = work[r],
               \A f \in flight : f.by # s \/ work'[s] = work[s]
        PROVE  Dialogues'
    <2>1. \A f \in flight : f.by \in Servers => work'[f.by] = work[f.by]
      BY <1>2
    <2> QED
      BY <1>1, <1>2, <2>1, DialoguesFrom
  <1>3. ASSUME NEW s \in Servers, Works(s), ~ Dial(s) PROVE Dialogues'
    <2>1. UNCHANGED flight
      BY <1>3
      DEF Works, Worker, ListDue, BeginPass, Store, Post, Hand, HandFails, NothingToForward,
          RefuseToForward, Finish, StartRewrite, Reschedule, WaiveFailed, StoreFails, RewriteFails,
          SettleFails
    <2>2. \A r \in Servers : r # s => work'[r] = work[r]
      BY <1>1, <1>3
      DEF Works, Worker, ListDue, BeginPass, Store, Post, Hand, HandFails, NothingToForward,
          RefuseToForward, Finish, StartRewrite, Reschedule, WaiveFailed, StoreFails, RewriteFails,
          SettleFails, Advance, Done, TargetFails, NetTypeOK
    <2>3. \A f \in flight : f.by # s
      BY <1>3, WaitsThere
    <2> QED
      BY <1>2, <2>1, <2>2, <2>3
  <1>4. ASSUME NEW s \in Servers, Dial(s) PROVE Dialogues'
    <2>1. work[s] # Nil /\ Entry(s) \in Ids /\ status[Entry(s)] = "queued"
      BY <1>1, <1>4, PassAtHand DEF Dial, AtTarget, NInv, Passes
    <2>2. PICK i \in Aliases(Entry(s)) :
            /\ Turn(s, Aliases(Entry(s)), i)
            /\ flight' = flight \cup
                 {[by |-> s, rcpts |-> <<Destination(Entry(s), i)>>, null |-> FALSE,
                   received |-> Prepare(envelope[Entry(s)].received), taken |-> FALSE]}
      BY <1>4 DEF Dial
    <2>f. PICK f : f = [by |-> s, rcpts |-> <<Destination(Entry(s), i)>>, null |-> FALSE,
                        received |-> Prepare(envelope[Entry(s)].received), taken |-> FALSE]
      OBVIOUS
    <2>3. UNCHANGED <<work, envelope>>
      BY <1>4 DEF Dial, mail
    <2>4. Destination(Entry(s), i) \in Boxes /\ envelope[Entry(s)].received \in Nat
      <3>1. envelope[Entry(s)] \in Envelope /\ i \in DOMAIN envelope[Entry(s)].rcpts
            /\ Destination(Entry(s), i) # Nil
        BY <2>1 DEF NInv, Entries, Aliases, Destination
      <3>2. envelope[Entry(s)].rcpts[i] \in Boxes
        BY <3>1 DEF Envelope
      <3> QED
        BY <3>1, <3>2, NetworkAssumption DEF Destination, Envelope
    <2>5. OneHome(f.rcpts)
      BY <2>f, <2>4 DEF OneHome
    <2>6. f.received <= MaxReceived
      BY <1>4, <2>f, <2>4, NetworkAssumption DEF Dial, Prepare
    <2>7. Belongs(f)
      BY <1>4, <2>f, <2>2, NetworkAssumption DEF Belongs, Dial, Prepare
    <2>8. InOrder(f)'
      BY <1>1, <2>f, <2>3, <2>5, <2>6, <2>7
      DEF InOrder, OneHome, Belongs, AtTarget, Entry, Aliases, Turn, Destination
    <2>9. \A g \in flight : g.by # s
      BY <1>4 DEF Dial, Waits
    <2>10. flight' = flight \cup {f} /\ f.by = s
      BY <2>2, <2>f
    <2> QED
      BY <1>1, <2>3, <2>8, <2>9, <2>10, DialoguesFrom
  <1>5. CASE SenderDials
    <2>f. PICK f : f = [by |-> Sender, rcpts |-> offered.rcpts, null |-> offered.null,
                        received |-> 0, taken |-> FALSE]
      OBVIOUS
    <2>1. offered.rcpts \in Offers
      BY <1>1 DEF NetTypeOK
    <2>2. OneHome(f.rcpts) /\ f.received <= MaxReceived
      BY <2>f, <2>1, NetworkAssumption DEF OneHome
    <2>3. Belongs(f)'
      BY <1>1, <2>f, NetworkAssumption DEF Belongs
    <2>4. InOrder(f)'
      BY <2>f, <2>2, <2>3 DEF InOrder, OneHome
    <2>5. \A g \in flight : g.by # Sender
      BY <1>5 DEF SenderDials, Waits
    <2>6. flight' = flight \cup {f} /\ f.by = Sender /\ UNCHANGED work
      BY <1>5, <2>f DEF SenderDials
    <2> QED
      BY <1>1, <2>4, <2>5, <2>6, DialoguesFrom
  <1>6. ASSUME NEW f \in flight, Take(f) PROVE Dialogues'
    <2>1. PICK m \in Ids :
            /\ status[m] = "new" /\ Q!Accept(m)
            /\ envelope' = [envelope EXCEPT ![m] = [rcpts |-> f.rcpts, received |-> f.received,
                                                    null |-> f.null]]
      BY <1>6 DEF Take
    <2>2. WasTaken(f.rcpts, f.received)'
      BY <1>1, <2>1 DEF Q!Accept, NetTypeOK, WasTaken
    <2>3. InOrder(f)' /\ UNCHANGED work
      BY <1>1, <1>6, StaysInOrder DEF Take
    <2>4. CASE Waiting(f)
      <3>g. PICK g : g = [f EXCEPT !.taken = TRUE]
        OBVIOUS
      <3>1. g.by = f.by /\ g.rcpts = f.rcpts /\ g.received = f.received
        BY <1>1, <3>g DEF NetTypeOK
      <3>2. flight' = (flight \ {f}) \cup {g}
        BY <1>6, <2>4, <3>g DEF Take
      <3>3. InOrder(g)'
        BY <2>2, <2>3, <2>4, <3>1 DEF InOrder, Belongs, Waiting, OneHome
      <3>4. \A h \in flight \ {f} : h.by # f.by
        BY <2>4 DEF NInv, Dialogues
      <3> QED
        BY <1>1, <2>3, <3>1, <3>2, <3>3, <3>4, DialoguesFrom
    <2>5. CASE ~ Waiting(f)
      <3>1. flight' = flight \ {f}
        BY <1>6, <2>5 DEF Take
      <3> QED
        BY <1>1, <2>3, <3>1, DialoguesFrom
    <2> QED
      BY <2>4, <2>5
  <1>7. ASSUME NEW f \in flight, Waiting(f), NEW orphans, flight' = (flight \ {f}) \cup orphans,
               orphans = {} \/ (orphans \in Orphaned(f) /\ mishaps' \in Nat),
               \A r \in Servers : r # f.by => work'[r] = work[r]
        PROVE  Dialogues'
    <2>1. \A g \in flight \ {f} : g.by # f.by
      BY <1>7 DEF NInv, Dialogues
    <2>3. CASE orphans = {}
      BY <1>1, <1>7, <2>1, <2>3, DialoguesFrom
    <2>4. CASE orphans # {}
      <3>1. PICK g : g = [f EXCEPT !.by = mishaps'] /\ orphans = {g} /\ ~ f.taken
        BY <1>7, <2>4 DEF Orphaned
      <3>2. g.by = mishaps' /\ g.rcpts = f.rcpts /\ g.received = f.received /\ g.taken = f.taken
        BY <1>1, <3>1 DEF NetTypeOK
      <3>3. g.by \notin Servers /\ g.by # Sender
        BY <1>7, <2>4, <3>2, NetworkAssumption
      <3>4. OneHome(f.rcpts) /\ f.received <= MaxReceived
        BY DEF NInv, Dialogues
      <3>5. InOrder(g)'
        BY <3>1, <3>2, <3>3, <3>4 DEF InOrder, OneHome, Belongs
      <3> QED
        BY <1>1, <1>7, <2>1, <3>1, <3>3, <3>5, DialoguesFrom DEF Waiting
    <2> QED
      BY <2>3, <2>4
  <1>8. ASSUME NEW f \in flight, Closes(f) PROVE Dialogues'
    <2>2. mishaps' \in Nat
      BY <1>1 DEF NetTypeOK
    <2>3. \A r \in Servers : r # f.by => work'[r] = work[r]
      BY <1>1, <1>8
      DEF Closes, Hear, Refuse, CommitFails, Untaken, Cut, Disappointed, Forwarded, Advance, Done,
          TargetFails, NetTypeOK
    <2>4. CASE ~ Cut(f)
      <3>1. flight' = (flight \ {f}) \cup {}
        BY <1>8, <2>4 DEF Closes, Hear, Refuse, CommitFails, Untaken
      <3>2. CASE Waiting(f)
        BY <1>7, <2>3, <3>1, <3>2
      <3>3. CASE ~ Waiting(f)
        <4>1. UNCHANGED work
          BY <1>8, <2>4, <3>3
          DEF Closes, Hear, Refuse, CommitFails, Untaken, Disappointed, Waiting
        <4> QED
          BY <1>1, <3>1, <4>1, DialoguesFrom
      <3> QED
        BY <3>2, <3>3
    <2>5. CASE Cut(f)
      BY <1>7, <2>2, <2>3, <2>5 DEF Cut
    <2> QED
      BY <2>4, <2>5
  <1>9. ASSUME NEW s \in Servers, Crash(s) PROVE Dialogues'
    <2>1. \A r \in Servers : r # s => work'[r] = work[r]
      BY <1>1, <1>9 DEF Crash, NetTypeOK
    <2>2. CASE ~ Waits(s)
      BY <1>2, <1>9, <2>1, <2>2 DEF Crash, Waits
    <2>3. CASE Waits(s)
      <3>1. PICK f \in flight : f.by = s /\ \E orphan \in Orphaned(f) : flight' = (flight \ {f}) \cup orphan
        BY <1>9, <2>3 DEF Crash, Waits
      <3>2. mishaps' \in Nat /\ Waiting(f)
        BY <1>1, <3>1 DEF NetTypeOK, Waiting
      <3> QED
        BY <1>7, <2>1, <3>1, <3>2
    <2> QED
      BY <2>2, <2>3
  <1>10. ASSUME NEW s \in Servers, Receive(s) \/ DropReceiver(s) PROVE Dialogues'
    BY <1>2, <1>10 DEF Receive, DropReceiver
  <1> QED
    BY <1>3, <1>4, <1>5, <1>6, <1>8, <1>9, <1>10 DEF NetNext, Works, Worker, Closes

LEMMA SenderKeeps == NInv /\ NetNext => SenderIsSure'
  <1> SUFFICES ASSUME NInv, NetNext, sender' = "done" PROVE WasTaken(offered.rcpts, 0)'
    BY DEF SenderIsSure
  <1>1. UNCHANGED offered
    BY DEF NetNext, Worker, SenderDials, ListDue, BeginPass, Store, Post, Hand, HandFails,
       NothingToForward, RefuseToForward, Dial, Finish, StartRewrite, Reschedule, WaiveFailed,
       StoreFails, RewriteFails, SettleFails, Crash, Receive, DropReceiver, Take, Hear, Refuse,
       CommitFails, Untaken, Cut, mail
  <1>2. CASE sender = "done"
    <2>1. WasTaken(offered.rcpts, 0)
      BY <1>2 DEF NInv, SenderIsSure
    <2> QED
      BY <1>1, <2>1, TakenOnce DEF WasTaken
  <1>3. ASSUME NEW f \in flight, Hear(f), f.by = Sender PROVE WasTaken(offered.rcpts, 0)'
    <2>1. f.rcpts = offered.rcpts /\ f.received = 0 /\ WasTaken(f.rcpts, f.received)
      BY <1>3 DEF Hear, NInv, Dialogues, Belongs
    <2> QED
      BY <1>1, <2>1, TakenOnce DEF WasTaken
  <1>4. CASE sender # "done" /\ ~ \E f \in flight : Hear(f) /\ f.by = Sender
    BY <1>4
    DEF NetNext, Worker, SenderDials, ListDue, BeginPass, Store, Post, Hand, HandFails,
        NothingToForward, RefuseToForward, Dial, Finish, StartRewrite, Reschedule, WaiveFailed,
        StoreFails, RewriteFails, SettleFails, Crash, Receive, DropReceiver, Take, Hear, Refuse,
        CommitFails, Untaken, Cut
  <1> QED
    BY <1>2, <1>3, <1>4

\* NInv is inductive, for any number of servers, boxes and rules.
THEOREM Network_Invariant == NetSpec => []NInv
  <1>1. NInv /\ UNCHANGED netVars => NInv'
    <2> SUFFICES ASSUME NInv, UNCHANGED netVars PROVE NInv'
      OBVIOUS
    <2> USE DEF netVars, queue, mail, spool, channel
    <2>1. NetTypeOK' /\ Entries'
      BY DEF NInv, NetTypeOK, Entries, OneHome, HomeOf
    <2>2. Passes' /\ SenderIsSure'
      BY DEF NInv, Passes, SenderIsSure, Entry, HomeOf, WasTaken
    <2>4. Progress'
      BY DEF NInv, Progress, Entry, AtTarget, Aliases, Passed, WasTaken, Destination
    <2>5. HandedIsDone'
      BY DEF NInv, HandedIsDone, Aliases, Passed, WasTaken, Destination
    <2>3. Dialogues'
      BY ZenonT(30) DEF NInv, Dialogues, Belongs, OneHome, AtTarget, Entry, Aliases, Turn, Destination, WasTaken,
         Waiting
    <2> QED
      BY <2>1, <2>2, <2>3, <2>4, <2>5 DEF NInv
  <1>2. NInv /\ NetNext => NInv'
    BY Moves, EntriesKeep, PassesKeep, ProgressKeep, HandedKeeps, DialoguesKeep, SenderKeeps DEF NInv
  <1> QED
    BY NetInit_NInv, <1>1, <1>2, PTL DEF NetSpec

\* The queues of all the servers together are one at-least-once queue, of which
\* module WorkerProofs shows that each server's spool and worker implement it:
\* nothing a pass, a dialogue, a cut, a kill or a torn rewrite does to an entry
\* is more than that queue allows.
THEOREM NetworkIsQueue == NetSpec => Q!Spec
  <1>1. NetInit => Q!Init
    BY DEF NetInit
  <1>2. NInv /\ [NetNext]_netVars => [Q!Next]_Q!qvars
    <2>1. ASSUME NInv, NetNext, ~ (\E f \in flight : Take(f)) PROVE [Q!Next]_Q!qvars
      <3>1. QueueMoves
        BY <2>1, Moves
      <3> QED
        BY <3>1 DEF QueueMoves, Q!Next, Q!qvars, queue
    <2>2. ASSUME NEW f \in flight, Take(f) PROVE Q!Next
      BY <2>2 DEF Take, Q!Next
    <2>3. UNCHANGED netVars => UNCHANGED Q!qvars
      BY DEF netVars, queue, Q!qvars
    <2> QED
      BY <2>1, <2>2, <2>3
  <1> QED
    BY <1>1, <1>2, Network_Invariant, PTL DEF NetSpec, Q!Spec

\* The variables keep their types.
THEOREM NetworkTypes == NetSpec => []NetTypeOK
  <1>1. NInv => NetTypeOK
    BY DEF NInv
  <1> QED
    BY <1>1, Network_Invariant, PTL

------------------------------------------------------------------------------
(***************************************************************************)
(* No mail is lost.                                                        *)
(***************************************************************************)

\* h is Onward as far as n.
Solves(h, n) ==
  h = [k \in 0 .. n |->
         [b \in Boxes |-> IF k = 0 THEN b
                          ELSE IF Rule[b] = Nil THEN Nil ELSE h[k - 1][Rule[b]]]]

LEMMA OnwardIs == Solves(Onward, MaxReceived)
  <1> DEFINE S == {n \in Nat : \E h : Solves(h, n)}
  <1>1. 0 \in S
    <2> DEFINE h == [k \in 0 .. 0 |-> [b \in Boxes |-> b]]
    <2>1. Solves(h, 0)
      BY DEF Solves
    <2> QED
      BY <2>1
  <1>2. ASSUME NEW n \in S PROVE n + 1 \in S
    <2>1. PICK g : Solves(g, n)
      OBVIOUS
    <2> DEFINE h == [k \in 0 .. n + 1 |->
                       IF k <= n THEN g[k]
                       ELSE [b \in Boxes |-> IF Rule[b] = Nil THEN Nil ELSE g[n][Rule[b]]]]
    <2>2. \A k \in 0 .. n : g[k] = [b \in Boxes |-> IF k = 0 THEN b
                                      ELSE IF Rule[b] = Nil THEN Nil ELSE g[k - 1][Rule[b]]]
      BY <2>1 DEF Solves
    <2>3. ASSUME NEW k \in 0 .. n + 1
          PROVE  h[k] = [b \in Boxes |-> IF k = 0 THEN b
                           ELSE IF Rule[b] = Nil THEN Nil ELSE h[k - 1][Rule[b]]]
      <3>1. CASE k = 0
        BY <2>2, <3>1
      <3>2. CASE k # 0 /\ k <= n
        <4>1. h[k] = g[k] /\ h[k - 1] = g[k - 1] /\ k \in 0 .. n
          BY <3>2
        <4> HIDE DEF h
        <4> QED
          BY <2>2, <3>2, <4>1
      <3>3. CASE k = n + 1
        <4>1. h[k - 1] = g[n] /\ k # 0
          BY <3>3
        <4>2. h[k] = [b \in Boxes |-> IF Rule[b] = Nil THEN Nil ELSE g[n][Rule[b]]]
          BY <3>3
        <4> HIDE DEF h
        <4> QED
          BY <4>1, <4>2
      <3> QED
        BY <3>1, <3>2, <3>3
    <2>4. h = [k \in 0 .. n + 1 |-> h[k]]
      OBVIOUS
    <2> HIDE DEF h
    <2>5. Solves(h, n + 1)
      BY <2>3, <2>4 DEF Solves
    <2> QED
      BY <2>5
  <1> HIDE DEF S
  <1>3. S = Nat
    BY <1>1, <1>2, Induction DEF S
  <1>4. \E h : Solves(h, MaxReceived)
    BY <1>3, NetworkAssumption DEF S
  <1>5. Onward = CHOOSE h : Solves(h, MaxReceived)
    BY DEF Onward, Solves
  <1> QED
    BY <1>4, <1>5

\* The way on from a box with a rule is the way from where the rule leads.
LEMMA OnwardSteps ==
  ASSUME NEW k \in 0 .. MaxReceived, NEW b \in Boxes
  PROVE  Onward[k][b] = IF k = 0 THEN b ELSE IF Rule[b] = Nil THEN Nil ELSE Onward[k - 1][Rule[b]]
  <1>1. Onward[k] = [c \in Boxes |-> IF k = 0 THEN c
                                    ELSE IF Rule[c] = Nil THEN Nil ELSE Onward[k - 1][Rule[c]]]
    BY OnwardIs DEF Solves
  <1> QED
    BY <1>1

\* Some queue owes b's copy, or some worker has given up what would have led there,
\* or a record was torn before it was done.
Owned(b) ==
  \E m \in Ids, t \in {"mailbox", "forward"} :
    /\ \/ <<m, t>> \in waived
       \/ status[m] = "queued" /\ t \in owed[m] /\ <<m, t>> \notin handed
       \/ status[m] = "damaged" /\ <<m, t>> \notin handed
    /\ Leads(m, t, b)

\* A mailbox that lies on the way of a message that was taken has its copy, or
\* somebody owns it: by induction on the length of the way.
LEMMA WayIsOwned ==
  ASSUME NInv
  PROVE  \A k \in Nat : \A m \in Ids :
           status[m] # "new" /\ k + envelope[m].received <= MaxReceived =>
             \A i \in DOMAIN envelope[m].rcpts, b \in Boxes :
               Onward[k][envelope[m].rcpts[i]] = b => filed[b] > 0 \/ Owned(b)
  <1> DEFINE Safe(k) ==
        \A m \in Ids :
           status[m] # "new" /\ k + envelope[m].received <= MaxReceived =>
             \A i \in DOMAIN envelope[m].rcpts, b \in Boxes :
               Onward[k][envelope[m].rcpts[i]] = b => filed[b] > 0 \/ Owned(b)
             S == {k \in Nat : Safe(k)}
  <1> USE NetworkAssumption
  <1>1. ASSUME NEW m \in Ids, status[m] # "new"
        PROVE  /\ envelope[m].received \in Nat /\ envelope[m].rcpts \in Seq(Boxes)
               /\ \A t \in TargetsOf(HomeOf(m)) :
                    \/ <<m, t>> \in handed \cup waived
                    \/ status[m] = "queued" /\ t \in owed[m]
                    \/ status[m] = "damaged"
               /\ \A i \in DOMAIN envelope[m].rcpts : Home[envelope[m].rcpts[i]] = HomeOf(m)
    BY <1>1 DEF NInv, Entries, Envelope, OneHome, HomeOf
  <1>2. Safe(0)
    <2> SUFFICES ASSUME NEW m \in Ids, status[m] # "new", 0 + envelope[m].received <= MaxReceived,
                        NEW i \in DOMAIN envelope[m].rcpts, NEW b \in Boxes,
                        Onward[0][envelope[m].rcpts[i]] = b
                 PROVE  filed[b] > 0 \/ Owned(b)
      OBVIOUS
    <2>1. envelope[m].rcpts[i] = b
      BY <1>1, OnwardSteps
    <2>2. "mailbox" \in TargetsOf(HomeOf(m)) /\ Leads(m, "mailbox", b)
      BY <2>1 DEF TargetsOf, Target, Leads
    <2>3. CASE <<m, "mailbox">> \in handed
      BY <2>1, <2>3 DEF NInv, HandedIsDone
    <2>4. CASE <<m, "mailbox">> \notin handed
      BY <1>1, <2>2, <2>4 DEF Owned
    <2> QED
      BY <2>3, <2>4
  <1>3. ASSUME NEW k \in Nat, Safe(k) PROVE Safe(k + 1)
    <2> SUFFICES ASSUME NEW m \in Ids, status[m] # "new", k + 1 + envelope[m].received <= MaxReceived,
                        NEW i \in DOMAIN envelope[m].rcpts, NEW b \in Boxes,
                        Onward[k + 1][envelope[m].rcpts[i]] = b
                 PROVE  filed[b] > 0 \/ Owned(b)
      OBVIOUS
    <2> DEFINE a == envelope[m].rcpts[i]
    <2>1. a \in Boxes /\ Home[a] = HomeOf(m) /\ envelope[m].received \in Nat
      BY <1>1
    <2>2. Rule[a] # Nil /\ b = Onward[k][Rule[a]] /\ Rule[a] \in Boxes
      <3>1. k + 1 \in 0 .. MaxReceived /\ k + 1 # 0 /\ (k + 1) - 1 = k
        BY <2>1
      <3> QED
        BY <2>1, <3>1, OnwardSteps
    <2>3. "forward" \in TargetsOf(HomeOf(m)) /\ Leads(m, "forward", b)
      <3>1. k + 1 \in 1 .. (MaxReceived - envelope[m].received)
        BY <2>1
      <3> QED
        BY <2>1, <2>2, <3>1 DEF TargetsOf, Target, Leads
    <2>4. CASE <<m, "forward">> \in handed
      <3>1. i \in Aliases(m) /\ Destination(m, i) = Rule[a]
        BY <2>2 DEF Aliases, Destination
      <3>2. PICK n \in Ids : /\ status[n] # "new" /\ envelope[n].rcpts = <<Rule[a]>>
                             /\ envelope[n].received = envelope[m].received + 1
        <4>1. Passed(m, i)
          BY <2>4, <3>1 DEF NInv, HandedIsDone
        <4> HIDE DEF a
        <4> QED
          BY <3>1, <4>1 DEF Passed, WasTaken
      <3>3. k + envelope[n].received <= MaxReceived
        BY <2>1, <3>2
      <3>4. 1 \in DOMAIN envelope[n].rcpts /\ envelope[n].rcpts[1] = Rule[a]
        BY <3>2
      <3> HIDE DEF a
      <3> QED
        BY <1>3, <2>2, <3>2, <3>3, <3>4
    <2>5. CASE <<m, "forward">> \notin handed
      BY <1>1, <2>3, <2>5 DEF Owned
    <2> QED
      BY <2>4, <2>5
  <1> HIDE DEF Safe
  <1>4. 0 \in S /\ \A k \in S : k + 1 \in S
    BY <1>2, <1>3
  <1> HIDE DEF S
  <1>5. S = Nat
    BY <1>4, Induction DEF S
  <1>6. \A k \in Nat : Safe(k)
    BY <1>5 DEF S
  <1> QED
    BY <1>6 DEF Safe

\* Mail is not lost between servers, whatever is cut, refused, killed or taken
\* late, except where settle's rewrite of a record is torn: a mailbox on the way
\* has its copy, or the sender, a queue, a worker that gave up or a torn entry
\* that had not handed the message over has it to answer for.
THEOREM NoMailIsLost == NetSpec => []NeverLost
  <1>1. ASSUME NInv, sender = "done", NEW b \in Boxes, Visits(b) # {}
        PROVE  filed[b] > 0 \/ Owned(b)
    <2>1. PICK i \in DOMAIN offered.rcpts, k \in 0 .. MaxReceived : Onward[k][offered.rcpts[i]] = b
      BY <1>1 DEF Visits
    <2>2. PICK m \in Ids :
            status[m] # "new" /\ envelope[m].rcpts = offered.rcpts /\ envelope[m].received = 0
      BY <1>1 DEF NInv, SenderIsSure, WasTaken
    <2>3. k \in Nat /\ k + envelope[m].received <= MaxReceived
      BY <2>2, NetworkAssumption
    <2> QED
      BY <1>1, <2>1, <2>2, <2>3, WayIsOwned
  <1>2. NInv => NeverLost
    BY <1>1 DEF NeverLost, Owned
  <1> QED
    BY <1>2, Network_Invariant, PTL

------------------------------------------------------------------------------
(***************************************************************************)
(* What a channel that goes down takes with it.                            *)
(***************************************************************************)
Missing(s) ==
  {m \in Ids : /\ <<m, "channel">> \in handed /\ HomeOf(m) = s
               /\ m \notin got /\ m \notin ToSet(inbox[s])}

LossInv ==
  \A s \in Servers :
    Len(inbox[s]) <= Buffer /\ Cardinality(Missing(s)) <= Buffer * losses

\* A sequence holds no more elements than it is long.
LEMMA FewElements ==
  ASSUME NEW S, NEW q \in Seq(S)
  PROVE  IsFiniteSet(ToSet(q)) /\ Cardinality(ToSet(q)) <= Len(q)
  <1>1. DOMAIN q = 1 .. Len(q) /\ Len(q) \in Nat
    OBVIOUS
  <1>2. PICK f : f = [i \in 1 .. Len(q) |-> q[i]]
    OBVIOUS
  <1>3. f \in Surjection(1 .. Len(q), ToSet(q))
    <2>1. f \in [1 .. Len(q) -> ToSet(q)]
      BY <1>1, <1>2 DEF ToSet
    <2>2. \A x \in ToSet(q) : \E i \in 1 .. Len(q) : f[i] = x
      BY <1>1, <1>2 DEF ToSet
    <2> QED
      BY <2>1, <2>2 DEF Surjection
  <1>4. IsFiniteSet(1 .. Len(q)) /\ Cardinality(1 .. Len(q)) = Len(q)
    BY <1>1, FS_Interval, SMTT(30)
  <1> QED
    BY <1>3, <1>4, FS_Surjection

LEMMA ChannelSteps ==
  ASSUME NInv, NetNext, NEW s \in Servers
  PROVE  /\ got \subseteq got' /\ losses' \in {losses, losses + 1}
         /\ \/ inbox'[s] = inbox[s]
            \/ Len(inbox[s]) < Buffer /\ \E m \in Ids : inbox'[s] = Append(inbox[s], m)
            \/ inbox[s] # <<>> /\ Head(inbox[s]) \in got' /\ inbox'[s] = Tail(inbox[s])
            \/ inbox'[s] = <<>> /\ losses' = losses + 1
  <1> DEFINE Goal == /\ got \subseteq got' /\ losses' \in {losses, losses + 1}
                     /\ \/ inbox'[s] = inbox[s]
                        \/ Len(inbox[s]) < Buffer /\ \E m \in Ids : inbox'[s] = Append(inbox[s], m)
                        \/ inbox[s] # <<>> /\ Head(inbox[s]) \in got' /\ inbox'[s] = Tail(inbox[s])
                        \/ inbox'[s] = <<>> /\ losses' = losses + 1
  <1>1. NetTypeOK
    BY DEF NInv
  <1>2. inbox \in [Servers -> Seq(Ids)]
    BY <1>1 DEF NetTypeOK
  <1>3. ASSUME UNCHANGED <<inbox, got, losses>> PROVE Goal
    BY <1>3
  <1>4. ASSUME NEW r \in Servers, Hand(r) PROVE Goal
    <2>1. Entry(r) \in Ids
      BY <1>1, <1>4, PassAtHand DEF Hand, AtTarget
    <2> QED
      BY <1>2, <1>4, <2>1 DEF Hand, Room
  <1>5. ASSUME NEW r \in Servers, Receive(r) PROVE Goal
    BY <1>2, <1>5 DEF Receive
  <1>6. ASSUME NEW r \in Servers, Crash(r) \/ DropReceiver(r) PROVE Goal
    BY <1>2, <1>6 DEF Crash, DropReceiver
  <1>7. ASSUME NEW r \in Servers,
               Works(r), ~ Hand(r)
        PROVE  UNCHANGED <<inbox, got, losses>>
    BY <1>7 DEF Works, Worker, StoreFails, RewriteFails, SettleFails, ListDue, BeginPass, Store, Post,
       HandFails, NothingToForward, RefuseToForward, Dial, Finish, StartRewrite, Reschedule,
       WaiveFailed, channel
  <1>8. ASSUME NEW f \in flight, Take(f) \/ Closes(f)
        PROVE  UNCHANGED <<inbox, got, losses>>
    BY <1>8 DEF Take, Closes, Hear, Refuse, CommitFails, Untaken, Cut, channel
  <1>9. SenderDials => UNCHANGED <<inbox, got, losses>>
    BY DEF SenderDials, channel
  <1> HIDE DEF Goal
  <1>10. Goal
    BY <1>3, <1>4, <1>5, <1>6, <1>7, <1>8, <1>9 DEF NetNext, Works, Closes
  <1> QED
    BY <1>10 DEF Goal

\* A message goes missing only with the channel that held it.
LEMMA MissingFrom ==
  ASSUME NInv, NetNext, NEW s \in Servers
  PROVE  \/ Missing(s)' \subseteq Missing(s)
         \/ losses' = losses + 1 /\ Missing(s)' \subseteq Missing(s) \cup ToSet(inbox[s])
  <1> DEFINE Held == ToSet(inbox[s])
             HeldAfter == ToSet(inbox'[s])
  <1>1. NetTypeOK /\ inbox \in [Servers -> Seq(Ids)]
    BY DEF NInv, NetTypeOK
  <1>2. ASSUME NEW m \in Ids, m \in Missing(s)' PROVE m \in Missing(s) \cup Held
    <2>1. CASE <<m, "channel">> \in handed
      <3>1. status[m] # "new"
        BY <2>1 DEF NInv, Entries, Target
      <3>2. HomeOf(m)' = HomeOf(m)
        BY <3>1, TakenStays DEF HomeOf
      <3>3. m \notin got
        BY <1>2, ChannelSteps DEF Missing
      <3> QED
        BY <1>2, <2>1, <3>2, <3>3 DEF Missing
    <2>2. CASE <<m, "channel">> \notin handed
      <3>1. PICK r \in Servers : work[r] # Nil /\ m = Entry(r) /\ Hand(r)
        BY <1>2, <2>2, NewlyHanded DEF Missing
      <3>2. HomeOf(m)' = r
        BY <3>1, TakenStays DEF NInv, Passes, HomeOf
      <3>3. inbox'[s] = Append(inbox[s], m)
        BY <1>1, <1>2, <3>1, <3>2 DEF Hand, Missing
      <3>4. m \in HeldAfter
        <4>1. inbox[s] \in Seq(Ids)
          BY <1>1
        <4>2. Len(inbox[s]) + 1 \in DOMAIN inbox'[s] /\ inbox'[s][Len(inbox[s]) + 1] = m
          BY <3>3, <4>1
        <4> QED
          BY <4>2 DEF ToSet
      <3> QED
        BY <1>2, <3>4 DEF Missing
    <2> QED
      BY <2>1, <2>2
  <1>3. ASSUME Held \subseteq HeldAfter \cup got' PROVE Missing(s)' \subseteq Missing(s)
    BY <1>2, <1>3 DEF Missing
  <1>4. CASE inbox'[s] = inbox[s]
    BY <1>3, <1>4
  <1>5. CASE \E m \in Ids : inbox'[s] = Append(inbox[s], m)
    <2>1. Held \subseteq HeldAfter
      BY <1>1, <1>5 DEF ToSet
    <2> QED
      BY <1>3, <2>1
  <1>6. CASE inbox[s] # <<>> /\ Head(inbox[s]) \in got' /\ inbox'[s] = Tail(inbox[s])
    <2> DEFINE q == inbox[s]
    <2>1. q \in Seq(Ids) /\ q # <<>>
      BY <1>1, <1>6
    <2>2. ASSUME NEW i \in DOMAIN q PROVE q[i] \in HeldAfter \cup got'
      <3>1. i = 1 => q[i] = Head(q)
        BY <2>1
      <3>2. i # 1 => i - 1 \in DOMAIN Tail(q) /\ Tail(q)[i - 1] = q[i]
        BY <2>1, <2>2
      <3> QED
        BY <1>6, <3>1, <3>2 DEF ToSet
    <2> QED
      BY <1>3, <2>2 DEF ToSet
  <1>7. CASE losses' = losses + 1
    <2>1. Missing(s)' \subseteq Ids
      BY DEF Missing, Ids
    <2> QED
      BY <1>2, <1>7, <2>1
  <1> QED
    BY <1>4, <1>5, <1>6, <1>7, ChannelSteps

\* What an embedding program does not get is what was in its channel when that
\* went down: `Buffer` messages each time at most.
THEOREM ChannelLosesLittle == NetSpec => []ChannelLoss
  <1>1. NetInit => LossInv
    <2> SUFFICES ASSUME NetInit, NEW s \in Servers
                 PROVE  Len(inbox[s]) <= Buffer /\ Cardinality(Missing(s)) <= Buffer * losses
      BY DEF LossInv
    <2>1. Missing(s) = {}
      BY DEF Missing, NetInit, Q!Init
    <2>2. Buffer \in Nat \ {0} /\ losses = 0 /\ inbox[s] = <<>>
      BY NetworkAssumption DEF NetInit
    <2> QED
      BY <2>1, <2>2, FS_EmptySet
  <1>2. NInv /\ LossInv /\ NetNext => LossInv'
    <2> SUFFICES ASSUME NInv, LossInv, NetNext, NEW s \in Servers
                 PROVE  /\ (Len(inbox[s]) <= Buffer)'
                        /\ (Cardinality(Missing(s)) <= Buffer * losses)'
      BY DEF LossInv
    <2>1. inbox[s] \in Seq(Ids) /\ Len(inbox[s]) <= Buffer /\ losses \in Nat /\ Buffer \in Nat
      BY NetworkAssumption DEF NInv, NetTypeOK, LossInv
    <2>2. Len(inbox'[s]) <= Buffer
      <3>1. CASE Len(inbox[s]) < Buffer /\ \E m \in Ids : inbox'[s] = Append(inbox[s], m)
        BY <2>1, <3>1
      <3>2. CASE inbox[s] # <<>> /\ inbox'[s] = Tail(inbox[s])
        <4>1. Len(Tail(inbox[s])) = Len(inbox[s]) - 1 /\ Len(inbox[s]) \in Nat
          BY <2>1, <3>2
        <4> QED
          BY <2>1, <3>2, <4>1
      <3>3. CASE inbox'[s] = <<>>
        BY <2>1, <3>3
      <3> QED
        BY <2>1, <3>1, <3>2, <3>3, ChannelSteps
    <2>3. IsFiniteSet(Ids)
      <3>1. 1 \in Int /\ MaxEntries \in Int
        BY NetworkAssumption
      <3> QED
        BY <3>1, FS_Interval DEF Ids
    <2>4. IsFiniteSet(Missing(s)) /\ IsFiniteSet(Missing(s)') /\ Cardinality(Missing(s)) \in Nat
      <3>1. Missing(s) \in SUBSET Ids /\ Missing(s)' \in SUBSET Ids
        BY DEF Missing, Ids
      <3> QED
        BY <2>3, <3>1, FS_Subset, FS_CardinalityType
    <2>5. CASE Missing(s)' \subseteq Missing(s)
      <3>1. Cardinality(Missing(s)') <= Cardinality(Missing(s)) /\ Cardinality(Missing(s)') \in Nat
        BY <2>4, <2>5, FS_Subset, FS_CardinalityType
      <3>2. Cardinality(Missing(s)) <= Buffer * losses
        BY DEF LossInv
      <3>3. losses' \in {losses, losses + 1}
        BY ChannelSteps
      <3>5. Buffer * losses \in Nat /\ Buffer * (losses + 1) = Buffer * losses + Buffer
        BY <2>1
      <3>4. Buffer * losses <= Buffer * losses' /\ Buffer * losses' \in Nat
        <4>1. Buffer * losses' \in {Buffer * losses, Buffer * losses + Buffer}
          BY <3>3, <3>5
        <4> QED
          BY <2>1, <3>5, <4>1
      <3> QED
        BY <2>2, <2>4, <3>1, <3>2, <3>4, <3>5
    <2>6. CASE losses' = losses + 1 /\ Missing(s)' \subseteq Missing(s) \cup ToSet(inbox[s])
      <3>1. /\ IsFiniteSet(ToSet(inbox[s])) /\ Cardinality(ToSet(inbox[s])) <= Buffer
            /\ Cardinality(ToSet(inbox[s])) \in Nat
        <4>1. IsFiniteSet(ToSet(inbox[s])) /\ Cardinality(ToSet(inbox[s])) <= Len(inbox[s])
          BY <2>1, FewElements
        <4>2. Cardinality(ToSet(inbox[s])) \in Nat
          BY <4>1, FS_CardinalityType
        <4> QED
          BY <2>1, <4>1, <4>2
      <3> DEFINE Held == ToSet(inbox[s])
                 U == Missing(s) \cup Held
      <3>2. IsFiniteSet(U) /\ Cardinality(U) <= Cardinality(Missing(s)) + Buffer
        <4>1. Cardinality(Missing(s) \cap Held) \in Nat
          BY <2>4, FS_Intersection, FS_CardinalityType
        <4>2. /\ IsFiniteSet(U)
              /\ Cardinality(U) = Cardinality(Missing(s)) + Cardinality(Held)
                                   - Cardinality(Missing(s) \cap Held)
          BY <2>4, <3>1, FS_Union
        <4> QED
          BY <2>1, <2>4, <3>1, <4>1, <4>2
      <3>3. /\ Cardinality(Missing(s)') <= Cardinality(Missing(s)) + Buffer
            /\ Cardinality(Missing(s)') \in Nat
        <4>1. Cardinality(Missing(s)') <= Cardinality(U) /\ Cardinality(U) \in Nat
          BY <2>6, <3>2, FS_Subset, FS_CardinalityType
        <4>2. Cardinality(Missing(s)') \in Nat
          BY <2>4, FS_CardinalityType
        <4> QED
          BY <2>1, <2>4, <3>2, <4>1, <4>2
      <3>4. Cardinality(Missing(s)) <= Buffer * losses
        BY DEF LossInv
      <3>5. Buffer * losses' = Buffer * losses + Buffer /\ Buffer * losses \in Nat
        BY <2>1, <2>6
      <3> QED
        BY <2>1, <2>2, <2>4, <3>3, <3>4, <3>5
    <2> QED
      BY <2>5, <2>6, MissingFrom
  <1>3. LossInv /\ UNCHANGED netVars => LossInv'
    BY DEF LossInv, Missing, HomeOf, netVars, queue, mail, channel
  <1>4. LossInv => ChannelLoss
    BY NetworkAssumption DEF LossInv, ChannelLoss, Missing
  <1> QED
    BY <1>1, <1>2, <1>3, <1>4, Network_Invariant, PTL DEF NetSpec

------------------------------------------------------------------------------
(***************************************************************************)
(* Copies are accounted for.                                               *)
(*                                                                         *)
(* Of each way the message may come to b, what is still to be gone is due  *)
(* somewhere: at an entry whose target is pending, in a dialogue without a *)
(* client, or at the sender.  A step moves what is due or turns it into a  *)
(* copy, and a mishap makes due again at most what one message is worth.   *)
(***************************************************************************)

\* The i-th recipient's mail comes to b after k forwardings.
Comes(rcpts, received, i, k, b) ==
  i \in DOMAIN rcpts /\ k \in 0 .. (MaxReceived - received) /\ Onward[k][rcpts[i]] = b

\* The client c has been answered 250 and has not read it yet.
Replied(c) == \E f \in flight : f.by = c /\ f.taken

\* Target t of entry m is to do its part for place i, in this pass or another.
Pending(m, t, i) ==
  LET s == HomeOf(m)
  IN  /\ status[m] = "queued"
      /\ IF work[s] # Nil /\ Entry(s) = m
           THEN \/ t \in work[s].failed
                \/ /\ t \in work[s].left
                   /\ AtTarget(s, t) => /\ work[s].at <= i
                                        /\ t = "forward" /\ Turn(s, Aliases(m), i) => ~ Replied(s)
           ELSE t \in owed[m]

Way(k) == IF k = 0 THEN "mailbox" ELSE "forward"

EntryDue(m, i, k, b) ==
  /\ Pending(m, Way(k), i)
  /\ k > 0 => ~ envelope[m].null
  /\ Comes(envelope[m].rcpts, envelope[m].received, i, k, b)

DueAtEntries(b) == {d \in {"entry"} \X Ids \X Nat \X Nat : EntryDue(d[2], d[3], d[4], b)}

DueLate(b) ==
  {d \in {"late"} \X flight \X Nat \X Nat :
     ~ Waiting(d[2]) /\ Comes(d[2].rcpts, d[2].received, d[3], d[4], b)}

DueAtSender(b) ==
  {d \in {"sender"} \X {Sender} \X Nat \X Nat :
     sender = "holding" /\ ~ Replied(Sender) /\ Comes(offered.rcpts, 0, d[3], d[4], b)}

Due(b) == DueAtEntries(b) \cup DueLate(b) \cup DueAtSender(b)

\* The recipients of a message under way are some of those that were offered,
\* each so many forwardings on.
OnTheWay(rcpts, received) ==
  \E g \in Injection(DOMAIN rcpts, DOMAIN offered.rcpts) :
    \A i \in DOMAIN rcpts : rcpts[i] = Onward[received][offered.rcpts[g[i]]]

Travel ==
  /\ \A m \in Ids : status[m] # "new" => OnTheWay(envelope[m].rcpts, envelope[m].received)
  /\ \A f \in flight : OnTheWay(f.rcpts, f.received)
  /\ \A s \in Servers : work[s] # Nil => work[s].left \cap work[s].failed = {}
  /\ \A f \in flight : f.by = Sender => sender = "holding"

Accounted ==
  \A b \in Boxes :
    /\ IsFiniteSet(Due(b))
    /\ filed[b] + Cardinality(Due(b)) <= Cardinality(Visits(b)) * (1 + mishaps)

------------------------------------------------------------------------------
\* A set that gave up A for B has not grown if B fits into A.
LEMMA Exchanged ==
  ASSUME NEW Old, IsFiniteSet(Old), NEW A \in SUBSET Old, NEW B, NEW h \in Injection(B, A),
         NEW New, New \subseteq (Old \ A) \cup B
  PROVE  IsFiniteSet(New) /\ Cardinality(New) <= Cardinality(Old)
  <1> DEFINE Rest == Old \ A
  <1>1. IsFiniteSet(A) /\ Cardinality(A) \in Nat /\ Cardinality(Old) \in Nat
    BY FS_Subset, FS_CardinalityType
  <1>2. IsFiniteSet(B) /\ Cardinality(B) <= Cardinality(A) /\ Cardinality(B) \in Nat
    BY <1>1, FS_Injection, FS_CardinalityType
  <1>3. /\ IsFiniteSet(Rest) /\ Cardinality(Rest) \in Nat
        /\ Cardinality(Rest) = Cardinality(Old) - Cardinality(A)
    <2>1. Rest \in SUBSET Old /\ Old = Rest \cup A /\ Rest \cap A = {}
      OBVIOUS
    <2> HIDE DEF Rest
    <2>2. IsFiniteSet(Rest) /\ Cardinality(Rest) \in Nat
      BY <2>1, FS_Subset, FS_CardinalityType
    <2>3. Cardinality(Old) = Cardinality(Rest) + Cardinality(A) - 0
      BY <1>1, <2>1, <2>2, FS_Union, FS_EmptySet
    <2> QED
      BY <1>1, <2>2, <2>3
  <1> DEFINE U == Rest \cup B
  <1>4. IsFiniteSet(U) /\ Cardinality(U) \in Nat /\ Cardinality(U) <= Cardinality(Rest) + Cardinality(B)
    <2> HIDE DEF Rest
    <2>1. Cardinality(Rest \cap B) \in Nat
      BY <1>3, FS_Intersection, FS_CardinalityType
    <2>2. IsFiniteSet(U) /\ Cardinality(U) = Cardinality(Rest) + Cardinality(B) - Cardinality(Rest \cap B)
      BY <1>2, <1>3, FS_Union
    <2> QED
      BY <1>2, <1>3, <2>1, <2>2, FS_CardinalityType
  <1>5. New \in SUBSET U
    OBVIOUS
  <1>6. IsFiniteSet(New) /\ Cardinality(New) <= Cardinality(U) /\ Cardinality(New) \in Nat
    <2> HIDE DEF U
    <2> QED
      BY <1>4, <1>5, FS_Subset, FS_CardinalityType
  <1> QED
    BY <1>1, <1>2, <1>3, <1>4, <1>6

LEMMA GrownBy ==
  ASSUME NEW Old, IsFiniteSet(Old), NEW V, IsFiniteSet(V), NEW B, NEW h \in Injection(B, V),
         NEW New, New \subseteq Old \cup B
  PROVE  IsFiniteSet(New) /\ Cardinality(New) <= Cardinality(Old) + Cardinality(V)
  <1> DEFINE U == Old \cup B
  <1>1. /\ IsFiniteSet(B) /\ Cardinality(B) <= Cardinality(V) /\ Cardinality(B) \in Nat
        /\ Cardinality(V) \in Nat /\ Cardinality(Old) \in Nat
    BY FS_Injection, FS_CardinalityType
  <1>2. IsFiniteSet(U) /\ Cardinality(U) \in Nat /\ Cardinality(U) <= Cardinality(Old) + Cardinality(B)
    <2>1. Cardinality(Old \cap B) \in Nat
      BY FS_Intersection, FS_CardinalityType
    <2>2. IsFiniteSet(U) /\ Cardinality(U) = Cardinality(Old) + Cardinality(B) - Cardinality(Old \cap B)
      BY <1>1, FS_Union
    <2> QED
      BY <1>1, <2>1, <2>2, FS_CardinalityType
  <1>3. New \in SUBSET U
    OBVIOUS
  <1>4. IsFiniteSet(New) /\ Cardinality(New) <= Cardinality(U) /\ Cardinality(New) \in Nat
    <2> HIDE DEF U
    <2> QED
      BY <1>2, <1>3, FS_Subset, FS_CardinalityType
  <1> QED
    BY <1>1, <1>2, <1>4

\* The way on from where r forwardings lead.
LEMMA OnwardComposes ==
  \A r \in Nat : \A x \in Boxes, k \in Nat :
    r + k <= MaxReceived /\ Onward[r][x] \in Boxes => Onward[r + k][x] = Onward[k][Onward[r][x]]
  <1> DEFINE C(r) == \A x \in Boxes, k \in Nat :
                r + k <= MaxReceived /\ Onward[r][x] \in Boxes => Onward[r + k][x] = Onward[k][Onward[r][x]]
             S == {r \in Nat : C(r)}
  <1> USE NetworkAssumption
  <1>1. C(0)
    <2> SUFFICES ASSUME NEW x \in Boxes, NEW k \in Nat, k <= MaxReceived
                 PROVE  Onward[0 + k][x] = Onward[k][Onward[0][x]]
      OBVIOUS
    <2>1. Onward[0][x] = x /\ 0 + k = k
      BY OnwardSteps
    <2> QED
      BY <2>1
  <1>2. ASSUME NEW r \in Nat, C(r) PROVE C(r + 1)
    <2> SUFFICES ASSUME NEW x \in Boxes, NEW k \in Nat, r + 1 + k <= MaxReceived,
                        Onward[r + 1][x] \in Boxes
                 PROVE  Onward[r + 1 + k][x] = Onward[k][Onward[r + 1][x]]
      OBVIOUS
    <2>1. /\ r + 1 \in 0 .. MaxReceived /\ r + 1 + k \in 0 .. MaxReceived
          /\ r + 1 # 0 /\ r + 1 + k # 0 /\ r + 1 - 1 = r /\ r + 1 + k - 1 = r + k /\ r + k <= MaxReceived
      OBVIOUS
    <2>2. Onward[r + 1][x] = IF Rule[x] = Nil THEN Nil ELSE Onward[r][Rule[x]]
      BY <2>1, OnwardSteps
    <2>3. Rule[x] \in Boxes /\ Onward[r + 1][x] = Onward[r][Rule[x]]
      BY <2>2
    <2>4. Onward[r + 1 + k][x] = Onward[r + k][Rule[x]]
      BY <2>1, <2>3, OnwardSteps
    <2>5. Onward[r + k][Rule[x]] = Onward[k][Onward[r][Rule[x]]]
      BY <1>2, <2>1, <2>3
    <2> QED
      BY <2>3, <2>4, <2>5
  <1> HIDE DEF C
  <1>3. S = Nat
    <2>1. 0 \in S
      BY <1>1
    <2>2. ASSUME NEW r \in S PROVE r + 1 \in S
      <3>1. r \in Nat /\ C(r)
        OBVIOUS
      <3> QED
        BY <1>2, <3>1
    <2>3. S \subseteq Nat
      OBVIOUS
    <2> HIDE DEF S
    <2> QED
      BY <2>1, <2>2, <2>3, Induction
  <1> QED
    BY <1>3 DEF C

LEMMA OfferStands == NetNext => UNCHANGED offered
  BY DEF NetNext, Worker, SenderDials, ListDue, BeginPass, Store, Post, Hand, HandFails,
     NothingToForward, RefuseToForward, Dial, Finish, StartRewrite, Reschedule, WaiveFailed,
     StoreFails, RewriteFails, SettleFails, Crash, Receive, DropReceiver, Take, Hear, Refuse,
     CommitFails, Untaken, Cut, mail

\* An entry comes into being where a message is taken.
LEMMA NewlyTaken ==
  ASSUME NInv, NetNext, NEW m \in Ids, status[m] = "new", status'[m] # "new"
  PROVE  \E f \in flight :
           /\ Take(f) /\ ~ f.taken
           /\ envelope'[m] = [rcpts |-> f.rcpts, received |-> f.received, null |-> f.null]
  <1>1. NetTypeOK
    BY DEF NInv
  <1>2. ~ QueueMoves
    <2>1. UNCHANGED queue => FALSE
      BY DEF queue
    <2>2. \A n \in Ids : (\E t \in Target : Q!Hand(n, t)) => FALSE
      BY DEF Q!Hand
    <2>3. \A n \in Ids : (\E T \in SUBSET Target : Q!Waive(n, T) \/ Q!Record(n, T)) => FALSE
      BY DEF Q!Waive, Q!Record
    <2>4. \A n \in Ids : Q!Leave(n) \/ Q!Damage(n) => FALSE
      BY <1>1 DEF Q!Leave, Q!Damage, NetTypeOK
    <2> QED
      BY <2>1, <2>2, <2>3, <2>4 DEF QueueMoves
  <1>3. PICK f \in flight : Take(f)
    BY <1>2, Moves
  <1>4. PICK n \in Ids :
          /\ Q!Accept(n)
          /\ envelope' = [envelope EXCEPT ![n] = [rcpts |-> f.rcpts, received |-> f.received,
                                                  null |-> f.null]]
    BY <1>3 DEF Take
  <1>5. m = n
    BY <1>1, <1>4 DEF Q!Accept, NetTypeOK
  <1> QED
    BY <1>1, <1>3, <1>4, <1>5 DEF Take, NetTypeOK

\* A dialogue is one there was, with another client or state, or a new one.
LEMMA NewlyDialled ==
  ASSUME NInv, NetNext, NEW f \in flight'
  PROVE  \/ \E g \in flight : f.rcpts = g.rcpts /\ f.received = g.received
         \/ SenderDials /\ f.rcpts = offered.rcpts /\ f.received = 0
         \/ \E s \in Servers : Dial(s) /\ \E i \in Aliases(Entry(s)) :
              /\ Turn(s, Aliases(Entry(s)), i)
              /\ f.rcpts = <<Destination(Entry(s), i)>>
              /\ f.received = envelope[Entry(s)].received + 1
  <1> DEFINE Kept == \E g \in flight : f.rcpts = g.rcpts /\ f.received = g.received
  <1>1. NetTypeOK
    BY DEF NInv
  <1>2. f \in flight => Kept
    OBVIOUS
  <1>3. ASSUME NEW g \in flight, NEW o \in Orphaned(g), f \in o PROVE Kept
    <2>1. f = [g EXCEPT !.by = mishaps']
      BY <1>3 DEF Orphaned
    <2>2. g \in [by : Servers \cup {Sender} \cup Nat, rcpts : Seq(Boxes), received : Nat,
                 null : BOOLEAN, taken : BOOLEAN]
      BY <1>1 DEF NetTypeOK
    <2> QED
      BY <2>1, <2>2
  <1>4. ASSUME NEW g \in flight, Take(g) \/ Cut(g) PROVE Kept
    <2>1. CASE Cut(g)
      BY <1>2, <1>3, <2>1 DEF Cut
    <2>2. CASE Take(g)
      <3>1. f \in flight \/ f = [g EXCEPT !.taken = TRUE]
        BY <2>2 DEF Take
      <3>2. g \in [by : Servers \cup {Sender} \cup Nat, rcpts : Seq(Boxes), received : Nat,
                   null : BOOLEAN, taken : BOOLEAN]
        BY <1>1 DEF NetTypeOK
      <3>3. f = [g EXCEPT !.taken = TRUE] => f.rcpts = g.rcpts /\ f.received = g.received
        BY <3>2
      <3> QED
        BY <1>2, <3>1, <3>3
    <2> QED
      BY <1>4, <2>1, <2>2
  <1>5. ASSUME NEW s \in Servers, Crash(s) PROVE Kept
    <2>1. CASE Waits(s)
      <3>1. (CHOOSE g \in flight : g.by = s) \in flight
        BY <2>1 DEF Waits
      <3> QED
        BY <1>2, <1>3, <1>5, <2>1, <3>1 DEF Crash
    <2> QED
      BY <1>2, <1>5, <2>1 DEF Crash
  <1>6. ASSUME NEW g \in flight, Hear(g) \/ Refuse(g) \/ CommitFails(g) PROVE Kept
    BY <1>2, <1>6 DEF Hear, Refuse, CommitFails, Untaken
  <1>7. ASSUME NEW s \in Servers, (Works(s) /\ ~ Dial(s)) \/ Receive(s) \/ DropReceiver(s) PROVE Kept
    BY <1>2, <1>7 DEF Works, Worker, ListDue, BeginPass, Store, Post, Hand, HandFails,
       NothingToForward, RefuseToForward, Finish, StartRewrite, Reschedule, WaiveFailed, StoreFails,
       RewriteFails, SettleFails, Receive, DropReceiver
  <1>8. SenderDials => Kept \/ (f.rcpts = offered.rcpts /\ f.received = 0)
    BY <1>2 DEF SenderDials
  <1>9. ASSUME NEW s \in Servers, Dial(s)
        PROVE  Kept \/ \E i \in Aliases(Entry(s)) :
                         /\ Turn(s, Aliases(Entry(s)), i)
                         /\ f.rcpts = <<Destination(Entry(s), i)>>
                         /\ f.received = envelope[Entry(s)].received + 1
    BY <1>2, <1>9 DEF Dial, Prepare
  <1> QED
    BY <1>4, <1>5, <1>6, <1>7, <1>8, <1>9 DEF NetNext, Works

\* The sender's dialogue is its own.
LEMMA NewlySent ==
  ASSUME NInv, NetNext, NEW f \in flight', f.by = Sender
  PROVE  SenderDials \/ \E g \in flight : g.by = Sender
  <1>1. NetTypeOK /\ NetTypeOK'
    BY Moves DEF NInv
  <1>2. ASSUME NEW g, NEW o \in Orphaned(g), f \in o, g \in flight PROVE FALSE
    <2>1. f = [g EXCEPT !.by = mishaps']
      BY <1>2 DEF Orphaned
    <2>2. g \in [by : Servers \cup {Sender} \cup Nat, rcpts : Seq(Boxes), received : Nat,
                 null : BOOLEAN, taken : BOOLEAN]
      BY <1>1, <1>2 DEF NetTypeOK
    <2>3. f.by = mishaps' /\ mishaps' \in Nat
      BY <1>1, <2>1, <2>2, NetworkAssumption DEF NetTypeOK
    <2> QED
      BY <2>3, NetworkAssumption
  <1>3. ASSUME f \notin flight, NEW g \in flight, Take(g) PROVE \E h \in flight : h.by = Sender
    BY <1>1, <1>3 DEF Take, NetTypeOK
  <1>4. ASSUME f \notin flight, NEW g \in flight, Cut(g) PROVE FALSE
    BY <1>2, <1>4 DEF Cut
  <1>5. ASSUME f \notin flight, NEW s \in Servers, Crash(s) PROVE FALSE
    <2>1. CASE Waits(s)
      <3>1. (CHOOSE g \in flight : g.by = s) \in flight
        BY <2>1 DEF Waits
      <3> QED
        BY <1>2, <1>5, <2>1, <3>1 DEF Crash
    <2> QED
      BY <1>5, <2>1 DEF Crash
  <1>6. ASSUME NEW s \in Servers, Dial(s), f \notin flight PROVE FALSE
    BY <1>6, NetworkAssumption DEF Dial
  <1>7. ASSUME NEW s \in Servers, (Works(s) /\ ~ Dial(s)) \/ Receive(s) \/ DropReceiver(s)
        PROVE  f \in flight
    BY <1>7 DEF Works, Worker, ListDue, BeginPass, Store, Post, Hand, HandFails, NothingToForward,
       RefuseToForward, Finish, StartRewrite, Reschedule, WaiveFailed, StoreFails, RewriteFails,
       SettleFails, Receive, DropReceiver
  <1>8. ASSUME NEW g \in flight, Hear(g) \/ Refuse(g) \/ CommitFails(g) PROVE f \in flight
    BY <1>8 DEF Hear, Refuse, CommitFails, Untaken
  <1> QED
    BY <1>3, <1>4, <1>5, <1>6, <1>7, <1>8 DEF NetNext, Works

LEMMA SenderStays ==
  ASSUME NetNext, ~ \E g \in flight : Hear(g) /\ g.by = Sender
  PROVE  UNCHANGED sender
  BY DEF NetNext, Worker, SenderDials, ListDue, BeginPass, Store, Post, Hand, HandFails,
     NothingToForward, RefuseToForward, Dial, Finish, StartRewrite, Reschedule, WaiveFailed,
     StoreFails, RewriteFails, SettleFails, Crash, Receive, DropReceiver, Take, Hear, Refuse,
     CommitFails, Untaken, Cut

\* The offered recipients, and their number.
LEMMA Offered ==
  ASSUME NetTypeOK
  PROVE  offered.rcpts \in Seq(Boxes) /\ IsFiniteSet(DOMAIN offered.rcpts)
  <1>1. offered.rcpts \in Seq(Boxes)
    BY NetworkAssumption DEF NetTypeOK
  <1>2. DOMAIN offered.rcpts = 1 .. Len(offered.rcpts) /\ 1 \in Int /\ Len(offered.rcpts) \in Int
    BY <1>1
  <1> QED
    BY <1>1, <1>2, FS_Interval

LEMMA SelfOnTheWay ==
  ASSUME NetTypeOK
  PROVE  OnTheWay(offered.rcpts, 0)
  <1> DEFINE D == DOMAIN offered.rcpts
  <1>1. PICK g : g = [i \in D |-> i]
    OBVIOUS
  <1>2. g \in Injection(D, D)
    BY <1>1 DEF Injection, IsInjective
  <1>3. \A i \in D : offered.rcpts[i] = Onward[0][offered.rcpts[g[i]]]
    <2>1. \A i \in D : offered.rcpts[i] \in Boxes
      BY Offered
    <2> QED
      BY <1>1, <2>1, OnwardSteps, NetworkAssumption
  <1> QED
    BY <1>2, <1>3 DEF OnTheWay

LEMMA TravelKeeps ==
  ASSUME NInv, Travel, NetNext
  PROVE  Travel'
  <1>1. UNCHANGED offered /\ NetTypeOK
    BY OfferStands DEF NInv
  <1>2. ASSUME NEW rcpts, NEW received, OnTheWay(rcpts, received) PROVE OnTheWay(rcpts, received)'
    BY <1>1, <1>2 DEF OnTheWay
  <1>3. ASSUME NEW m \in Ids, status'[m] # "new"
        PROVE  OnTheWay(envelope[m].rcpts, envelope[m].received)'
    <2>1. PICK e : e = envelope'[m]
      OBVIOUS
    <2>2. CASE status[m] # "new"
      <3>1. OnTheWay(e.rcpts, e.received)
        BY <2>1, <2>2, TakenStays DEF Travel
      <3> QED
        BY <1>2, <2>1, <3>1
    <2>3. CASE status[m] = "new"
      <3>2. PICK f \in flight :
              envelope'[m] = [rcpts |-> f.rcpts, received |-> f.received, null |-> f.null]
        BY <1>3, <2>3, NewlyTaken
      <3>3. e.rcpts = f.rcpts /\ e.received = f.received
        BY <2>1, <3>2
      <3>1. OnTheWay(e.rcpts, e.received)
        BY <3>3 DEF Travel
      <3> QED
        BY <1>2, <2>1, <3>1
    <2> QED
      BY <2>2, <2>3
  <1>4. OnTheWay(offered.rcpts, 0)
    BY <1>1, SelfOnTheWay
  <1>5. ASSUME NEW s \in Servers, Dial(s), NEW i \in Aliases(Entry(s))
        PROVE  OnTheWay(<<Destination(Entry(s), i)>>, envelope[Entry(s)].received + 1)
    <2>1. Entry(s) \in Ids /\ status[Entry(s)] = "queued"
      BY <1>1, <1>5, PassAtHand DEF Dial, AtTarget, NInv, Passes
    <2>2. PICK e : e = envelope[Entry(s)]
      OBVIOUS
    <2>3. e \in Envelope /\ e.received \in Nat /\ e.received < MaxReceived
      BY <1>5, <2>1, <2>2 DEF NInv, Entries, Dial, Envelope
    <2>4. i \in DOMAIN e.rcpts /\ e.rcpts[i] \in Boxes /\ Rule[e.rcpts[i]] \in Boxes
      BY <2>2, <2>3, NetworkAssumption DEF Aliases, Envelope
    <2>5. PICK g \in Injection(DOMAIN e.rcpts, DOMAIN offered.rcpts) :
            \A j \in DOMAIN e.rcpts : e.rcpts[j] = Onward[e.received][offered.rcpts[g[j]]]
      BY <2>1, <2>2 DEF Travel, OnTheWay
    <2>6. g[i] \in DOMAIN offered.rcpts /\ offered.rcpts[g[i]] \in Boxes
      BY <1>1, <2>4, <2>5, Offered DEF Injection, IsInjective
    <2>7. Onward[e.received + 1][offered.rcpts[g[i]]] = Rule[e.rcpts[i]]
      <3>1. 1 \in 0 .. MaxReceived /\ 0 \in 0 .. MaxReceived /\ e.received + 1 <= MaxReceived
        BY <2>3, NetworkAssumption
      <3>2. Onward[1][e.rcpts[i]] = Onward[0][Rule[e.rcpts[i]]]
        <4>1. Rule[e.rcpts[i]] # Nil
          BY <2>4, NetworkAssumption
        <4> QED
          BY <2>4, <3>1, <4>1, OnwardSteps
      <3>3. Onward[0][Rule[e.rcpts[i]]] = Rule[e.rcpts[i]]
        BY <2>4, <3>1, OnwardSteps
      <3> QED
        BY <2>3, <2>4, <2>5, <2>6, <3>1, <3>2, <3>3, OnwardComposes
    <2>8. PICK h : h = [j \in {1} |-> g[i]]
      OBVIOUS
    <2>9. PICK q : q = <<Rule[e.rcpts[i]]>>
      OBVIOUS
    <2>10. DOMAIN q = {1} /\ q[1] = Rule[e.rcpts[i]]
      BY <2>9
    <2>11. h \in Injection(DOMAIN q, DOMAIN offered.rcpts)
      BY <2>6, <2>8, <2>10 DEF Injection, IsInjective
    <2>12. \A j \in DOMAIN q : q[j] = Onward[e.received + 1][offered.rcpts[h[j]]]
      BY <2>7, <2>8, <2>10
    <2>13. OnTheWay(q, e.received + 1)
      BY <2>11, <2>12 DEF OnTheWay
    <2> QED
      BY <2>2, <2>9, <2>13 DEF Destination
  <1>6. ASSUME NEW f \in flight' PROVE OnTheWay(f.rcpts, f.received)'
    <2>1. CASE \E g \in flight : f.rcpts = g.rcpts /\ f.received = g.received
      <3>1. OnTheWay(f.rcpts, f.received)
        BY <2>1 DEF Travel
      <3> QED
        BY <1>2, <3>1
    <2>2. CASE f.rcpts = offered.rcpts /\ f.received = 0
      BY <1>2, <1>4, <2>2
    <2>3. ASSUME NEW s \in Servers, Dial(s), NEW i \in Aliases(Entry(s)),
                 f.rcpts = <<Destination(Entry(s), i)>>,
                 f.received = envelope[Entry(s)].received + 1
          PROVE  OnTheWay(f.rcpts, f.received)'
      <3>1. OnTheWay(f.rcpts, f.received)
        BY <1>5, <2>3
      <3> QED
        BY <1>2, <3>1
    <2> QED
      BY <1>6, <2>1, <2>2, <2>3, NewlyDialled
  <1>7. ASSUME NEW s \in Servers, work'[s] # Nil PROVE work'[s].left \cap work'[s].failed = {}
    <2>1. work[s] # Nil => work[s].left \cap work[s].failed = {}
      BY DEF Travel
    <2>2. ASSUME NEW m \in Ids, BeginPass(s, m) PROVE work'[s].left \cap work'[s].failed = {}
      BY <1>1, <2>2 DEF BeginPass, NetTypeOK
    <2>3. ASSUME NEW t, AtTarget(s, t), Done(s, t) \/ TargetFails(s, t)
          PROVE  work'[s].left \cap work'[s].failed = {}
      <3>1. work'[s].left = work[s].left \ {t} /\ work'[s].failed \subseteq work[s].failed \cup {t}
        BY <1>1, <2>3, PassAtHand DEF AtTarget, Done, TargetFails, Without, NetTypeOK, Pass
      <3> QED
        BY <2>1, <2>3, <3>1 DEF AtTarget
    <2>4. ASSUME NEW t, NEW P, NEW i, AtTarget(s, t), Advance(s, t, P, i)
          PROVE  work'[s].left \cap work'[s].failed = {}
      <3>1. CASE Done(s, t)
        BY <2>3, <2>4, <3>1
      <3>2. CASE work' = [work EXCEPT ![s].at = i + 1]
        <4>1. work'[s].left = work[s].left /\ work'[s].failed = work[s].failed
          BY <1>1, <2>4, <3>2, PassAtHand DEF AtTarget, NetTypeOK, Pass
        <4> QED
          BY <2>1, <2>4, <4>1 DEF AtTarget
      <3> QED
        BY <2>4, <3>1, <3>2 DEF Advance
    <2>5. CASE StartRewrite(s)
      BY <1>1, <2>5, PassAtHand DEF StartRewrite, Over, NetTypeOK, Pass
    <2> QED
      BY <1>7, <2>1, <2>2, <2>3, <2>4, <2>5, WorkSteps DEF Steps, Store, Forwarded
  <1>8. ASSUME NEW f \in flight', f.by = Sender PROVE sender' = "holding"
    <2>1. CASE \E g \in flight : Hear(g) /\ g.by = Sender
      BY <1>8, <2>1 DEF Hear, NInv, Dialogues
    <2>2. CASE ~ \E g \in flight : Hear(g) /\ g.by = Sender
      <3>1. SenderDials \/ \E g \in flight : g.by = Sender
        BY <1>8, NewlySent
      <3>2. UNCHANGED sender
        BY <2>2, SenderStays
      <3> QED
        BY <3>1, <3>2 DEF Travel, SenderDials
    <2> QED
      BY <2>1, <2>2
  <1> QED
    BY <1>3, <1>6, <1>7, <1>8 DEF Travel

LEMMA VisitsFinite ==
  ASSUME NetTypeOK, NEW b \in Boxes
  PROVE  IsFiniteSet(Visits(b)) /\ Cardinality(Visits(b)) \in Nat
  <1>1. IsFiniteSet(0 .. MaxReceived)
    <2>1. 0 \in Int /\ MaxReceived \in Int
      BY NetworkAssumption
    <2> QED
      BY <2>1, FS_Interval
  <1>2. IsFiniteSet((DOMAIN offered.rcpts) \X (0 .. MaxReceived))
    BY <1>1, Offered, FS_Product
  <1>3. Visits(b) \in SUBSET ((DOMAIN offered.rcpts) \X (0 .. MaxReceived))
    BY DEF Visits
  <1> QED
    BY <1>2, <1>3, FS_Subset, FS_CardinalityType

\* A way on from where the message has come to is part of a way it was to go.
LEMMA WaysVisit ==
  ASSUME NetTypeOK, NEW rcpts \in Seq(Boxes), NEW received \in Nat, NEW b \in Boxes,
         NEW g \in Injection(DOMAIN rcpts, DOMAIN offered.rcpts),
         \A i \in DOMAIN rcpts : rcpts[i] = Onward[received][offered.rcpts[g[i]]],
         NEW i, NEW k, Comes(rcpts, received, i, k, b)
  PROVE  <<g[i], received + k>> \in Visits(b)
  <1> USE NetworkAssumption
  <1>1. i \in DOMAIN rcpts /\ k \in Nat /\ received + k \in 0 .. MaxReceived /\ Onward[k][rcpts[i]] = b
    BY DEF Comes
  <1>2. rcpts[i] \in Boxes
    BY <1>1
  <1>3. g[i] \in DOMAIN offered.rcpts /\ offered.rcpts[g[i]] \in Boxes
    BY <1>1, Offered DEF Injection
  <1>4. Onward[received + k][offered.rcpts[g[i]]] = b
    <2>1. rcpts[i] = Onward[received][offered.rcpts[g[i]]] /\ received + k <= MaxReceived
      BY <1>1
    <2>2. PICK x \in Boxes : x = offered.rcpts[g[i]]
      BY <1>3
    <2>3. Onward[received][x] \in Boxes
      BY <1>2, <2>1, <2>2
    <2>4. Onward[received + k][x] = Onward[k][Onward[received][x]]
      BY <1>1, <2>1, <2>3, OnwardComposes
    <2> QED
      BY <1>1, <2>1, <2>2, <2>4
  <1> QED
    BY <1>1, <1>3, <1>4 DEF Visits

\* What a message for these recipients is worth, under some label.
Worth(kind, x, rcpts, received, b) ==
  {d \in {kind} \X {x} \X Nat \X Nat : Comes(rcpts, received, d[3], d[4], b)}

LEMMA WorthFits ==
  ASSUME NetTypeOK, NEW kind, NEW x, NEW rcpts \in Seq(Boxes), NEW received \in Nat, NEW b \in Boxes,
         OnTheWay(rcpts, received)
  PROVE  \E h : h \in Injection(Worth(kind, x, rcpts, received, b), Visits(b))
  <1> DEFINE W == Worth(kind, x, rcpts, received, b)
  <1>1. PICK g \in Injection(DOMAIN rcpts, DOMAIN offered.rcpts) :
          \A i \in DOMAIN rcpts : rcpts[i] = Onward[received][offered.rcpts[g[i]]]
    BY DEF OnTheWay
  <1>2. PICK h : h = [d \in W |-> <<g[d[3]], received + d[4]>>]
    OBVIOUS
  <1>3. ASSUME NEW d \in W
        PROVE  d = <<kind, x, d[3], d[4]>> /\ d[4] \in Nat /\ Comes(rcpts, received, d[3], d[4], b)
    BY <1>3 DEF Worth
  <1>4. \A d \in W : h[d] \in Visits(b)
    BY <1>1, <1>2, <1>3, WaysVisit
  <1>5. ASSUME NEW d \in W, NEW e \in W, h[d] = h[e] PROVE d = e
    <2> HIDE DEF W
    <2>1. g[d[3]] = g[e[3]] /\ received + d[4] = received + e[4]
      BY <1>2, <1>5
    <2>2. d[4] = e[4]
      BY <1>3, <2>1
    <2>3. d[3] \in DOMAIN rcpts /\ e[3] \in DOMAIN rcpts
      BY <1>3 DEF Comes
    <2>4. d[3] = e[3]
      BY <1>1, <2>1, <2>3 DEF Injection, IsInjective
    <2> QED
      BY <1>3, <2>2, <2>4
  <1>6. h \in Injection(W, Visits(b))
    <2> HIDE DEF W
    <2> QED
      BY <1>2, <1>4, <1>5 DEF Injection, IsInjective
  <1> QED
    BY <1>6

\* A message and a copy of it that goes on from its place i are worth no more
\* than the message, when that does not go on from there itself.
LEMMA BothFit ==
  ASSUME NetTypeOK, NEW x, NEW f, NEW rcpts \in Seq(Boxes), NEW received \in Nat, NEW b \in Boxes,
         OnTheWay(rcpts, received), received < MaxReceived,
         NEW i \in DOMAIN rcpts, Rule[rcpts[i]] # Nil
  PROVE  \E h : h \in Injection({d \in Worth("entry", x, rcpts, received, b) : d[3] # i \/ d[4] = 0}
                                \cup Worth("late", f, <<Rule[rcpts[i]]>>, received + 1, b), Visits(b))
  <1> DEFINE E == {d \in Worth("entry", x, rcpts, received, b) : d[3] # i \/ d[4] = 0}
             L == Worth("late", f, <<Rule[rcpts[i]]>>, received + 1, b)
             B == E \cup L
  <1>1. PICK g \in Injection(DOMAIN rcpts, DOMAIN offered.rcpts) :
          \A j \in DOMAIN rcpts : rcpts[j] = Onward[received][offered.rcpts[g[j]]]
    BY DEF OnTheWay
  <1>2. PICK h : h = [d \in B |-> IF d[1] = "entry" THEN <<g[d[3]], received + d[4]>>
                                  ELSE <<g[i], received + (d[4] + 1)>>]
    OBVIOUS
  <1>3. ASSUME NEW d \in E
        PROVE  /\ d = <<"entry", x, d[3], d[4]>> /\ d[1] = "entry" /\ d[4] \in Nat
               /\ Comes(rcpts, received, d[3], d[4], b)
               /\ d[3] # i \/ d[4] = 0
    BY <1>3 DEF Worth
  <1>4. ASSUME NEW d \in L
        PROVE  /\ d = <<"late", f, 1, d[4]>> /\ d[1] # "entry" /\ d[4] \in Nat
               /\ Comes(rcpts, received, i, d[4] + 1, b)
    <2>1. d = <<"late", f, d[3], d[4]>> /\ d[1] = "late" /\ d[4] \in Nat
          /\ Comes(<<Rule[rcpts[i]]>>, received + 1, d[3], d[4], b)
      BY <1>4 DEF Worth
    <2>2. d[3] = 1 /\ d[4] + 1 \in 0 .. (MaxReceived - received) /\ Onward[d[4]][Rule[rcpts[i]]] = b
      BY <2>1, NetworkAssumption, SMTT(30) DEF Comes
    <2>3. Onward[d[4] + 1][rcpts[i]] = b
      <3>1. PICK n, a : n = d[4] + 1 /\ a = rcpts[i]
        OBVIOUS
      <3>2. n \in 0 .. MaxReceived /\ n # 0 /\ n - 1 = d[4] /\ a \in Boxes /\ Rule[a] # Nil
        BY <2>1, <2>2, <3>1, NetworkAssumption, SMTT(30)
      <3>3. Onward[n][a] = Onward[n - 1][Rule[a]]
        BY <3>2, OnwardSteps
      <3> QED
        BY <2>2, <3>1, <3>2, <3>3
    <2> QED
      BY <2>1, <2>2, <2>3 DEF Comes
  <1> HIDE DEF E, L
  <1>5. \A d \in E : h[d] = <<g[d[3]], received + d[4]>> /\ h[d] \in Visits(b)
    BY <1>1, <1>2, <1>3, WaysVisit
  <1>6. \A d \in L : h[d] = <<g[i], received + (d[4] + 1)>> /\ h[d] \in Visits(b)
    BY <1>1, <1>2, <1>4, WaysVisit
  <1>7. \A j, k \in DOMAIN rcpts : g[j] = g[k] => j = k
    BY <1>1 DEF Injection, IsInjective
  <1>8. ASSUME NEW d \in E, NEW e \in E, h[d] = h[e] PROVE d = e
    <2>1. g[d[3]] = g[e[3]] /\ received + d[4] = received + e[4]
      BY <1>5, <1>8
    <2>2. d[3] = e[3] /\ d[4] = e[4]
      BY <1>3, <1>7, <2>1 DEF Comes
    <2> QED
      BY <1>3, <2>2
  <1>9. ASSUME NEW d \in L, NEW e \in L, h[d] = h[e] PROVE d = e
    <2>1. received + (d[4] + 1) = received + (e[4] + 1)
      BY <1>6, <1>9
    <2>2. d[4] = e[4]
      BY <1>4, <2>1
    <2> QED
      BY <1>4, <2>2
  <1>10. ASSUME NEW d \in E, NEW e \in L, h[d] = h[e] PROVE FALSE
    <2>1. g[d[3]] = g[i] /\ received + d[4] = received + (e[4] + 1)
      BY <1>5, <1>6, <1>10
    <2>2. d[3] = i /\ d[4] # 0
      BY <1>3, <1>4, <1>7, <2>1 DEF Comes
    <2> QED
      BY <1>3, <2>2
  <1>11. h \in Injection(B, Visits(b))
    <2>1. \A d \in B : h[d] \in Visits(b)
      BY <1>5, <1>6
    <2>2. \A d, e \in B : h[d] = h[e] => d = e
      BY <1>8, <1>9, <1>10
    <2> HIDE DEF B
    <2> QED
      BY <1>2, <2>1, <2>2 DEF Injection, IsInjective
  <1> QED
    BY <1>11 DEF E, L

------------------------------------------------------------------------------
\* What a step may do to what is due for b and to b's mailbox.
Balanced(b) ==
  /\ IsFiniteSet(Due(b))'
  /\ \/ /\ filed'[b] = filed[b] /\ mishaps' \in {mishaps, mishaps + 1}
        /\ Cardinality(Due(b))' <= Cardinality(Due(b))
     \/ /\ filed'[b] = filed[b] + 1 /\ mishaps' = mishaps
        /\ Cardinality(Due(b))' < Cardinality(Due(b))
     \/ /\ filed'[b] = filed[b] /\ mishaps' = mishaps + 1
        /\ Cardinality(Due(b))' <= Cardinality(Due(b)) + Cardinality(Visits(b))

LEMMA QuietIsBalanced ==
  ASSUME Accounted, NEW b \in Boxes, filed'[b] = filed[b], mishaps' \in {mishaps, mishaps + 1},
         Due(b)' \subseteq Due(b)
  PROVE  Balanced(b)
  <1>1. IsFiniteSet(Due(b)) /\ Due(b)' \in SUBSET Due(b)
    BY DEF Accounted
  <1>2. IsFiniteSet(Due(b)') /\ Cardinality(Due(b)') <= Cardinality(Due(b))
    BY <1>1, FS_Subset
  <1> QED
    BY <1>2 DEF Balanced

LEMMA SetbackIsBalanced ==
  ASSUME NetTypeOK, Accounted, NEW b \in Boxes, filed'[b] = filed[b], mishaps' = mishaps + 1,
         NEW B, NEW h \in Injection(B, Visits(b)), Due(b)' \subseteq Due(b) \cup B
  PROVE  Balanced(b)
  <1>1. IsFiniteSet(Due(b)) /\ IsFiniteSet(Visits(b))
    BY VisitsFinite DEF Accounted
  <1>2. IsFiniteSet(Due(b)') /\ Cardinality(Due(b)') <= Cardinality(Due(b)) + Cardinality(Visits(b))
    BY <1>1, GrownBy
  <1> QED
    BY <1>2 DEF Balanced

LEMMA LateFalls ==
  ASSUME NEW b, \A f \in flight' : f \in flight \/ Waiting(f)
  PROVE  DueLate(b)' \subseteq DueLate(b)
  <1>1. \A f : Waiting(f)' <=> Waiting(f)
    BY DEF Waiting
  <1> QED
    BY <1>1 DEF DueLate, Comes

LEMMA SenderFalls ==
  ASSUME NEW b, UNCHANGED offered,
         sender' = "done" \/ (sender' = sender /\ (Replied(Sender) => Replied(Sender)'))
  PROVE  DueAtSender(b)' \subseteq DueAtSender(b)
  BY DEF DueAtSender, Comes

\* An entry that is queued after a step was so before, unless it is new.
LEMMA QueuedBefore ==
  ASSUME NInv, NetNext, NEW m \in Ids, status'[m] = "queued"
  PROVE  status[m] \in {"new", "queued"}
  <1>1. NetTypeOK
    BY DEF NInv
  <1>2. CASE \E f \in flight : Take(f)
    BY <1>1, <1>2 DEF Take, Q!Accept, NetTypeOK
  <1>3. CASE QueueMoves
    <2>1. CASE UNCHANGED queue
      BY <2>1 DEF queue
    <2>2. \A n \in Ids : (\E t \in Target : Q!Hand(n, t)) => status' = status
      BY DEF Q!Hand
    <2>3. \A n \in Ids : (\E T \in SUBSET Target : Q!Waive(n, T) \/ Q!Record(n, T)) => status' = status
      BY DEF Q!Waive, Q!Record
    <2>4. ASSUME NEW n \in Ids, Q!Leave(n) \/ Q!Damage(n) PROVE status[m] = "queued"
      BY <1>1, <2>4 DEF Q!Leave, Q!Damage, NetTypeOK
    <2> QED
      BY <1>3, <2>1, <2>2, <2>3, <2>4 DEF QueueMoves
  <1> QED
    BY <1>2, <1>3, Moves

\* What is due at an entry was due there before if its target was pending.
LEMMA EntryFalls ==
  ASSUME NInv, NetNext, NEW b, NEW m \in Ids, NEW i, NEW k, status[m] # "new",
         EntryDue(m, i, k, b)', Pending(m, Way(k), i)
  PROVE  EntryDue(m, i, k, b)
  BY TakenStays DEF EntryDue, Comes

\* An entry nobody works on, before or after, owes what it owed.
LEMMA IdleFalls ==
  ASSUME NInv, NetNext, NEW m \in Ids, status[m] = "queued", NEW t, NEW i, Pending(m, t, i)',
         owed'[m] = owed[m],
         ~ (work[HomeOf(m)] # Nil /\ Entry(HomeOf(m)) = m),
         ~ (work[HomeOf(m)] # Nil /\ Entry(HomeOf(m)) = m)'
  PROVE  Pending(m, t, i)
  BY DEF Pending

\* The pass of another server is as it was.
LEMMA FarFalls ==
  ASSUME NInv, NetNext, NEW m \in Ids, status[m] = "queued", NEW t, NEW i, Pending(m, t, i)',
         owed'[m] = owed[m], work'[HomeOf(m)] = work[HomeOf(m)],
         Replied(HomeOf(m)) => Replied(HomeOf(m))'
  PROVE  Pending(m, t, i)
  <1>1. PICK s : s = HomeOf(m)
    OBVIOUS
  <1>2. HomeOf(m)' = s /\ Aliases(m)' = Aliases(m) /\ work'[s] = work[s]
    BY <1>1, PlacesStay
  <1>3. Entry(s)' = Entry(s) /\ (AtTarget(s, t)' <=> AtTarget(s, t))
        /\ (Turn(s, Aliases(m), i)' <=> Turn(s, Aliases(m), i))
    BY <1>2 DEF Entry, AtTarget, Turn
  <1>4. Replied(s) => Replied(s)'
    BY <1>1, <1>2
  <1> QED
    BY <1>1, <1>2, <1>3, <1>4 DEF Pending

LEMMA EntriesFall ==
  ASSUME NInv, NetNext, NEW b \in Boxes, NEW s \in Servers, \A f \in flight : ~ Take(f),
         \A r \in Servers : r # s => work'[r] = work[r] /\ (Replied(r) => Replied(r)'),
         \A m \in Ids : owed'[m] = owed[m] \/ (work[s] # Nil /\ m = Entry(s)),
         ASSUME NEW m \in Ids, status[m] = "queued", HomeOf(m) = s, NEW i \in Nat, NEW k \in Nat,
                EntryDue(m, i, k, b)', Pending(m, Way(k), i)',
                \/ work[s] # Nil /\ Entry(s) = m
                \/ \E n \in Ids : BeginPass(s, n) /\ n = m
         PROVE  Pending(m, Way(k), i)
  PROVE  DueAtEntries(b)' \subseteq DueAtEntries(b)
  <1>1. SUFFICES ASSUME NEW m \in Ids, NEW i \in Nat, NEW k \in Nat, EntryDue(m, i, k, b)'
                 PROVE  EntryDue(m, i, k, b)
    BY DEF DueAtEntries
  <1>2. Pending(m, Way(k), i)' /\ status'[m] = "queued"
    BY <1>1 DEF EntryDue, Pending
  <1>3. status[m] = "queued" /\ HomeOf(m) \in Servers /\ HomeOf(m)' = HomeOf(m)
    <2>1. status[m] = "queued"
      BY <1>2, QueuedBefore, NewlyTaken
    <2>2. envelope[m] \in Envelope /\ OneHome(envelope[m].rcpts)
      BY <2>1 DEF NInv, Entries
    <2>3. HomeOf(m) \in Servers
      BY <2>2, NetworkAssumption DEF Envelope, OneHome, HomeOf
    <2> QED
      BY <2>1, <2>3, PlacesStay
  <1>4. CASE HomeOf(m) # s
    <2>1. work[s] # Nil => m # Entry(s)
      BY <1>4 DEF NInv, Passes
    <2>2. Pending(m, Way(k), i)
      BY <1>2, <1>3, <1>4, <2>1, FarFalls
    <2> QED
      BY <1>1, <1>3, <2>2, EntryFalls
  <1>5. CASE HomeOf(m) = s
    <2>1. CASE (work[s] # Nil /\ Entry(s) = m) \/ \E n \in Ids : BeginPass(s, n) /\ n = m
      <3>1. Pending(m, Way(k), i)
        BY <1>1, <1>2, <1>3, <1>5, <2>1
      <3> QED
        BY <1>1, <1>3, <3>1, EntryFalls
    <2>2. CASE ~ ((work[s] # Nil /\ Entry(s) = m) \/ \E n \in Ids : BeginPass(s, n) /\ n = m)
      <3>1. ~ (work[s] # Nil /\ Entry(s) = m)'
        BY <2>2, SameEntry DEF Entry
      <3>2. owed'[m] = owed[m]
        BY <2>2
      <3>3. Pending(m, Way(k), i)
        <4>1. ~ (work[HomeOf(m)] # Nil /\ Entry(HomeOf(m)) = m)'
          BY <1>3, <1>5, <3>1
        <4> QED
          BY <1>2, <1>3, <1>5, <2>2, <3>2, <4>1, IdleFalls
      <3> QED
        BY <1>1, <1>3, <3>3, EntryFalls
    <2> QED
      BY <2>1, <2>2
  <1> QED
    BY <1>4, <1>5

\* A step of the queues that is no message taken.
LEMMA NoTake ==
  ASSUME NetTypeOK, QueueMoves, NEW f, Take(f)
  PROVE  FALSE
  <1>1. PICK m \in Ids : status[m] = "new" /\ status'[m] = "queued"
    BY DEF Take, Q!Accept, NetTypeOK
  <1>2. UNCHANGED queue => FALSE
    BY <1>1 DEF queue
  <1>3. \A n \in Ids : (\E t \in Target : Q!Hand(n, t)) => FALSE
    BY <1>1 DEF Q!Hand
  <1>4. \A n \in Ids : (\E T \in SUBSET Target : Q!Waive(n, T) \/ Q!Record(n, T)) => FALSE
    BY <1>1 DEF Q!Waive, Q!Record
  <1>5. \A n \in Ids : Q!Leave(n) \/ Q!Damage(n) => FALSE
    BY <1>1 DEF Q!Leave, Q!Damage, NetTypeOK
  <1> QED
    BY <1>2, <1>3, <1>4, <1>5 DEF QueueMoves

\* A pass that leaves its target behind has no more to do there.
LEMMA LeavesTarget ==
  ASSUME NInv, NetNext, NEW s \in Servers, NEW u \in Target, AtTarget(s, u), NEW F \in SUBSET Target,
         work' = [work EXCEPT ![s] = Without(s, u, F)],
         NEW m \in Ids, m = Entry(s), status[m] = "queued", HomeOf(m) = s,
         NEW t \in {"mailbox", "forward"}, t \in F => t \in work[s].failed,
         NEW i, Pending(m, t, i)'
  PROVE  Pending(m, t, i)
  <1>1. work[s] # Nil /\ work'[s] = Without(s, u, F) /\ work[s] \in Pass
    BY PassAtHand DEF NInv, NetTypeOK, AtTarget
  <1>2. work'[s] \in Pass \cup {Nil} /\ HomeOf(m)' = s
    BY Moves, PlacesStay DEF NetTypeOK
  <1>3. work'[s].failed = F /\ work'[s].left = work[s].left \ {u} /\ work'[s].of = m
    BY <1>1 DEF Without
  <1>4. work'[s] # Nil
    <2>1. Without(s, u, F) \in Pass
      BY <1>1 DEF Without, Entry, Pass
    <2> QED
      BY <1>1, <2>1, NetworkAssumption
  <1>5. t \in F \/ (t \in work[s].left /\ t # u)
    BY <1>2, <1>3, <1>4 DEF Pending, Entry
  <1>6. t \in work[s].left /\ t # u => ~ AtTarget(s, t)
    BY OneAtHand DEF Target
  <1> QED
    BY <1>1, <1>5, <1>6 DEF Pending

\* A part of the forwarder's or the mailbox's work that is done is due no more.
LEMMA AdvanceFalls ==
  ASSUME NInv, Travel, NetNext, NEW s \in Servers, NEW u \in {"mailbox", "forward"}, AtTarget(s, u),
         NEW m \in Ids, m = Entry(s), status[m] = "queued", HomeOf(m) = s,
         NEW P \in SUBSET Nat, u = "forward" => P = Aliases(m),
         NEW j \in P, Turn(s, P, j), Advance(s, u, P, j),
         NEW t \in {"mailbox", "forward"}, NEW i \in Nat, Pending(m, t, i)'
  PROVE  Pending(m, t, i) /\ ~ (t = u /\ i = j)
  <1>1. /\ work[s] # Nil /\ work[s] \in Pass /\ u \in work[s].left /\ work[s].failed \in SUBSET Target
        /\ work[s].at \in Nat /\ j \in Nat /\ work[s].at <= j /\ u \in Target /\ u \notin work[s].failed
    BY PassAtHand DEF NInv, AtTarget, Pass, Turn, Target, Travel
  <1>2. CASE Done(s, u)
    <2>1. work' = [work EXCEPT ![s] = Without(s, u, work[s].failed)]
      BY <1>2 DEF Done
    <2>2. Pending(m, t, i)
      BY <1>1, <2>1, LeavesTarget
    <2>3. t # u
      <3>1. work'[s] = Without(s, u, work[s].failed) /\ HomeOf(m)' = s
        BY <2>1, PlacesStay DEF NInv, NetTypeOK
      <3>2. work'[s] \in Pass /\ work'[s].of = m
        BY <1>1, <3>1 DEF Without, Pass, Entry
      <3>3. work'[s] # Nil /\ Entry(s)' = m
        BY <3>2, NetworkAssumption DEF Entry
      <3>4. t \in work'[s].failed \/ t \in work'[s].left
        BY <3>1, <3>3 DEF Pending
      <3> QED
        BY <1>1, <3>1, <3>4 DEF Without
    <2> QED
      BY <2>2, <2>3
  <1>3. CASE work' = [work EXCEPT ![s].at = j + 1]
    <2>1. /\ work'[s] = [of |-> work[s].of, left |-> work[s].left, at |-> j + 1,
                         failed |-> work[s].failed, rewrites |-> work[s].rewrites]
          /\ HomeOf(m)' = s
      BY <1>1, <1>3, PlacesStay DEF NInv, NetTypeOK, Pass
    <2>2. work'[s] \in Pass
      BY <1>1, <2>1 DEF Pass
    <2>3. work'[s] # Nil /\ Entry(s)' = m /\ \A v : AtTarget(s, v)' <=> AtTarget(s, v)
      BY <1>1, <2>1, <2>2, NetworkAssumption DEF Entry, AtTarget
    <2>4. t \in work[s].failed \/ (t \in work[s].left /\ (AtTarget(s, t) => j + 1 <= i))
      BY <2>1, <2>3 DEF Pending
    <2>5. AtTarget(s, t) => t = u
      BY <1>1, OneAtHand DEF Target
    <2>6. CASE t \in work[s].failed
      BY <1>1, <2>6 DEF Pending
    <2>7. CASE t \in work[s].left /\ ~ AtTarget(s, t)
      BY <1>1, <2>7 DEF Pending
    <2>8. CASE t \in work[s].left /\ t = u /\ j + 1 <= i
      <3>1. work[s].at <= i /\ i # j
        BY <1>1, <2>8
      <3>2. t = "forward" => ~ Turn(s, Aliases(m), i)
        BY <1>1, <2>8, <3>1, OneTurn
      <3> QED
        BY <1>1, <2>8, <3>1, <3>2 DEF Pending
    <2> QED
      BY <2>4, <2>5, <2>6, <2>7, <2>8
  <1> QED
    BY <1>2, <1>3 DEF Advance

\* What the worker's steps leave alone.
LEMMA WorkerLeaves ==
  ASSUME NInv, NEW s \in Servers, Works(s)
  PROVE  /\ \A r \in Servers : r # s => work'[r] = work[r]
         /\ \A m \in Ids : owed'[m] = owed[m] \/ (work[s] # Nil /\ m = Entry(s))
         /\ \A f \in flight : f \in flight'
         /\ \A f \in flight' : f \in flight \/ Waiting(f)
         /\ UNCHANGED sender
         /\ \A f \in flight : ~ Take(f)
  <1>1. NetTypeOK
    BY DEF NInv
  <1>2. \A f \in flight : ~ Take(f)
    BY <1>1, WorkerTypes, NoTake
  <1>3. \A r \in Servers : r # s => work'[r] = work[r]
    BY <1>1
    DEF Works, Worker, ListDue, BeginPass, Store, Post, Hand, HandFails, NothingToForward,
        RefuseToForward, Dial, Finish, StartRewrite, Reschedule, WaiveFailed, StoreFails, RewriteFails,
        SettleFails, Advance, Done, TargetFails, NetTypeOK
  <1>4. \A m \in Ids : owed'[m] = owed[m] \/ (work[s] # Nil /\ m = Entry(s))
    <2>1. CASE Finish(s) \/ Reschedule(s) \/ RewriteFails(s)
      BY <1>1, <2>1 DEF Finish, Reschedule, RewriteFails, Tears, Over, Rewriting, Q!Leave, Q!Record,
         Q!Damage, NetTypeOK
    <2>2. CASE ~ (Finish(s) \/ Reschedule(s) \/ RewriteFails(s))
      <3>1. UNCHANGED owed
        BY <2>2
        DEF Works, Worker, ListDue, BeginPass, Store, Post, Hand, HandFails, NothingToForward,
            RefuseToForward, Dial, StartRewrite, WaiveFailed, StoreFails, SettleFails, Advance, Done,
            TargetFails, Q!Hand, Q!Waive, queue
      <3> QED
        BY <3>1
    <2> QED
      BY <2>1, <2>2
  <1>5. CASE Dial(s)
    BY <1>2, <1>3, <1>4, <1>5 DEF Dial, Waiting
  <1>6. CASE ~ Dial(s)
    <2>1. UNCHANGED <<flight, sender>>
      BY <1>6
      DEF Works, Worker, ListDue, BeginPass, Store, Post, Hand, HandFails, NothingToForward,
          RefuseToForward, Finish, StartRewrite, Reschedule, WaiveFailed, StoreFails, RewriteFails,
          SettleFails
    <2> QED
      BY <1>2, <1>3, <1>4, <2>1
  <1> QED
    BY <1>5, <1>6

\* The worker's steps but for copies leave nothing more due at its entry.
LEMMA WorkerFalls ==
  ASSUME NInv, Travel, NetNext, NEW b \in Boxes, NEW s \in Servers, Worker(s), ~ Store(s),
         NEW m \in Ids, status[m] = "queued", HomeOf(m) = s, NEW i \in Nat, NEW k \in Nat,
         EntryDue(m, i, k, b)', Pending(m, Way(k), i)',
         \/ work[s] # Nil /\ Entry(s) = m
         \/ \E n \in Ids : BeginPass(s, n) /\ n = m
  PROVE  Pending(m, Way(k), i)
  <1>1. NetTypeOK
    BY DEF NInv
  <1>2. PICK t \in {"mailbox", "forward"} : t = Way(k)
    BY DEF Way
  <1>3. HomeOf(m)' = s /\ envelope'[m] = envelope[m] /\ Aliases(m)' = Aliases(m)
    BY PlacesStay, TakenStays
  <1>4. CASE BeginPass(s, m)
    <2>1. work'[s] = [of |-> m, at |-> 1, failed |-> {}, rewrites |-> FALSE,
                      left |-> TargetsOf(s) \cap owed[m]]
      BY <1>1, <1>4 DEF BeginPass, NetTypeOK
    <2>2. work'[s] # Nil /\ Entry(s)' = m
      <3>1. work'[s] \in Pass /\ work'[s].of = m
        BY <1>1, <2>1 DEF NetTypeOK, Pass, TargetsOf
      <3> QED
        BY <3>1, NetworkAssumption DEF Entry
    <2>3. t \in owed[m]
      BY <1>2, <1>3, <2>1, <2>2 DEF Pending
    <2> QED
      BY <1>2, <1>4, <2>3 DEF BeginPass, Pending
  <1>5. ASSUME work[s] # Nil, Entry(s) = m, NEW u \in Target, AtTarget(s, u), Done(s, u)
        PROVE  Pending(m, t, i)
    <2>1. work' = [work EXCEPT ![s] = Without(s, u, work[s].failed)] /\ work[s].failed \in SUBSET Target
      BY <1>1, <1>5, PassAtHand DEF Done, Pass
    <2> QED
      BY <1>2, <1>5, <2>1, LeavesTarget
  <1>6. ASSUME work[s] # Nil, Entry(s) = m, NEW u \in Target, AtTarget(s, u), TargetFails(s, u), t # u
        PROVE  Pending(m, t, i)
    <2>1. /\ work' = [work EXCEPT ![s] = Without(s, u, work[s].failed \cup {u})]
          /\ work[s].failed \cup {u} \in SUBSET Target
      BY <1>1, <1>6, PassAtHand DEF TargetFails, Pass
    <2> QED
      BY <1>2, <1>6, <2>1, LeavesTarget
  <1>7. ASSUME work[s] # Nil, Entry(s) = m, Post(s) \/ Hand(s) \/ HandFails(s) \/ NothingToForward(s)
        PROVE  Pending(m, t, i)
    BY <1>5, <1>6, <1>7 DEF Post, Hand, HandFails, NothingToForward, Target
  <1>8. ASSUME work[s] # Nil, Entry(s) = m, RefuseToForward(s) PROVE Pending(m, t, i)
    <2>1. t # "forward"
      <3>1. envelope[m].received >= MaxReceived \/ envelope[m].null
        BY <1>8 DEF RefuseToForward
      <3>2. k > 0 => ~ envelope[m].null /\ k \in 0 .. (MaxReceived - envelope[m].received)
        BY <1>3 DEF EntryDue, Comes
      <3>3. envelope[m].received \in Nat /\ MaxReceived \in Nat
        BY NetworkAssumption DEF NInv, Entries, Envelope
      <3>4. k = 0
        BY <3>1, <3>2, <3>3
      <3> QED
        BY <1>2, <3>4 DEF Way
    <2> QED
      BY <1>6, <1>8, <2>1 DEF RefuseToForward, Target
  <1>9. ASSUME UNCHANGED <<work, owed>>, \A f \in flight : f \in flight' PROVE Pending(m, t, i)
    <2>1. Replied(HomeOf(m)) => Replied(HomeOf(m))'
      BY <1>3, <1>9 DEF Replied
    <2> QED
      BY <1>2, <1>9, <2>1, FarFalls
  <1>10. ASSUME Dial(s) \/ WaiveFailed(s) PROVE Pending(m, t, i)
    <2>1. \A f \in flight : f \in flight'
      BY <1>10, WorkerLeaves DEF Works
    <2> QED
      BY <1>9, <1>10, <2>1 DEF Dial, WaiveFailed, Q!Waive, queue
  <1>11. ASSUME Finish(s), work[s] # Nil, Entry(s) = m PROVE FALSE
    BY <1>1, <1>11 DEF Finish, Q!Leave, NetTypeOK, Pending
  <1>12. ASSUME Reschedule(s), work[s] # Nil, Entry(s) = m PROVE Pending(m, t, i)
    <2>1. work'[s] = Nil /\ owed'[m] = work[s].failed
      BY <1>1, <1>12 DEF Reschedule, Q!Record, NetTypeOK
    <2>2. t \in work[s].failed
      BY <1>2, <1>3, <2>1 DEF Pending
    <2> QED
      BY <1>12, <2>2 DEF Pending
  <1>13. CASE work[s] # Nil /\ Entry(s) = m
    <2>1. ~ ListDue(s) /\ \A n \in Ids : ~ BeginPass(s, n)
      BY <1>13 DEF ListDue, BeginPass
    <2>2. ASSUME StartRewrite(s) PROVE Pending(m, t, i)
      <3>1. /\ work' = [work EXCEPT ![s].rewrites = TRUE] /\ work[s] \in Pass /\ work[s].left = {}
            /\ work \in [Servers -> Pass \cup {Nil}]
        BY <1>1, <1>13, <2>2, PassAtHand DEF StartRewrite, Over, NetTypeOK
      <3>2. /\ work'[s].failed = work[s].failed /\ work'[s].left = {} /\ work'[s].of = work[s].of
            /\ work'[s] \in Pass
        BY <3>1 DEF Pass
      <3>3. work'[s] # Nil /\ Entry(s)' = m
        BY <1>13, <3>2, NetworkAssumption DEF Entry
      <3>4. t \in work[s].failed
        BY <1>2, <1>3, <3>2, <3>3 DEF Pending
      <3> QED
        BY <1>13, <3>4 DEF Pending
    <2> QED
      BY <1>2, <1>7, <1>8, <1>10, <1>11, <1>12, <1>13, <2>1, <2>2 DEF Worker
  <1> QED
    BY <1>4, <1>13

LEMMA WorkerBalanced ==
  ASSUME NInv, Travel, Accounted, NetNext, NEW b \in Boxes, NEW s \in Servers, Worker(s), ~ Store(s)
  PROVE  Balanced(b)
  <1>1. DueAtEntries(b)' \subseteq DueAtEntries(b)
    <2>1. \A r \in Servers : Replied(r) => Replied(r)'
      BY WorkerLeaves DEF Works, Replied
    <2>2. ASSUME NEW m \in Ids, status[m] = "queued", HomeOf(m) = s, NEW i \in Nat, NEW k \in Nat,
                 EntryDue(m, i, k, b)', Pending(m, Way(k), i)',
                 \/ work[s] # Nil /\ Entry(s) = m
                 \/ \E n \in Ids : BeginPass(s, n) /\ n = m
          PROVE  Pending(m, Way(k), i)
      BY <2>2, WorkerFalls
    <2> QED
      BY <2>1, <2>2, EntriesFall, WorkerLeaves DEF Works
  <1>2. DueLate(b)' \subseteq DueLate(b)
    BY WorkerLeaves, LateFalls DEF Works
  <1>3. DueAtSender(b)' \subseteq DueAtSender(b)
    <2>1. Replied(Sender) => Replied(Sender)'
      BY WorkerLeaves DEF Works, Replied
    <2> QED
      BY <2>1, WorkerLeaves, OfferStands, SenderFalls DEF Works
  <1>4. UNCHANGED <<filed, mishaps>>
    BY DEF Worker, ListDue, BeginPass, Post, Hand, HandFails, NothingToForward, RefuseToForward, Dial,
       Finish, StartRewrite, Reschedule, WaiveFailed, mail
  <1> QED
    BY <1>1, <1>2, <1>3, <1>4, QuietIsBalanced DEF Due

\* A copy that is stored was due.
LEMMA StoreBalanced ==
  ASSUME NInv, Travel, Accounted, NetNext, NEW b \in Boxes, NEW s \in Servers, Store(s)
  PROVE  Balanced(b)
  <1>1. NetTypeOK
    BY DEF NInv
  <1>2. PICK m \in Ids : m = Entry(s) /\ status[m] = "queued" /\ HomeOf(m) = s
    BY <1>1, PassAtHand DEF Store, AtTarget, NInv, Passes
  <1>3. PICK e : e = envelope[m].rcpts
    OBVIOUS
  <1>4. /\ e \in Seq(Boxes) /\ envelope[m].received \in Nat /\ envelope[m].received <= MaxReceived
        /\ DOMAIN e \in SUBSET Nat
    BY <1>2, <1>3 DEF NInv, Entries, OneHome, Envelope
  <1>5. PICK j \in DOMAIN e :
          /\ Turn(s, DOMAIN e, j)
          /\ filed' = [filed EXCEPT ![e[j]] = @ + 1]
          /\ Advance(s, "mailbox", DOMAIN e, j)
    BY <1>2, <1>3 DEF Store
  <1>6. AtTarget(s, "mailbox") /\ work[s] # Nil
    BY DEF Store, AtTarget
  <1>7. ASSUME NEW k \in Nat, NEW i \in Nat, Pending(m, Way(k), i)'
        PROVE  Pending(m, Way(k), i) /\ ~ (k = 0 /\ i = j)
    <2>1. PICK t \in {"mailbox", "forward"} : t = Way(k)
      BY DEF Way
    <2>2. k = 0 => t = "mailbox"
      BY <2>1 DEF Way
    <2>3. Pending(m, t, i)'
      BY <1>7, <2>1
    <2>4. Pending(m, t, i) /\ ~ (t = "mailbox" /\ i = j)
      BY <1>2, <1>4, <1>5, <1>6, <2>3, AdvanceFalls
    <2> QED
      BY <2>1, <2>2, <2>4
  <1>8. DueAtEntries(b)' \subseteq DueAtEntries(b)
    <2>1. \A r \in Servers : Replied(r) => Replied(r)'
      BY WorkerLeaves DEF Replied, Works, Worker
    <2>2. ASSUME NEW n \in Ids, status[n] = "queued", HomeOf(n) = s, NEW i \in Nat, NEW k \in Nat,
                 EntryDue(n, i, k, b)', Pending(n, Way(k), i)',
                 \/ work[s] # Nil /\ Entry(s) = n
                 \/ \E l \in Ids : BeginPass(s, l) /\ l = n
          PROVE  Pending(n, Way(k), i)
      <3>1. n = m
        BY <1>2, <1>6, <2>2 DEF BeginPass
      <3> QED
        BY <1>7, <2>2, <3>1
    <2> QED
      BY <2>1, <2>2, EntriesFall, WorkerLeaves DEF Works, Worker
  <1>9. DueLate(b)' \subseteq DueLate(b) /\ DueAtSender(b)' \subseteq DueAtSender(b)
    <2>1. Replied(Sender) => Replied(Sender)'
      BY WorkerLeaves DEF Replied, Works, Worker
    <2>2. UNCHANGED sender /\ \A f \in flight' : f \in flight \/ Waiting(f)
      BY WorkerLeaves DEF Works, Worker
    <2> QED
      BY <2>1, <2>2, OfferStands, LateFalls, SenderFalls
  <1>10. Due(b)' \subseteq Due(b) /\ UNCHANGED mishaps
    BY <1>8, <1>9 DEF Due, Store
  <1>11. CASE b # e[j]
    <2>1. filed'[b] = filed[b]
      BY <1>1, <1>5, <1>11 DEF NetTypeOK
    <2> QED
      BY <1>10, <2>1, QuietIsBalanced
  <1>12. CASE b = e[j]
    <2> DEFINE d == <<"entry", m, j, 0>>
    <2>1. filed'[b] = filed[b] + 1
      BY <1>1, <1>5, <1>12 DEF NetTypeOK
    <2>2. d \in DueAtEntries(b)
      <3>1. Pending(m, "mailbox", j)
        BY <1>2, <1>5, <1>6 DEF Pending, AtTarget, Turn
      <3>2. Comes(envelope[m].rcpts, envelope[m].received, j, 0, b)
        <4>1. 0 \in 0 .. (MaxReceived - envelope[m].received) /\ 0 \in 0 .. MaxReceived
          BY <1>4, NetworkAssumption
        <4> QED
          BY <1>3, <1>12, <4>1, OnwardSteps DEF Comes
      <3>3. EntryDue(m, j, 0, b)
        BY <3>1, <3>2 DEF EntryDue, Way
      <3> QED
        BY <1>4, <3>3 DEF DueAtEntries
    <2>3. d \notin Due(b)'
      <3>1. d \notin DueLate(b)' /\ d \notin DueAtSender(b)'
        BY DEF DueLate, DueAtSender
      <3>2. d \notin DueAtEntries(b)'
        BY <1>4, <1>7 DEF DueAtEntries, EntryDue
      <3> QED
        BY <3>1, <3>2 DEF Due
    <2>4. IsFiniteSet(Due(b)) /\ d \in Due(b)
      BY <2>2 DEF Accounted, Due
    <2>5. Due(b)' \in SUBSET (Due(b) \ {d})
      BY <1>10, <2>3
    <2>6. IsFiniteSet(Due(b) \ {d}) /\ Cardinality(Due(b) \ {d}) = Cardinality(Due(b)) - 1
          /\ Cardinality(Due(b)) \in Nat
      BY <2>4, FS_RemoveElement, FS_CardinalityType
    <2>7. IsFiniteSet(Due(b)') /\ Cardinality(Due(b)') <= Cardinality(Due(b) \ {d})
      BY <2>5, <2>6, FS_Subset
    <2>8. Cardinality(Due(b)') \in Nat
      BY <2>7, FS_CardinalityType
    <2>9. Cardinality(Due(b)') < Cardinality(Due(b))
      BY <2>6, <2>7, <2>8
    <2> QED
      BY <1>10, <2>1, <2>7, <2>9 DEF Balanced
  <1> QED
    BY <1>11, <1>12

\* Entries of workers that do nothing.
LEMMA AllFall ==
  ASSUME NInv, NetNext, NEW b \in Boxes, \A f \in flight : ~ Take(f), UNCHANGED <<work, owed>>,
         \A r \in Servers : Replied(r) => Replied(r)'
  PROVE  DueAtEntries(b)' \subseteq DueAtEntries(b)
  <1>1. SUFFICES ASSUME NEW m \in Ids, NEW i \in Nat, NEW k \in Nat, EntryDue(m, i, k, b)'
                 PROVE  EntryDue(m, i, k, b)
    BY DEF DueAtEntries
  <1>2. Pending(m, Way(k), i)' /\ status'[m] = "queued"
    BY <1>1 DEF EntryDue, Pending
  <1>3. status[m] = "queued"
    BY <1>2, QueuedBefore, NewlyTaken
  <1>4. HomeOf(m) \in Servers /\ HomeOf(m)' = HomeOf(m)
    <2>1. envelope[m] \in Envelope /\ OneHome(envelope[m].rcpts)
      BY <1>3 DEF NInv, Entries
    <2> QED
      BY <1>3, <2>1, PlacesStay, NetworkAssumption DEF Envelope, OneHome, HomeOf
  <1>5. Pending(m, Way(k), i)
    <2>1. Replied(HomeOf(m)) => Replied(HomeOf(m))'
      BY <1>4 DEF Replied
    <2> QED
      BY <1>2, <1>3, <1>4, <2>1, FarFalls
  <1> QED
    BY <1>1, <1>3, <1>5, EntryFalls

LEMMA HearBalanced ==
  ASSUME NInv, Travel, Accounted, NetNext, NEW b \in Boxes, NEW f \in flight, Hear(f)
  PROVE  Balanced(b)
  <1>1. NetTypeOK /\ flight' = flight \ {f} /\ f.taken /\ UNCHANGED <<filed, mishaps>>
    BY DEF NInv, Hear, mail
  <1>2. \A g \in flight : g \in flight' \/ g.by = f.by
    BY <1>1
  <1>3. \A r : r # f.by => (Replied(r) => Replied(r)')
    BY <1>2 DEF Replied
  <1>4. \A g \in flight : ~ Take(g)
    <2>1. QueueMoves
      BY <1>1, DialogueTypes DEF Closes
    <2> QED
      BY <1>1, <2>1, NoTake
  <1>5. DueLate(b)' \subseteq DueLate(b)
    <2>1. \A g \in flight' : g \in flight \/ Waiting(g)
      BY <1>1
    <2> QED
      BY <2>1, LateFalls
  <1>6. CASE f.by = Sender
    <2>1. UNCHANGED <<work, owed>> /\ sender' = "done"
      BY <1>6 DEF Hear, queue
    <2>2. \A r \in Servers : Replied(r) => Replied(r)'
      BY <1>3, <1>6, NetworkAssumption
    <2>3. DueAtEntries(b)' \subseteq DueAtEntries(b)
      BY <1>4, <2>1, <2>2, AllFall
    <2>4. DueAtSender(b)' \subseteq DueAtSender(b)
      BY <2>1, OfferStands, SenderFalls
    <2> QED
      BY <1>1, <1>5, <2>3, <2>4, QuietIsBalanced DEF Due
  <1>7. CASE f.by # Sender
    <2>1. PICK s \in Servers : s = f.by /\ AtTarget(s, "forward") /\ Forwarded(s) /\ sender' = sender
      BY <1>7 DEF Hear, Waiting, NInv, Dialogues, Belongs
    <2>2. PICK m \in Ids : m = Entry(s) /\ status[m] = "queued" /\ HomeOf(m) = s /\ work[s] # Nil
      BY <1>1, <2>1, PassAtHand DEF AtTarget, NInv, Passes
    <2>3. PICK j \in Aliases(m) : Turn(s, Aliases(m), j) /\ Advance(s, "forward", Aliases(m), j)
      BY <2>1, <2>2 DEF Forwarded
    <2>4. Aliases(m) \in SUBSET Nat
      BY <2>2 DEF Aliases, NInv, Entries, Envelope
    <2>5. UNCHANGED owed /\ \A r \in Servers : r # s => work'[r] = work[r]
      BY <1>1, <2>3 DEF Advance, Done, Q!Hand, queue, NetTypeOK
    <2>6. ASSUME NEW n \in Ids, status[n] = "queued", HomeOf(n) = s, NEW i \in Nat, NEW k \in Nat,
                 EntryDue(n, i, k, b)', Pending(n, Way(k), i)',
                 \/ work[s] # Nil /\ Entry(s) = n
                 \/ \E l \in Ids : BeginPass(s, l) /\ l = n
          PROVE  Pending(n, Way(k), i)
      <3>1. n = m
        BY <2>2, <2>6 DEF BeginPass
      <3>2. PICK t \in {"mailbox", "forward"} : t = Way(k)
        BY DEF Way
      <3>3. Pending(m, t, i)'
        BY <2>6, <3>1, <3>2
      <3>4. Pending(m, t, i)
        BY <2>1, <2>2, <2>3, <2>4, <3>3, AdvanceFalls
      <3> QED
        BY <3>1, <3>2, <3>4
    <2>7. DueAtEntries(b)' \subseteq DueAtEntries(b)
      <3>1. \A r \in Servers : r # s => (Replied(r) => Replied(r)')
        BY <1>3, <2>1
      <3> QED
        BY <1>4, <2>5, <2>6, <3>1, EntriesFall
    <2>8. DueAtSender(b)' \subseteq DueAtSender(b)
      <3>1. Replied(Sender) => Replied(Sender)'
        BY <1>3, <1>7
      <3> QED
        BY <2>1, <3>1, OfferStands, SenderFalls
    <2> QED
      BY <1>1, <1>5, <2>7, <2>8, QuietIsBalanced DEF Due
  <1> QED
    BY <1>6, <1>7

\* The sender's dialling, and what goes on behind the channels.
LEMMA OtherBalanced ==
  ASSUME NInv, Accounted, NetNext, NEW b \in Boxes,
         SenderDials \/ \E s \in Servers : Receive(s) \/ DropReceiver(s)
  PROVE  Balanced(b)
  <1>1. NetTypeOK
    BY DEF NInv
  <1>2. UNCHANGED <<work, owed, status, sender, filed>>
    BY DEF SenderDials, Receive, DropReceiver, queue, mail
  <1>3. (\A f \in flight : f \in flight') /\ \A f \in flight' : f \in flight \/ Waiting(f)
    BY DEF SenderDials, Receive, DropReceiver, Waiting
  <1>4. mishaps' \in {mishaps, mishaps + 1}
    BY DEF SenderDials, Receive, DropReceiver, Mishap
  <1>5. \A f \in flight : ~ Take(f)
    BY <1>1, <1>2 DEF Take, Q!Accept, NetTypeOK
  <1>6. \A r : Replied(r) => Replied(r)'
    BY <1>3 DEF Replied
  <1>7. DueAtEntries(b)' \subseteq DueAtEntries(b)
    BY <1>2, <1>5, <1>6, AllFall
  <1>8. DueLate(b)' \subseteq DueLate(b)
    BY <1>3, LateFalls
  <1>9. DueAtSender(b)' \subseteq DueAtSender(b)
    BY <1>2, <1>6, OfferStands, SenderFalls
  <1> QED
    BY <1>2, <1>4, <1>7, <1>8, <1>9, QuietIsBalanced DEF Due

LEMMA ExchangeIsBalanced ==
  ASSUME Accounted, NEW b \in Boxes, filed'[b] = filed[b], mishaps' = mishaps,
         NEW A \in SUBSET Due(b), NEW B, NEW h \in Injection(B, A),
         Due(b)' \subseteq (Due(b) \ A) \cup B
  PROVE  Balanced(b)
  <1>1. IsFiniteSet(Due(b))
    BY DEF Accounted
  <1>2. IsFiniteSet(Due(b)') /\ Cardinality(Due(b)') <= Cardinality(Due(b))
    BY <1>1, Exchanged
  <1> QED
    BY <1>2 DEF Balanced

\* What is taken from a dialogue is due at the new entry instead.
LEMMA TakeBalanced ==
  ASSUME NInv, Travel, Accounted, NetNext, NEW b \in Boxes, NEW f \in flight, Take(f)
  PROVE  Balanced(b)
  <1>1. NetTypeOK /\ NetTypeOK'
    BY Moves DEF NInv
  <1>2. PICK n \in Ids :
          /\ status[n] = "new" /\ Q!Accept(n)
          /\ envelope' = [envelope EXCEPT ![n] = [rcpts |-> f.rcpts, received |-> f.received,
                                                  null |-> f.null]]
    BY DEF Take
  <1>3. /\ ~ f.taken /\ UNCHANGED <<work, sender, filed, mishaps, offered>>
        /\ flight' = (flight \ {f}) \cup IF Waiting(f) THEN {[f EXCEPT !.taken = TRUE]} ELSE {}
    BY DEF Take
  <1>4. /\ f.rcpts \in Seq(Boxes) /\ f.received \in Nat
        /\ [f EXCEPT !.taken = TRUE].by = f.by /\ [f EXCEPT !.taken = TRUE].taken
    <2>1. f \in [by : Servers \cup {Sender} \cup Nat, rcpts : Seq(Boxes), received : Nat,
                 null : BOOLEAN, taken : BOOLEAN]
      BY <1>1 DEF NetTypeOK
    <2> QED
      BY <2>1
  <1>5. \A r : Replied(r) => Replied(r)'
    BY <1>3 DEF Replied
  <1>6. Waiting(f) => Replied(f.by)' /\ ~ Replied(f.by)
    BY <1>3, <1>4 DEF Replied, NInv, Dialogues
  <1> DEFINE B == Worth("entry", n, f.rcpts, f.received, b)
  <1>7. ASSUME NEW m \in Ids, NEW i \in Nat, NEW k \in Nat, EntryDue(m, i, k, b)'
        PROVE  (m # n /\ EntryDue(m, i, k, b)) \/ <<"entry", m, i, k>> \in B
    <2>1. CASE m = n
      <3>1. envelope'[n] = [rcpts |-> f.rcpts, received |-> f.received, null |-> f.null]
        BY <1>1, <1>2 DEF NetTypeOK
      <3>2. Comes(f.rcpts, f.received, i, k, b)
        BY <1>7, <2>1, <3>1 DEF EntryDue, Comes
      <3> QED
        BY <1>7, <2>1, <3>2 DEF Worth
    <2>2. CASE m # n
      <3>1. Pending(m, Way(k), i)' /\ status'[m] = "queued"
        BY <1>7 DEF EntryDue, Pending
      <3>2. status[m] = "queued" /\ owed'[m] = owed[m]
        BY <1>1, <1>2, <2>2, <3>1 DEF Q!Accept, NetTypeOK
      <3>3. HomeOf(m)' = HomeOf(m)
        BY <3>2, PlacesStay
      <3>4. Pending(m, Way(k), i)
        <4>1. Replied(HomeOf(m)) => Replied(HomeOf(m))'
          BY <1>3, <3>3 DEF Replied
        <4> QED
          BY <1>3, <3>1, <3>2, <4>1, FarFalls
      <3> QED
        BY <1>7, <2>2, <3>2, <3>4, EntryFalls
    <2> QED
      BY <2>1, <2>2
  <1>8. DueAtEntries(b)' \subseteq DueAtEntries(b) \cup B
    <2>1. SUFFICES ASSUME NEW m \in Ids, NEW i \in Nat, NEW k \in Nat, EntryDue(m, i, k, b)'
                   PROVE  <<"entry", m, i, k>> \in DueAtEntries(b) \cup B
      BY DEF DueAtEntries
    <2> HIDE DEF B
    <2> QED
      BY <1>7, <2>1 DEF DueAtEntries
  <1>9. DueLate(b)' \subseteq DueLate(b)
    <2>1. \A g \in flight' : g \in flight \/ Waiting(g)
      BY <1>3, <1>4 DEF Waiting
    <2> QED
      BY <2>1, LateFalls
  <1>10. DueAtSender(b)' \subseteq DueAtSender(b)
    BY <1>3, <1>5, SenderFalls
  <1>11. ASSUME NEW A \in SUBSET Due(b), NEW h \in Injection(B, A),
                \A d \in A : d \notin DueAtEntries(b)' /\ d \notin DueLate(b)' /\ d \notin DueAtSender(b)'
         PROVE  Balanced(b)
    <2>1. Due(b)' \subseteq (Due(b) \ A) \cup B
      <3> HIDE DEF B
      <3> QED
        BY <1>8, <1>9, <1>10, <1>11 DEF Due
    <2> HIDE DEF B
    <2> QED
      BY <1>3, <1>11, <2>1, ExchangeIsBalanced
  <1>12. \A d \in B : d = <<"entry", n, d[3], d[4]>> /\ d[3] \in Nat /\ d[4] \in Nat
                      /\ Comes(f.rcpts, f.received, d[3], d[4], b)
    BY DEF Worth
  <1>13. CASE f.by = Sender
    <2>1. f.rcpts = offered.rcpts /\ f.received = 0 /\ sender = "holding"
      BY <1>13 DEF NInv, Dialogues, Belongs, Travel
    <2>2. ~ Replied(Sender) /\ Replied(Sender)'
      BY <1>6, <1>13 DEF Waiting
    <2>3. PICK h : h = [d \in B |-> <<"sender", Sender, d[3], d[4]>>]
      OBVIOUS
    <2> DEFINE A == DueAtSender(b)
    <2>4. \A d \in B : h[d] \in A
      <3> HIDE DEF B
      <3> QED
        BY <1>12, <2>1, <2>2, <2>3 DEF DueAtSender
    <2>5. h \in Injection(B, A)
      <3> HIDE DEF A, B
      <3> QED
        BY <1>12, <2>3, <2>4 DEF Injection, IsInjective
    <2>6. A \in SUBSET Due(b)
      BY DEF Due
    <2>7. DueAtSender(b)' = {}
      BY <2>2 DEF DueAtSender
    <2>8. \A d \in A : d \notin DueAtEntries(b)' /\ d \notin DueLate(b)'
      BY DEF DueAtSender, DueAtEntries, DueLate
    <2> HIDE DEF A, B
    <2> QED
      BY <1>11, <2>5, <2>6, <2>7, <2>8
  <1>14. CASE f.by \notin Servers \cup {Sender}
    <2>1. ~ Waiting(f) /\ f \notin flight'
      BY <1>3, <1>14 DEF Waiting
    <2>2. PICK h : h = [d \in B |-> <<"late", f, d[3], d[4]>>]
      OBVIOUS
    <2> DEFINE A == {d \in DueLate(b) : d[2] = f}
    <2>3. \A d \in B : h[d] \in A
      <3> HIDE DEF B
      <3> QED
        BY <1>12, <2>1, <2>2 DEF DueLate
    <2>4. h \in Injection(B, A)
      <3> HIDE DEF A, B
      <3> QED
        BY <1>12, <2>2, <2>3 DEF Injection, IsInjective
    <2>5. A \in SUBSET Due(b)
      BY DEF Due
    <2>6. \A d \in A : d \notin DueAtEntries(b)' /\ d \notin DueAtSender(b)'
      BY DEF DueAtSender, DueAtEntries, DueLate
    <2>7. \A d \in A : d \notin DueLate(b)'
      BY <2>1 DEF DueLate
    <2> HIDE DEF A, B
    <2> QED
      BY <1>11, <2>4, <2>5, <2>6, <2>7
  <1>15. CASE f.by \in Servers
    <2>1. PICK s \in Servers : s = f.by /\ AtTarget(s, "forward") /\ ~ envelope[Entry(s)].null
      BY <1>15 DEF NInv, Dialogues, Belongs
    <2>2. PICK m \in Ids : m = Entry(s) /\ status[m] = "queued" /\ HomeOf(m) = s /\ work[s] # Nil
      BY <1>1, <2>1, PassAtHand DEF AtTarget, NInv, Passes
    <2>3. PICK j \in Aliases(m) :
            /\ Turn(s, Aliases(m), j)
            /\ f.rcpts = <<Destination(m, j)>> /\ f.received = envelope[m].received + 1
      BY <1>15, <2>1, <2>2 DEF NInv, Dialogues, Belongs
    <2>4. PICK e : e = envelope[m]
      OBVIOUS
    <2>5. /\ e.rcpts \in Seq(Boxes) /\ e.received \in Nat /\ j \in DOMAIN e.rcpts /\ j \in Nat
          /\ e.rcpts[j] \in Boxes /\ Rule[e.rcpts[j]] # Nil /\ f.rcpts = <<Rule[e.rcpts[j]]>>
          /\ f.received = e.received + 1 /\ f.received <= MaxReceived /\ ~ e.null
      BY <2>1, <2>2, <2>3, <2>4 DEF Aliases, Destination, NInv, Entries, Envelope, Dialogues
    <2>6. ~ Replied(s) /\ Replied(s)'
      BY <1>6, <2>1 DEF Waiting
    <2>7. PICK h : h = [d \in B |-> <<"entry", m, j, d[4] + 1>>]
      OBVIOUS
    <2> DEFINE A == {d \in DueAtEntries(b) : d[2] = m /\ d[3] = j /\ d[4] > 0}
    <2>8. ASSUME NEW d \in B PROVE d[3] = 1 /\ EntryDue(m, j, d[4] + 1, b)
      <3>1. d[3] = 1 /\ d[4] \in 0 .. (MaxReceived - f.received) /\ Onward[d[4]][Rule[e.rcpts[j]]] = b
        BY <1>12, <2>5, <2>8 DEF Comes
      <3>2. PICK k, a : k = d[4] + 1 /\ a = e.rcpts[j]
        OBVIOUS
      <3>3. /\ k \in 0 .. MaxReceived /\ k # 0 /\ k - 1 = d[4] /\ a \in Boxes /\ Rule[a] # Nil
            /\ k \in 0 .. (MaxReceived - e.received)
        <4>1. MaxReceived \in Nat /\ d[4] \in 0 .. (MaxReceived - (e.received + 1)) /\ e.received \in Nat
          BY <2>5, <3>1, NetworkAssumption
        <4> QED
          BY <2>5, <3>2, <4>1, SMTT(30)
      <3>4. Onward[k][a] = Onward[k - 1][Rule[a]]
        BY <3>3, OnwardSteps
      <3>5. Comes(e.rcpts, e.received, j, k, b)
        BY <2>5, <3>1, <3>2, <3>3, <3>4 DEF Comes
      <3>6. Pending(m, "forward", j)
        BY <2>1, <2>2, <2>3, <2>6 DEF Pending, AtTarget, Turn
      <3> QED
        BY <2>4, <2>5, <3>1, <3>2, <3>3, <3>5, <3>6 DEF EntryDue, Way
    <2>9. \A d \in B : h[d] \in A
      <3> HIDE DEF B
      <3> QED
        BY <1>12, <2>5, <2>7, <2>8 DEF DueAtEntries
    <2>10. h \in Injection(B, A)
      <3> HIDE DEF A, B
      <3>1. ASSUME NEW d \in B, NEW c \in B, h[d] = h[c] PROVE d = c
        <4>1. d[4] + 1 = c[4] + 1 /\ d[4] \in Nat /\ c[4] \in Nat
          BY <1>12, <2>7, <3>1
        <4>2. d[4] = c[4] /\ d[3] = 1 /\ c[3] = 1
          BY <2>8, <3>1, <4>1
        <4> QED
          BY <1>12, <3>1, <4>2
      <3> QED
        BY <2>7, <2>9, <3>1 DEF Injection, IsInjective
    <2>11. A \in SUBSET Due(b)
      BY DEF Due
    <2>12. ~ Pending(m, "forward", j)'
      <3>1. HomeOf(m)' = s /\ Aliases(m)' = Aliases(m) /\ work'[s] = work[s]
        BY <1>3, <2>2, PlacesStay
      <3>2. Entry(s)' = m /\ AtTarget(s, "forward")' /\ Turn(s, Aliases(m), j)' /\ work'[s] # Nil
        BY <2>1, <2>2, <2>3, <3>1 DEF Entry, AtTarget, Turn
      <3>3. "forward" \notin work'[s].failed
        BY <2>1, <2>2, <3>1 DEF AtTarget, Travel
      <3> QED
        BY <2>6, <3>1, <3>2, <3>3 DEF Pending
    <2>13. ASSUME NEW d \in A PROVE d \notin DueAtEntries(b)'
      <3>1. d[2] = m /\ d[3] = j /\ d[4] > 0 /\ d[4] \in Nat
        BY <2>13 DEF DueAtEntries
      <3>2. Way(d[4]) = "forward"
        BY <3>1 DEF Way
      <3> QED
        BY <2>12, <3>1, <3>2 DEF DueAtEntries, EntryDue
    <2>14. \A d \in A : d \notin DueLate(b)' /\ d \notin DueAtSender(b)'
      BY DEF DueAtSender, DueAtEntries, DueLate
    <2> HIDE DEF A, B
    <2> QED
      BY <1>11, <2>10, <2>11, <2>13, <2>14
  <1> QED
    BY <1>13, <1>14, <1>15

\* A setback at server s: what else changes then.
SetBack(s) ==
  /\ Entry(s) \in Ids /\ status[Entry(s)] = "queued" /\ HomeOf(Entry(s)) = s /\ work[s] # Nil
  /\ mishaps' = mishaps + 1 /\ UNCHANGED <<filed, sender, offered>>
  /\ \A m \in Ids : m # Entry(s) => owed'[m] = owed[m]
  /\ \A r \in Servers : r # s => work'[r] = work[r]
  /\ \A f \in flight : f \in flight' \/ f.by = s
  /\ \A f \in flight : ~ Take(f)

\* Only the entry at hand is due again.
LEMMA SetBackElsewhere ==
  ASSUME NInv, NetNext, NEW b \in Boxes, NEW s \in Servers, SetBack(s),
         NEW n \in Ids, n # Entry(s), NEW i \in Nat, NEW k \in Nat, EntryDue(n, i, k, b)'
  PROVE  EntryDue(n, i, k, b)
  <1>1. Pending(n, Way(k), i)' /\ status'[n] = "queued"
    BY DEF EntryDue, Pending
  <1>2. status[n] = "queued"
    BY <1>1, QueuedBefore, NewlyTaken DEF SetBack
  <1>3. HomeOf(n) \in Servers /\ HomeOf(n)' = HomeOf(n)
    <2>1. envelope[n] \in Envelope /\ OneHome(envelope[n].rcpts)
      BY <1>2 DEF NInv, Entries
    <2> QED
      BY <1>2, <2>1, PlacesStay, NetworkAssumption DEF Envelope, OneHome, HomeOf
  <1>4. CASE HomeOf(n) # s
    <2>1. Replied(HomeOf(n)) => Replied(HomeOf(n))'
      BY <1>3, <1>4 DEF SetBack, Replied
    <2>2. Pending(n, Way(k), i)
      BY <1>1, <1>2, <1>3, <1>4, <2>1, FarFalls DEF SetBack
    <2> QED
      BY <1>2, <2>2, EntryFalls
  <1>5. CASE HomeOf(n) = s
    <2>1. ~ (work[s] # Nil /\ Entry(s) = n)'
      BY SameEntry DEF SetBack, Entry, BeginPass
    <2>2. ~ (work[HomeOf(n)] # Nil /\ Entry(HomeOf(n)) = n)'
      BY <1>3, <1>5, <2>1
    <2>3. Pending(n, Way(k), i)
      BY <1>1, <1>2, <1>5, <2>2, IdleFalls DEF SetBack
    <2> QED
      BY <1>2, <2>3, EntryFalls
  <1> QED
    BY <1>4, <1>5

LEMMA EntrySetBack ==
  ASSUME NInv, Travel, Accounted, NetNext, NEW b \in Boxes, NEW s \in Servers, SetBack(s)
  PROVE  /\ DueAtEntries(b)' \subseteq DueAtEntries(b) \cup
              Worth("entry", Entry(s), envelope[Entry(s)].rcpts, envelope[Entry(s)].received, b)
         /\ DueAtSender(b)' \subseteq DueAtSender(b)
         /\ envelope[Entry(s)].rcpts \in Seq(Boxes) /\ envelope[Entry(s)].received \in Nat
         /\ OnTheWay(envelope[Entry(s)].rcpts, envelope[Entry(s)].received)
  <1>1. PICK m \in Ids : m = Entry(s) /\ status[m] = "queued"
    BY DEF SetBack
  <1>2. envelope'[m] = envelope[m] /\ envelope[m] \in Envelope
    BY <1>1, TakenStays DEF NInv, Entries
  <1>3. DueAtEntries(b)' \subseteq DueAtEntries(b) \cup
          Worth("entry", m, envelope[m].rcpts, envelope[m].received, b)
    <2>1. SUFFICES ASSUME NEW n \in Ids, NEW i \in Nat, NEW k \in Nat, EntryDue(n, i, k, b)'
                   PROVE  \/ EntryDue(n, i, k, b)
                          \/ n = m /\ Comes(envelope[m].rcpts, envelope[m].received, i, k, b)
      BY DEF DueAtEntries, Worth
    <2>2. CASE n = m
      BY <1>2, <2>1, <2>2 DEF EntryDue, Comes
    <2>3. CASE n # m
      BY <1>1, <2>1, <2>3, SetBackElsewhere
    <2> QED
      BY <2>2, <2>3
  <1>4. DueAtSender(b)' \subseteq DueAtSender(b)
    <2>1. Replied(Sender) => Replied(Sender)'
      BY NetworkAssumption DEF SetBack, Replied
    <2> QED
      BY <2>1, SenderFalls DEF SetBack
  <1> QED
    BY <1>1, <1>2, <1>3, <1>4 DEF Travel, Envelope

\* Without a message that may be taken late, the entry is due again.
LEMMA PassSetBack ==
  ASSUME NInv, Travel, Accounted, NetNext, NEW b \in Boxes, NEW s \in Servers, SetBack(s),
         \A f \in flight' : f \in flight \/ Waiting(f)
  PROVE  Balanced(b)
  <1> DEFINE B == Worth("entry", Entry(s), envelope[Entry(s)].rcpts, envelope[Entry(s)].received, b)
  <1>1. PICK h : h \in Injection(B, Visits(b))
    BY EntrySetBack, WorthFits DEF NInv
  <1>2. DueLate(b)' \subseteq DueLate(b)
    BY LateFalls
  <1>3. Due(b)' \subseteq Due(b) \cup B
    BY <1>2, EntrySetBack DEF Due
  <1> HIDE DEF B
  <1> QED
    BY <1>1, <1>3, SetbackIsBalanced, NetworkAssumption DEF SetBack, NInv

\* A forwarder cut off in the middle: the message may be taken late, and its
\* entry is due again.
LEMMA DialogueSetBack ==
  ASSUME NInv, Travel, Accounted, NetNext, NEW b \in Boxes, NEW s \in Servers, SetBack(s),
         NEW f \in flight, f.by = s, ~ f.taken,
         flight' = (flight \ {f}) \cup {[f EXCEPT !.by = mishaps']}
  PROVE  Balanced(b)
  <1>1. NetTypeOK
    BY DEF NInv
  <1>2. PICK m \in Ids : m = Entry(s) /\ status[m] = "queued" /\ HomeOf(m) = s /\ work[s] # Nil
    BY DEF SetBack
  <1>3. PICK e : e = envelope[m]
    OBVIOUS
  <1>4. AtTarget(s, "forward") /\ ~ e.null
    BY <1>2, <1>3 DEF NInv, Dialogues, Belongs
  <1>5. PICK j \in Aliases(m) :
          /\ Turn(s, Aliases(m), j)
          /\ f.rcpts = <<Destination(m, j)>> /\ f.received = e.received + 1
    BY <1>2, <1>3 DEF NInv, Dialogues, Belongs
  <1>6. /\ e.rcpts \in Seq(Boxes) /\ e.received \in Nat /\ j \in DOMAIN e.rcpts /\ j \in Nat
        /\ Rule[e.rcpts[j]] # Nil /\ f.rcpts = <<Rule[e.rcpts[j]]>>
        /\ e.received < MaxReceived /\ OnTheWay(e.rcpts, e.received)
    <2>1. e \in Envelope /\ f.received <= MaxReceived
      BY <1>2, <1>3 DEF NInv, Entries, Dialogues
    <2> QED
      BY <1>2, <1>3, <1>5, <2>1, NetworkAssumption DEF Aliases, Destination, Envelope, Travel
  <1>7. PICK o : o = [f EXCEPT !.by = mishaps']
    OBVIOUS
  <1>8. o.rcpts = f.rcpts /\ o.received = f.received
    <2>1. f \in [by : Servers \cup {Sender} \cup Nat, rcpts : Seq(Boxes), received : Nat,
                 null : BOOLEAN, taken : BOOLEAN]
      BY <1>1 DEF NetTypeOK
    <2> QED
      BY <1>7, <2>1
  <1>9. ~ Replied(s)
    BY DEF Replied, NInv, Dialogues, Waiting
  <1>10. ASSUME NEW k \in Nat, k > 0, Comes(e.rcpts, e.received, j, k, b) PROVE EntryDue(m, j, k, b)
    <2>1. Pending(m, "forward", j)
      BY <1>2, <1>4, <1>5, <1>9 DEF Pending, AtTarget, Turn
    <2> QED
      BY <1>3, <1>4, <1>10, <2>1 DEF EntryDue, Way
  <1> DEFINE E == {d \in Worth("entry", m, e.rcpts, e.received, b) : d[3] # j \/ d[4] = 0}
             L == Worth("late", o, <<Rule[e.rcpts[j]]>>, e.received + 1, b)
  <1>11. PICK h : h \in Injection(E \cup L, Visits(b))
    BY <1>1, <1>6, BothFit
  <1>12. DueAtEntries(b)' \subseteq DueAtEntries(b) \cup E
    <2>1. ASSUME NEW d \in Worth("entry", m, e.rcpts, e.received, b), d \notin E
          PROVE  d \in DueAtEntries(b)
      <3>1. d = <<"entry", m, j, d[4]>> /\ d[4] \in Nat /\ d[4] > 0
            /\ Comes(e.rcpts, e.received, j, d[4], b)
        BY <2>1 DEF Worth
      <3>2. EntryDue(m, j, d[4], b)
        BY <1>10, <3>1
      <3> QED
        BY <1>6, <3>1, <3>2 DEF DueAtEntries
    <2>2. DueAtEntries(b)' \subseteq DueAtEntries(b) \cup Worth("entry", m, e.rcpts, e.received, b)
      BY <1>2, <1>3, EntrySetBack
    <2> HIDE DEF E
    <2> QED
      BY <2>1, <2>2
  <1>13. DueLate(b)' \subseteq DueLate(b) \cup L
    <2>1. SUFFICES ASSUME NEW d \in DueLate(b)' PROVE d \in DueLate(b) \cup L
      OBVIOUS
    <2>2. /\ d = <<"late", d[2], d[3], d[4]>> /\ d[2] \in flight' /\ ~ Waiting(d[2])
          /\ d[3] \in Nat /\ d[4] \in Nat
          /\ Comes(d[2].rcpts, d[2].received, d[3], d[4], b)
      BY <2>1 DEF DueLate, Waiting, Comes
    <2>3. CASE d[2] \in flight
      BY <2>2, <2>3 DEF DueLate
    <2>4. CASE d[2] = o
      <3>1. Comes(<<Rule[e.rcpts[j]]>>, e.received + 1, d[3], d[4], b)
        BY <1>5, <1>6, <1>8, <2>2, <2>4
      <3> QED
        BY <2>2, <2>4, <3>1 DEF Worth
    <2> QED
      BY <1>7, <2>2, <2>3, <2>4
  <1>14. DueAtSender(b)' \subseteq DueAtSender(b)
    BY EntrySetBack
  <1> DEFINE B == E \cup L
  <1>15. Due(b)' \subseteq Due(b) \cup B
    <2> HIDE DEF E, L
    <2> QED
      BY <1>12, <1>13, <1>14 DEF Due
  <1>16. h \in Injection(B, Visits(b)) /\ filed'[b] = filed[b] /\ mishaps' = mishaps + 1
    BY <1>11 DEF SetBack
  <1> HIDE DEF B
  <1> QED
    BY <1>1, <1>15, <1>16, SetbackIsBalanced

LEMMA CutBalanced ==
  ASSUME NInv, Travel, Accounted, NetNext, NEW b \in Boxes, NEW f \in flight, Breaks(f)
  PROVE  Balanced(b)
  <1> USE DEF Breaks, Refuse, CommitFails, Untaken
  <1>1. /\ NetTypeOK /\ mishaps' = mishaps + 1
        /\ UNCHANGED <<filed, status, owed, sender, offered>>
    BY DEF NInv, Cut, Mishap, Disappointed, TargetFails, mail, queue
  <1>2. \A g \in flight : ~ Take(g)
    BY <1>1 DEF Take, Q!Accept, NetTypeOK
  <1>3. PICK o : o = [f EXCEPT !.by = mishaps']
    OBVIOUS
  <1>4. flight' = flight \ {f} \/ (~ f.taken /\ flight' = (flight \ {f}) \cup {o})
    BY <1>3 DEF Cut, Orphaned
  <1>5. /\ f \in [by : Servers \cup {Sender} \cup Nat, rcpts : Seq(Boxes), received : Nat,
                  null : BOOLEAN, taken : BOOLEAN]
        /\ o.rcpts = f.rcpts /\ o.received = f.received
    <2>1. f \in [by : Servers \cup {Sender} \cup Nat, rcpts : Seq(Boxes), received : Nat,
                 null : BOOLEAN, taken : BOOLEAN]
      BY <1>1 DEF NetTypeOK
    <2> QED
      BY <1>3, <2>1
  <1>6. CASE f.by \in Servers
    <2>1. PICK s \in Servers : s = f.by /\ AtTarget(s, "forward") /\ TargetFails(s, "forward")
      BY <1>6, NetworkAssumption DEF Cut, Disappointed, NInv, Dialogues, Belongs
    <2>2. Entry(s) \in Ids /\ status[Entry(s)] = "queued" /\ HomeOf(Entry(s)) = s /\ work[s] # Nil
      BY <1>1, <2>1, PassAtHand DEF AtTarget, NInv, Passes
    <2>3. \A r \in Servers : r # s => work'[r] = work[r]
      BY <1>1, <2>1 DEF TargetFails, NetTypeOK
    <2>4. SetBack(s)
      BY <1>1, <1>2, <1>4, <2>1, <2>2, <2>3 DEF SetBack
    <2>5. CASE flight' = flight \ {f}
      BY <2>4, <2>5, PassSetBack
    <2>6. CASE ~ f.taken /\ flight' = (flight \ {f}) \cup {o}
      BY <1>3, <2>1, <2>4, <2>6, DialogueSetBack
    <2> QED
      BY <1>4, <2>5, <2>6
  <1>7. CASE f.by = Sender
    <2>1. /\ sender = "holding" /\ f.rcpts = offered.rcpts /\ f.received = 0
          /\ UNCHANGED <<work, sender>>
      BY <1>1, <1>7, NetworkAssumption DEF Cut, Disappointed, Travel, NInv, Dialogues, Belongs
    <2>2. \A r \in Servers : Replied(r) => Replied(r)'
      BY <1>4, <1>7, NetworkAssumption DEF Replied
    <2>3. DueAtEntries(b)' \subseteq DueAtEntries(b)
      BY <1>1, <1>2, <2>1, <2>2, AllFall
    <2>4. offered.rcpts \in Seq(Boxes) /\ 0 \in Nat /\ OnTheWay(offered.rcpts, 0)
      BY <1>1, <2>1, Offered DEF Travel
    <2>5. CASE ~ f.taken
      <3>1. ~ Replied(Sender)
        BY <1>1, <1>7, <2>5 DEF Replied, NInv, Dialogues, Waiting
      <3>2. DueAtSender(b)' \subseteq DueAtSender(b)
        BY <2>1, <3>1, OfferStands, SenderFalls
      <3> DEFINE B == Worth("late", o, offered.rcpts, 0, b)
      <3>3. DueLate(b)' \subseteq DueLate(b) \cup B
        <4>1. SUFFICES ASSUME NEW d \in DueLate(b)' PROVE d \in DueLate(b) \cup B
          OBVIOUS
        <4>2. /\ d = <<"late", d[2], d[3], d[4]>> /\ d[2] \in flight' /\ ~ Waiting(d[2])
              /\ d[3] \in Nat /\ d[4] \in Nat
              /\ Comes(d[2].rcpts, d[2].received, d[3], d[4], b)
          BY <4>1 DEF DueLate, Waiting, Comes
        <4>3. CASE d[2] \in flight
          BY <4>2, <4>3 DEF DueLate
        <4>4. CASE d[2] = o
          <5>1. Comes(offered.rcpts, 0, d[3], d[4], b)
            BY <1>5, <2>1, <4>2, <4>4
          <5> QED
            BY <4>2, <4>4, <5>1 DEF Worth
        <4> QED
          BY <1>4, <4>2, <4>3, <4>4
      <3>4. PICK h : h \in Injection(B, Visits(b))
        BY <1>1, <2>4, WorthFits
      <3>5. Due(b)' \subseteq Due(b) \cup B
        <4> HIDE DEF B
        <4> QED
          BY <2>3, <3>2, <3>3 DEF Due
      <3> HIDE DEF B
      <3> QED
        BY <1>1, <3>4, <3>5, SetbackIsBalanced
    <2>6. CASE f.taken
      <3> DEFINE B == Worth("sender", Sender, offered.rcpts, 0, b)
      <3>1. DueAtSender(b)' \subseteq B
        BY <2>1, OfferStands DEF DueAtSender, Worth, Comes
      <3>2. DueLate(b)' \subseteq DueLate(b)
        <4>1. \A g \in flight' : g \in flight \/ Waiting(g)
          BY <1>4, <2>6
        <4> QED
          BY <4>1, LateFalls
      <3>3. PICK h : h \in Injection(B, Visits(b))
        BY <1>1, <2>4, WorthFits
      <3>4. Due(b)' \subseteq Due(b) \cup B
        <4> HIDE DEF B
        <4> QED
          BY <2>3, <3>1, <3>2 DEF Due
      <3> HIDE DEF B
      <3> QED
        BY <1>1, <3>3, <3>4, SetbackIsBalanced
    <2> QED
      BY <2>5, <2>6
  <1>8. CASE f.by \notin Servers \cup {Sender}
    <2>1. flight' = flight \ {f} /\ UNCHANGED work
      BY <1>8 DEF Cut, Waiting, Disappointed
    <2>2. \A r \in Servers \cup {Sender} : Replied(r) => Replied(r)'
      BY <1>8, <2>1 DEF Replied
    <2>3. DueAtEntries(b)' \subseteq DueAtEntries(b)
      BY <1>1, <1>2, <2>1, <2>2, AllFall
    <2>4. DueLate(b)' \subseteq DueLate(b)
      BY <2>1, LateFalls
    <2>5. DueAtSender(b)' \subseteq DueAtSender(b)
      BY <1>1, <2>2, OfferStands, SenderFalls
    <2> QED
      BY <1>1, <2>3, <2>4, <2>5, QuietIsBalanced DEF Due
  <1> QED
    BY <1>6, <1>7, <1>8

LEMMA MishapBalanced ==
  ASSUME NInv, Travel, Accounted, NetNext, NEW b \in Boxes, NEW s \in Servers,
         StoreFails(s) \/ RewriteFails(s) \/ SettleFails(s)
  PROVE  Balanced(b)
  <1>1. NetTypeOK
    BY DEF NInv
  <1>2. Entry(s) \in Ids /\ status[Entry(s)] = "queued" /\ HomeOf(Entry(s)) = s /\ work[s] # Nil
    BY <1>1, PassAtHand
    DEF StoreFails, RewriteFails, SettleFails, AtTarget, Rewriting, Over, NInv, Passes
  <1>3. UNCHANGED <<filed, sender, offered, flight>> /\ mishaps' = mishaps + 1
    BY DEF StoreFails, RewriteFails, SettleFails, Mishap, mail
  <1>4. SetBack(s)
    BY <1>2, <1>3, WorkerLeaves DEF SetBack, Works
  <1> QED
    BY <1>3, <1>4, PassSetBack

LEMMA CrashBalanced ==
  ASSUME NInv, Travel, Accounted, NetNext, NEW b \in Boxes, NEW s \in Servers, Crash(s)
  PROVE  Balanced(b)
  <1>1. /\ NetTypeOK /\ mishaps' = mishaps + 1 /\ UNCHANGED <<filed, sender, offered>>
        /\ \A m \in Ids : owed'[m] = owed[m] \/ (work[s] # Nil /\ m = Entry(s))
    BY DEF NInv, Crash, Mishap, Rewriting, Tears, Q!Damage, mail, queue, NetTypeOK
  <1>2. (\A g \in flight : ~ Take(g)) /\ \A r \in Servers : r # s => work'[r] = work[r]
    BY <1>1, OtherTypes, NoTake DEF NetTypeOK, Crash
  <1>3. CASE work[s] = Nil
    <2>1. \A g \in flight : g.by # s
      BY <1>3 DEF NInv, Dialogues, Belongs, AtTarget
    <2>2. UNCHANGED <<work, flight>>
      BY <1>1, <1>3, <2>1 DEF Crash, Waits, NetTypeOK
    <2>3. \A r : Replied(r) => Replied(r)'
      BY <2>2 DEF Replied
    <2>6. UNCHANGED owed
      BY <1>3 DEF Crash, Rewriting, queue
    <2>4. DueAtEntries(b)' \subseteq DueAtEntries(b)
      BY <1>1, <1>2, <2>2, <2>3, <2>6, AllFall
    <2>5. DueLate(b)' \subseteq DueLate(b) /\ DueAtSender(b)' \subseteq DueAtSender(b)
      BY <1>1, <2>2, <2>3, LateFalls, SenderFalls
    <2> QED
      BY <1>1, <2>4, <2>5, QuietIsBalanced DEF Due
  <1>4. CASE work[s] # Nil
    <2>1. Entry(s) \in Ids /\ status[Entry(s)] = "queued" /\ HomeOf(Entry(s)) = s
      BY <1>1, <1>4, PassAtHand DEF NInv, Passes
    <2>2. CASE ~ Waits(s)
      <3>1. UNCHANGED flight
        BY <2>2 DEF Crash
      <3>2. SetBack(s)
        BY <1>1, <1>2, <1>4, <2>1, <3>1 DEF SetBack
      <3> QED
        BY <3>1, <3>2, PassSetBack
    <2>3. CASE Waits(s)
      <3>1. PICK f \in flight : f = (CHOOSE g \in flight : g.by = s) /\ f.by = s
        BY <2>3 DEF Waits
      <3>2. PICK orphan \in Orphaned(f) : flight' = (flight \ {f}) \cup orphan
        BY <2>3, <3>1 DEF Crash
      <3>3. \/ flight' = flight \ {f}
            \/ ~ f.taken /\ flight' = (flight \ {f}) \cup {[f EXCEPT !.by = mishaps']}
        BY <3>2 DEF Orphaned
      <3>4. SetBack(s)
        BY <1>1, <1>2, <1>4, <2>1, <3>1, <3>2 DEF SetBack
      <3>5. CASE flight' = flight \ {f}
        BY <3>4, <3>5, PassSetBack
      <3> QED
        BY <3>1, <3>3, <3>4, <3>5, DialogueSetBack
    <2> QED
      BY <2>2, <2>3
  <1> QED
    BY <1>3, <1>4

\* A mailbox gets a copy for each way the message comes to it within the loop
\* guard, and as many again for each mishap at most, for any rules and loops.
THEOREM CopiesHaveAPrice == NetSpec => []CopiesAccounted
  <1>1. NetInit => Travel
    BY DEF NetInit, Q!Init, Travel
  <1>2. ASSUME NInv, NetInit, NEW b \in Boxes
        PROVE  /\ IsFiniteSet(Due(b))
               /\ filed[b] + Cardinality(Due(b)) <= Cardinality(Visits(b)) * (1 + mishaps)
    <2>1. NetTypeOK /\ filed[b] = 0 /\ mishaps = 0 /\ flight = {}
      BY <1>2 DEF NInv, NetInit
    <2>2. DueAtEntries(b) = {} /\ DueLate(b) = {}
      BY <1>2 DEF NetInit, Q!Init, DueAtEntries, EntryDue, Pending, DueLate
    <2>3. Due(b) \subseteq {} \cup Worth("sender", Sender, offered.rcpts, 0, b)
      BY <2>2 DEF Due, DueAtSender, Worth
    <2>4. OnTheWay(offered.rcpts, 0)
      BY <2>1, SelfOnTheWay
    <2>5. PICK h : h \in Injection(Worth("sender", Sender, offered.rcpts, 0, b), Visits(b))
      BY <2>1, <2>4, Offered, WorthFits
    <2>6. IsFiniteSet({}) /\ Cardinality({}) = 0 /\ IsFiniteSet(Visits(b)) /\ Cardinality(Visits(b)) \in Nat
      BY <2>1, FS_EmptySet, VisitsFinite
    <2>7. IsFiniteSet(Due(b)) /\ Cardinality(Due(b)) <= 0 + Cardinality(Visits(b))
      BY <2>3, <2>5, <2>6, GrownBy
    <2>8. Cardinality(Due(b)) \in Nat
      BY <2>7, FS_CardinalityType
    <2> QED
      BY <2>1, <2>6, <2>7, <2>8
  <1>3. ASSUME NInv, Travel, Accounted, NetNext, NEW b \in Boxes PROVE Balanced(b)
    BY <1>3, WorkerBalanced, StoreBalanced, HearBalanced, OtherBalanced, TakeBalanced, CutBalanced,
       MishapBalanced, CrashBalanced DEF NetNext, Breaks
  <1>4. ASSUME NInv, Travel, Accounted, NetNext PROVE Accounted'
    <2>1. SUFFICES ASSUME NEW b \in Boxes
                   PROVE  /\ IsFiniteSet(Due(b))'
                          /\ filed'[b] + Cardinality(Due(b))' <= Cardinality(Visits(b))' * (1 + mishaps')
      BY DEF Accounted
    <2>2. NetTypeOK /\ NetTypeOK' /\ Visits(b)' = Visits(b) /\ Balanced(b)
      BY <1>3, <1>4, Moves, OfferStands DEF NInv, Visits
    <2>3. PICK v, p, q : v = Cardinality(Visits(b)) /\ p = Cardinality(Due(b)) /\ q = Cardinality(Due(b))'
      OBVIOUS
    <2>4. v \in Nat /\ p \in Nat /\ q \in Nat /\ filed[b] \in Nat /\ mishaps \in Nat
      <3>1. IsFiniteSet(Due(b)) /\ IsFiniteSet(Due(b)')
        BY <1>4, <2>2 DEF Accounted, Balanced
      <3>2. v \in Nat
        BY <2>2, <2>3, VisitsFinite
      <3>3. p \in Nat
        BY <2>3, <3>1, FS_CardinalityType
      <3>4. q \in Nat
        <4>1. PICK D : D = Due(b)'
          OBVIOUS
        <4>2. IsFiniteSet(D) /\ q = Cardinality(D)
          BY <2>3, <3>1, <4>1
        <4> QED
          BY <4>2, FS_CardinalityType
      <3>5. filed[b] \in Nat /\ mishaps \in Nat
        BY <2>2, NetworkAssumption DEF NetTypeOK
      <3> QED
        BY <3>2, <3>3, <3>4, <3>5
    <2>5. filed[b] + p <= v * (1 + mishaps)
      BY <1>4, <2>3 DEF Accounted
    <2>6. \/ filed'[b] = filed[b] /\ mishaps' \in {mishaps, mishaps + 1} /\ q <= p
          \/ filed'[b] = filed[b] + 1 /\ mishaps' = mishaps /\ q < p
          \/ filed'[b] = filed[b] /\ mishaps' = mishaps + 1 /\ q <= p + v
      BY <2>2, <2>3 DEF Balanced
    <2>7. v * (1 + (mishaps + 1)) = v * (1 + mishaps) + v /\ v * (1 + mishaps) \in Nat
      BY <2>4
    <2>8. filed'[b] + q <= v * (1 + mishaps')
      <3>1. CASE mishaps' = mishaps
        BY <2>4, <2>5, <2>6, <2>7, <3>1
      <3>2. CASE mishaps' = mishaps + 1
        BY <2>4, <2>5, <2>6, <2>7, <3>2
      <3> QED
        BY <2>6, <3>1, <3>2
    <2> QED
      BY <2>2, <2>3, <2>8 DEF Balanced
  <1>5. ASSUME Travel, Accounted, UNCHANGED netVars PROVE Travel' /\ Accounted'
    <2>1. UNCHANGED <<sender, offered, status, envelope, owed, work, flight, filed, mishaps>>
      BY <1>5 DEF netVars, queue, mail
    <2>2. Travel'
      BY <1>5, <2>1 DEF Travel, OnTheWay
    <2>3. ASSUME NEW b \in Boxes PROVE Due(b)' = Due(b) /\ Visits(b)' = Visits(b)
      <3>1. DueAtEntries(b)' = DueAtEntries(b)
        BY <2>1 DEF DueAtEntries, EntryDue, Pending, Comes, Replied, HomeOf, Aliases, Entry, AtTarget, Turn
      <3>2. DueLate(b)' = DueLate(b)
        BY <2>1 DEF DueLate, Comes, Waiting
      <3>3. DueAtSender(b)' = DueAtSender(b)
        BY <2>1 DEF DueAtSender, Comes, Replied
      <3> QED
        BY <2>1, <3>1, <3>2, <3>3 DEF Due, Visits
    <2>4. Accounted'
      BY <1>5, <2>1, <2>3 DEF Accounted
    <2> QED
      BY <2>2, <2>4
  <1>6. NInv /\ Accounted => CopiesAccounted
    <2> SUFFICES ASSUME NInv, Accounted, NEW b \in Boxes
                 PROVE  filed[b] <= Cardinality(Visits(b)) * (1 + mishaps)
      BY DEF CopiesAccounted
    <2>1. NetTypeOK /\ Cardinality(Due(b)) \in Nat /\ Cardinality(Visits(b)) \in Nat
      BY VisitsFinite, FS_CardinalityType DEF NInv, Accounted
    <2>2. filed[b] \in Nat /\ mishaps \in Nat
      BY <2>1, NetworkAssumption DEF NetTypeOK
    <2>3. filed[b] + Cardinality(Due(b)) <= Cardinality(Visits(b)) * (1 + mishaps)
      BY DEF Accounted
    <2>4. Cardinality(Visits(b)) * (1 + mishaps) \in Nat
      BY <2>1, <2>2
    <2> QED
      BY <2>1, <2>2, <2>3, <2>4
  <1>7. NetInit => Travel /\ Accounted
    BY <1>1, <1>2, NetInit_NInv DEF Accounted
  <1>8. NInv /\ Travel /\ Accounted /\ NetNext => Travel' /\ Accounted'
    BY <1>4, TravelKeeps
  <1> QED
    BY <1>5, <1>6, <1>7, <1>8, Network_Invariant, PTL DEF NetSpec
==============================================================================
