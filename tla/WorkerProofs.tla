---------------------------- MODULE WorkerProofs -----------------------------
(***************************************************************************)
(* Theorems of module Worker, for every set of messages, targets and       *)
(* configurations, every size, cap, retry schedule and bound.              *)
(*                                                                         *)
(* The inductive invariant IInv says, part by part, what the two files of  *)
(* an entry, the session that writes them and the worker that has the      *)
(* entry in hand may assume of each other.                                 *)
(***************************************************************************)
EXTENDS WorkerRefinement, Sums, TLAPS

Failures == crashes + faults

InHand == {"deliver", "rewrite", "free", "unlinkEml", "unlinkJson"}

Removing == {"free", "unlinkEml", "unlinkJson"}

\* A session that is done with its files; only these have a json that parses.
Settled == {"spooled", "accepted", "cut"}

\* The worker's registers: an entry in hand or none.
Registers ==
  /\ wpc \in InHand => cur \in Msgs
  /\ wpc \notin InHand => cur = NoMsg /\ todo = {} /\ still = {}
  /\ wpc = "rewrite" => todo = {}
  /\ wpc \in Removing => todo = {} /\ still = {}

\* What is on disk at each point of enqueue.
SessionFiles(m) ==
  /\ enq[m] \in {"new", "admitted"} => json[m] = "absent" /\ eml[m] = 0
  /\ enq[m] \in {"stored", "counted"} => json[m] = "absent" /\ eml[m] = Size[m]
  /\ enq[m] = "creating" => json[m] = "torn" /\ eml[m] = Size[m]
  /\ enq[m] \in InEnqueue => meta[m].pending = promised[m] /\ meta[m].attempts = 0
  /\ enq[m] = "new" => promised[m] = {}
  /\ enq[m] \notin Settled => \A t \in Targets : got[m][t] = 0
  /\ Whole(m) => enq[m] \in Settled
  /\ m \in batch => enq[m] \in Settled

\* What the files of an entry owe: a target the json no longer lists is
\* served, and an entry without its body has served every target.
EntryFiles(m) ==
  /\ Whole(m) => meta[m].pending \subseteq promised[m]
  /\ Whole(m) /\ eml[m] > 0 =>
       /\ eml[m] = Size[m]
       /\ \A t \in promised[m] \ meta[m].pending : Served(m, t)
  /\ Whole(m) /\ eml[m] = 0 => \A t \in promised[m] : Served(m, t)
  /\ enq[m] \in {"spooled", "accepted"} /\ json[m] = "absent" =>
       \A t \in promised[m] : Served(m, t)
  /\ enq[m] \in {"spooled", "accepted"} /\ Torn(m) =>
       eml[m] = Size[m] /\ (Rewriting(m) \/ Failures > 0)

\* The entry in hand: its files stay put while targets are tried, and it is
\* removed only when every target is served.
EntryInHand ==
  /\ wpc \in InHand => enq[cur] \in Settled
  /\ wpc = "deliver" =>
       /\ Whole(cur) /\ eml[cur] = Size[cur]
       /\ todo \cup still \subseteq meta[cur].pending /\ todo \cap still = {}
       /\ \A t \in meta[cur].pending \ (todo \cup still) : Served(cur, t)
  /\ wpc = "rewrite" =>
       /\ Torn(cur) /\ eml[cur] = Size[cur]
       /\ meta[cur].pending = still /\ still \subseteq promised[cur]
       /\ \A t \in promised[cur] \ still : Served(cur, t)
  /\ wpc \in Removing =>
       /\ Whole(cur)
       /\ \A t \in promised[cur] : Served(cur, t)

\* A target that is due and not in hand was handed the message at most once
\* per failure; one that was just tried, once more.
Handovers(m) ==
  \A t \in Targets :
    /\ got[m][t] <= 1 + Failures
    /\ got[m][t] > 0 => t \in promised[m]
    /\ json[m] # "absent" /\ t \in meta[m].pending /\ (m = cur => wpc = "rewrite")
         => got[m][t] <= Failures
    /\ m = cur /\ t \in todo \cup still => got[m][t] <= Failures

IInv ==
  /\ TypeOK
  /\ Registers
  /\ \A m \in Msgs : SessionFiles(m)
  /\ \A m \in Msgs : EntryFiles(m)
  /\ EntryInHand
  /\ \A m \in Msgs : Handovers(m)

------------------------------------------------------------------------------
(***************************************************************************)
(* Types.                                                                  *)
(***************************************************************************)

LEMMA DelayType == Delay = GiveUp \/ Delay \in Nat
  BY RetryAssumption DEF Delay, NextDelay, Capped

LEMMA WrapType ==
  ASSUME NEW a \in 0 .. WordSize - 1, NEW b \in Nat, b < WordSize
  PROVE  WrapAdd(a, b) \in 0 .. WordSize - 1 /\ WrapSub(a, b) \in 0 .. WordSize - 1
  BY SpoolAssumption DEF WrapAdd, WrapSub

LEMMA InitTypes == Init => TypeOK /\ Registers
  BY SpoolAssumption DEF Init, SpoolInit, TypeOK, SpoolTypeOK, Registers, WorkerPoint,
     InHand, Removing, Meta, NoMeta, EnqState, InEnqueue

\* A step of a session keeps the types; the worker's registers are not its own.
LEMMA SessionTypes ==
  ASSUME TypeOK, Registers, NEW m \in Msgs, SessionStep(m)
  PROVE  TypeOK' /\ Registers'
  <1>1. Registers'
    BY DEF SessionStep, Registers, workerVars, InHand, Removing
  <1>2. SpoolTypeOK /\ SpoolTypeOK' => TypeOK'
    BY DEF SessionStep, TypeOK, workerVars
  <1>3. SpoolTypeOK
    BY DEF TypeOK
  <1>4. SpoolTypeOK'
    <2> USE <1>3 DEF SpoolTypeOK, EnqState, InEnqueue, At, Goto
    <2>1. CASE Admit(m)
      <3>1. PICK T \in {targets \ {Outbound}, {Outbound}} :
              /\ promised' = [promised EXCEPT ![m] = T]
              /\ meta' = [meta EXCEPT ![m] =
                    [pending |-> T, attempts |-> 0, enqueued |-> now, next |-> now]]
        BY <2>1 DEF Admit
      <3>2. T \subseteq Targets
        BY SpoolAssumption
      <3>3. [pending |-> T, attempts |-> 0, enqueued |-> now, next |-> now] \in Meta
        BY <3>2 DEF Meta
      <3>4. meta' \in [Msgs -> Meta] /\ promised' \in [Msgs -> SUBSET Targets]
        BY <3>1, <3>2, <3>3
      <3>5. QED
        BY <2>1, <3>4 DEF Admit
    <2>2. CASE RefuseFull(m)
      BY <2>2 DEF RefuseFull
    <2>3. CASE StoreBody(m)
      <3>1. eml' = [eml EXCEPT ![m] = Size[m]] /\ Size \in [Msgs -> Nat]
        BY <2>3, SpoolAssumption DEF StoreBody
      <3>2. eml' \in [Msgs -> Nat] /\ \A n \in Msgs : eml'[n] <= Size[n]
        BY <3>1
      <3>3. QED
        BY <2>3, <3>2 DEF StoreBody
    <2>4. CASE StoreBodyFails(m)
      <3>1. PICK k \in 0 .. Size[m] - 1 : eml' = [eml EXCEPT ![m] = k]
        BY <2>4 DEF StoreBodyFails
      <3>2. k \in Nat /\ k <= Size[m]
        BY SpoolAssumption
      <3>3. eml' \in [Msgs -> Nat] /\ \A n \in Msgs : eml'[n] <= Size[n]
        BY <3>1, <3>2
      <3>4. QED
        BY <2>4, <3>3 DEF StoreBodyFails, Fault
    <2>5. CASE CountBody(m)
      <3>1. used' \in 0 .. WordSize - 1
        BY <2>5, WrapType, SpoolAssumption DEF CountBody
      <3>2. QED
        BY <2>5, <3>1 DEF CountBody
    <2>6. CASE CreateJson(m)
      BY <2>6 DEF CreateJson
    <2>7. CASE FillJson(m)
      BY <2>7 DEF FillJson
    <2>8. CASE WriteJsonFails(m)
      BY <2>8 DEF WriteJsonFails, Fault
    <2>9. CASE Answer(m)
      BY <2>9 DEF Answer
    <2>10. QED
      BY <2>1, <2>2, <2>3, <2>4, <2>5, <2>6, <2>7, <2>8, <2>9
      DEF SessionStep, Session, Commit
  <1>5. QED
    BY <1>1, <1>2, <1>3, <1>4

\* So does every step of the worker.
LEMMA TickTypes ==
  ASSUME TypeOK, Registers, Tick
  PROVE  TypeOK' /\ Registers'
  <1> USE DEF TypeOK, Registers, WorkerPoint, InHand, Removing
  <1>1. CASE ListDue
    BY <1>1 DEF ListDue, KeepSpool, KeepHistory, spoolVars, SpoolTypeOK
  <1>2. CASE IdleTick
    BY <1>2 DEF IdleTick, vars, spoolVars, workerVars, SpoolTypeOK
  <1>3. CASE FinishTick
    BY <1>3 DEF FinishTick, EndOfTick, KeepSpool, KeepHistory, spoolVars, SpoolTypeOK
  <1>4. ASSUME NEW m \in Msgs, LoadEntry(m)
        PROVE  TypeOK' /\ Registers'
    <2>1. meta[m].pending \subseteq Targets
      BY DEF SpoolTypeOK, Meta
    <2>2. QED
      BY <1>4, <2>1 DEF LoadEntry, KeepSpool, KeepHistory, spoolVars, SpoolTypeOK
  <1>5. ASSUME NEW m \in Msgs, SkipEntry(m)
        PROVE  TypeOK' /\ Registers'
    BY <1>5 DEF SkipEntry, Fault, KeepHistory, SpoolTypeOK
  <1>6. ASSUME NEW t \in Targets, Delivered(t)
        PROVE  TypeOK' /\ Registers'
    <2>1. got' \in [Msgs -> [Targets -> Nat]]
      BY <1>6 DEF Delivered
    <2>2. QED
      BY <1>6, <2>1 DEF Delivered, KeepSpool, spoolVars, SpoolTypeOK
  <1>7. ASSUME NEW t \in Targets, Failed(t)
        PROVE  TypeOK' /\ Registers'
    BY <1>7 DEF Failed, KeepSpool, KeepHistory, spoolVars, SpoolTypeOK
  <1>8. ASSUME NEW t \in Targets, Unconfigured(t)
        PROVE  TypeOK' /\ Registers'
    BY <1>8 DEF Unconfigured, KeepSpool, spoolVars, SpoolTypeOK
  <1>9. CASE SettleDone
    BY <1>9 DEF SettleDone, RoundOver, KeepSpool, KeepHistory, spoolVars, SpoolTypeOK
  <1>10. CASE SettleGiveUp
    BY <1>10 DEF SettleGiveUp, RoundOver, KeepSpool, spoolVars, SpoolTypeOK
  <1>11. CASE SettleRetry
    <2>1. cur \in Msgs /\ meta \in [Msgs -> Meta] /\ still \subseteq Targets
      BY <1>11 DEF SettleRetry, StartRewrite, RoundOver, SpoolTypeOK
    <2>2. wnow + Delay \in Nat
      BY <1>11, DelayType DEF SettleRetry, StartRewrite
    <2>3. meta' = [meta EXCEPT ![cur].pending = still, ![cur].attempts = @ + 1,
                              ![cur].next = wnow + Delay]
      BY <1>11 DEF SettleRetry, StartRewrite
    <2>4. DEFINE d == wnow + Delay
    <2>5. meta' = [meta EXCEPT ![cur].pending = still, ![cur].attempts = @ + 1,
                              ![cur].next = d] /\ d \in Nat
      BY <2>2, <2>3
    <2>6. HIDE DEF d
    <2>7. meta' \in [Msgs -> Meta]
      BY <2>1, <2>5 DEF Meta
    <2>8. QED
      BY <1>11, <2>7 DEF SettleRetry, StartRewrite, RoundOver, KeepHistory, SpoolTypeOK
  <1>12. CASE Rewritten
    BY <1>12 DEF Rewritten, KeepHistory, SpoolTypeOK
  <1>13. CASE SettleFails
    BY <1>13 DEF SettleFails, Fault, EndOfTick, KeepHistory, SpoolTypeOK
  <1>14. CASE FreeBytes
    <2>1. cur \in Msgs /\ eml[cur] \in Nat /\ eml[cur] < WordSize
      BY <1>14, SpoolAssumption DEF FreeBytes, SpoolTypeOK
    <2>2. used' \in 0 .. WordSize - 1
      BY <1>14, <2>1, WrapType DEF FreeBytes, SpoolTypeOK
    <2>3. QED
      BY <1>14, <2>2 DEF FreeBytes, Fault, KeepHistory, SpoolTypeOK
  <1>15. CASE UnlinkEml
    <2>1. eml' = eml \/ eml' = [eml EXCEPT ![cur] = 0]
      BY <1>15 DEF UnlinkEml
    <2>2. \A n \in Msgs : 0 <= Size[n]
      BY SpoolAssumption
    <2>. eml \in [Msgs -> Nat] /\ \A n \in Msgs : eml[n] <= Size[n]
      BY DEF SpoolTypeOK
    <2>. eml' \in [Msgs -> Nat]
      BY <2>1
    <2>3. eml' \in [Msgs -> Nat] /\ \A n \in Msgs : eml'[n] <= Size[n]
      <3>1. CASE eml' = eml
        BY <3>1
      <3>2. CASE eml' = [eml EXCEPT ![cur] = 0]
        <4>1. ASSUME NEW n \in Msgs PROVE eml'[n] = eml[n] \/ eml'[n] = 0
          BY <3>2
        <4>2. QED
          BY <4>1, <2>2
      <3>3. QED
        BY <2>1, <3>1, <3>2
    <2>4. QED
      BY <1>15, <2>3 DEF UnlinkEml, Fault, KeepHistory, SpoolTypeOK
  <1>16. CASE UnlinkJson
    <2>1. NoMeta \in Meta
      BY DEF NoMeta, Meta
    <2>2. meta' \in [Msgs -> Meta] /\ json' \in [Msgs -> {"absent", "torn", "whole"}]
      BY <1>16, <2>1 DEF UnlinkJson, SpoolTypeOK
    <2>3. QED
      BY <1>16, <2>2 DEF UnlinkJson, Fault, KeepHistory, SpoolTypeOK
  <1>17. QED
    BY <1>1, <1>2, <1>3, <1>4, <1>5, <1>6, <1>7, <1>8, <1>9, <1>10, <1>11, <1>12,
       <1>13, <1>14, <1>15, <1>16 DEF Tick

LEMMA RestartTypes ==
  ASSUME TypeOK, Registers, Restart
  PROVE  TypeOK' /\ Registers'
  <1>1. enq' \in [Msgs -> EnqState]
    BY DEF Restart, RestartSpool, TypeOK, SpoolTypeOK, EnqState, InEnqueue
  <1>2. QED
    BY <1>1 DEF Restart, RestartSpool, EndOfTick, TypeOK, SpoolTypeOK, Registers,
       WorkerPoint, InHand, Removing

LEMMA TypesStep ==
  ASSUME TypeOK, Registers, [Next]_vars
  PROVE  TypeOK' /\ Registers'
  <1>1. CASE Clock
    BY <1>1 DEF Clock, Passes, workerVars, TypeOK, SpoolTypeOK, Registers, InHand, Removing
  <1>2. CASE UNCHANGED vars
    BY <1>2 DEF vars, spoolVars, workerVars, TypeOK, SpoolTypeOK, Registers, InHand, Removing
  <1>3. QED
    BY <1>1, <1>2, SessionTypes, TickTypes, RestartTypes DEF Next

\* Every variable keeps its type; in particular the byte counter stays a
\* machine word through every addition, subtraction and rescan.
THEOREM TypeCorrect == Spec => []TypeOK
  <1>1. Init => TypeOK /\ Registers
    BY InitTypes
  <1>2. TypeOK /\ Registers /\ [Next]_vars => TypeOK' /\ Registers'
    BY TypesStep
  <1>3. QED
    BY <1>1, <1>2, PTL DEF Spec

------------------------------------------------------------------------------
(***************************************************************************)
(* The files, the entry in hand and the hand-overs.                        *)
(***************************************************************************)

LEMMA InitKept == Init => IInv
  <1>1. Init => TypeOK /\ Registers
    BY InitTypes
  <1>2. ASSUME Init
        PROVE  /\ \A m \in Msgs : SessionFiles(m) /\ EntryFiles(m) /\ Handovers(m)
               /\ EntryInHand
    BY <1>2 DEF Init, SpoolInit, SessionFiles, EntryFiles, Handovers, EntryInHand, InHand,
       Removing, Settled, InEnqueue, Whole, Torn, NoMeta, Failures
  <1>3. QED
    BY <1>1, <1>2 DEF IInv

\* What the steps have to preserve besides the types.
Files == \A m \in Msgs : SessionFiles(m) /\ EntryFiles(m) /\ Handovers(m)

\* A session touches the files of its own message only, and never those of an
\* entry the worker can have seen.
LEMMA SessionKeeps ==
  ASSUME IInv, NEW s \in Msgs, SessionStep(s)
  PROVE  Files' /\ EntryInHand'
  <1>1. /\ TypeOK /\ SpoolTypeOK /\ Registers /\ EntryInHand
        /\ SessionFiles(s) /\ EntryFiles(s) /\ Handovers(s)
        /\ UNCHANGED <<workerVars, got, waived, crashes>> /\ Session(s)
    BY DEF IInv, TypeOK, SessionStep
  <1> USE <1>1 DEF At, Goto, Whole, Torn
  <1>2. Failures \in Nat /\ Failures' \in Nat /\ Failures' >= Failures
    BY DEF Session, Admit, RefuseFull, Commit, StoreBody, StoreBodyFails, CountBody,
       CreateJson, FillJson, WriteJsonFails, Answer, Fault, Failures, TypeOK, SpoolTypeOK
  <1>3. \A n \in Msgs : n # s => UNCHANGED <<eml[n], json[n], meta[n], enq[n], promised[n]>>
    BY DEF Session, Admit, RefuseFull, Commit, StoreBody, StoreBodyFails, CountBody,
       CreateJson, FillJson, WriteJsonFails, Answer, SpoolTypeOK
  <1>4. \/ enq[s] \notin Settled
        \/ /\ enq[s] = "spooled" /\ enq'[s] \in {"accepted", "cut"}
           /\ UNCHANGED <<eml, json, meta, promised, faults>>
    BY DEF Session, Admit, RefuseFull, Commit, StoreBody, StoreBodyFails, CountBody,
       CreateJson, FillJson, WriteJsonFails, Answer, SpoolTypeOK, Settled, InEnqueue
  <1>5. enq[s] \notin Settled => cur # s /\ s \notin batch
    BY WorkerAssumption DEF SessionFiles, EntryInHand, Registers, InHand
  <1>6. EntryInHand'
    <2>1. CASE cur = s
      BY <1>4, <1>5, <2>1 DEF EntryInHand, Settled, Served, workerVars
    <2>2. CASE cur # s
      BY <1>3, <2>2 DEF EntryInHand, Registers, InHand, Removing, Served, workerVars
    <2>3. QED
      BY <2>1, <2>2
  <1>7. ASSUME NEW m \in Msgs, m # s
        PROVE  SessionFiles(m)' /\ EntryFiles(m)' /\ Handovers(m)'
    <2>1. SessionFiles(m) /\ EntryFiles(m) /\ Handovers(m)
      BY DEF IInv
    <2>2. UNCHANGED <<eml[m], json[m], meta[m], enq[m], promised[m], workerVars, got, waived>>
      BY <1>3, <1>7
    <2>3. \A t \in Targets : got[m][t] \in Nat
      BY DEF TypeOK
    <2>4. SessionFiles(m)'
      BY <2>1, <2>2 DEF SessionFiles, workerVars
    <2>5. EntryFiles(m)'
      BY <1>2, <2>1, <2>2 DEF EntryFiles, Rewriting, Served, workerVars
    <2>6. Handovers(m)'
      BY <1>2, <2>1, <2>2, <2>3 DEF Handovers, workerVars
    <2>7. QED
      BY <2>4, <2>5, <2>6
  <1>8. SessionFiles(s)'
    <2> USE <1>4, <1>5 DEF SessionFiles, SpoolTypeOK, Settled, InEnqueue, workerVars
    <2>1. CASE Admit(s)
      <3>1. /\ meta'[s].pending = promised'[s] /\ meta'[s].attempts = 0
            /\ enq[s] = "new" /\ enq'[s] = "admitted" /\ UNCHANGED <<eml, json>>
        BY <2>1 DEF Admit
      <3>2. QED
        BY <3>1
    <2>2. CASE RefuseFull(s)
      BY <2>2 DEF RefuseFull
    <2>3. CASE StoreBody(s) \/ StoreBodyFails(s) \/ CountBody(s)
      BY <2>3 DEF StoreBody, StoreBodyFails, CountBody
    <2>4. CASE CreateJson(s) \/ FillJson(s) \/ WriteJsonFails(s) \/ Answer(s)
      BY <2>4 DEF CreateJson, FillJson, WriteJsonFails, Answer
    <2>5. QED
      BY <2>1, <2>2, <2>3, <2>4 DEF Session, Commit
  <1>9. EntryFiles(s)'
    <2>1. CASE FillJson(s)
      <3>1. json'[s] = "whole" /\ UNCHANGED <<eml, meta, promised>> /\ eml[s] = Size[s]
            /\ meta[s].pending = promised[s]
        BY <2>1 DEF FillJson, SpoolTypeOK, SessionFiles, InEnqueue
      <3>2. Size[s] # 0
        BY SpoolAssumption
      <3>3. QED
        BY <3>1, <3>2 DEF EntryFiles
    <2>2. CASE enq[s] \notin Settled /\ ~ FillJson(s)
      <3>1. json'[s] # "whole" /\ enq'[s] \notin {"spooled", "accepted"}
        BY <2>2 DEF Session, Admit, RefuseFull, Commit, StoreBody, StoreBodyFails, CountBody,
           CreateJson, WriteJsonFails, Answer, SpoolTypeOK, SessionFiles, Settled
      <3>2. QED
        BY <3>1 DEF EntryFiles
    <2>3. CASE enq[s] \in Settled
      BY <1>2, <1>4, <2>3 DEF EntryFiles, Rewriting, Served, workerVars, Failures
    <2>4. QED
      BY <2>1, <2>2, <2>3
  <1>10. Handovers(s)'
    <2>1. \A t \in Targets : got'[s][t] = got[s][t] /\ got[s][t] \in Nat
      BY DEF TypeOK
    <2>2. CASE enq[s] \notin Settled
      BY <1>2, <1>5, <2>1, <2>2 DEF Handovers, SessionFiles, workerVars
    <2>3. CASE enq[s] \in Settled
      BY <1>2, <1>4, <2>1, <2>3 DEF Handovers, workerVars
    <2>4. QED
      BY <2>2, <2>3
  <1>11. QED
    BY <1>6, <1>7, <1>8, <1>9, <1>10 DEF Files

\* The steps that only move the worker from one entry to the next.
LEMMA WalkKeeps ==
  ASSUME IInv,
         \/ ListDue \/ IdleTick \/ FinishTick
         \/ \E s \in Msgs : LoadEntry(s) \/ SkipEntry(s)
  PROVE  Files' /\ EntryInHand'
  <1> USE DEF IInv
  <1>1. TypeOK /\ SpoolTypeOK /\ Registers /\ EntryInHand /\ WorkerAssumption
    BY WorkerAssumption DEF TypeOK
  <1> USE <1>1 DEF KeepSpool, KeepHistory, spoolVars, Whole, Torn, Rewriting, Served, Failures
  <1>2. EntryInHand'
    <2>1. CASE ListDue \/ FinishTick \/ \E s \in Msgs : SkipEntry(s)
      BY <2>1 DEF ListDue, FinishTick, SkipEntry, EndOfTick, EntryInHand, InHand, Removing
    <2>2. CASE IdleTick
      BY <2>2 DEF IdleTick, vars, workerVars, EntryInHand
    <2>3. ASSUME NEW s \in Msgs, LoadEntry(s)
          PROVE  EntryInHand'
      <3>1. SessionFiles(s) /\ EntryFiles(s)
        OBVIOUS
      <3>2. QED
        BY <2>3, <3>1 DEF LoadEntry, SessionFiles, EntryFiles, EntryInHand, InHand, Removing
    <2>4. QED
      BY <2>1, <2>2, <2>3
  <1> SUFFICES ASSUME NEW m \in Msgs
               PROVE  SessionFiles(m)' /\ EntryFiles(m)' /\ Handovers(m)'
    BY <1>2 DEF Files
  <1>3. SessionFiles(m) /\ EntryFiles(m) /\ Handovers(m)
    OBVIOUS
  <1> USE <1>3
  <1>4. CASE ListDue
    BY <1>4 DEF ListDue, SessionFiles, EntryFiles, Handovers
  <1>5. CASE IdleTick
    BY <1>5 DEF IdleTick, vars, workerVars, SessionFiles, EntryFiles, Handovers
  <1>6. CASE FinishTick
    BY <1>6 DEF FinishTick, EndOfTick, SessionFiles, EntryFiles, Handovers, Registers, InHand
  <1>7. ASSUME NEW s \in Msgs, LoadEntry(s)
        PROVE  SessionFiles(m)' /\ EntryFiles(m)' /\ Handovers(m)'
    <2>1. cur = NoMsg /\ wpc = "next"
      BY <1>7 DEF LoadEntry, Registers, InHand
    <2>2. SessionFiles(m)' /\ EntryFiles(m)'
      BY <1>7, <2>1 DEF LoadEntry, SessionFiles, EntryFiles
    <2>3. Handovers(m)'
      BY <1>7, <2>1 DEF LoadEntry, Handovers
    <2>4. QED
      BY <2>2, <2>3
  <1>8. ASSUME NEW s \in Msgs, SkipEntry(s)
        PROVE  SessionFiles(m)' /\ EntryFiles(m)' /\ Handovers(m)'
    <2>1. /\ UNCHANGED <<eml, json, meta, enq, promised, got, waived, crashes, wpc, cur, todo, still>>
          /\ batch' \subseteq batch /\ wpc = "next"
      BY <1>8 DEF SkipEntry
    <2>2. Failures \in Nat /\ Failures' \in Nat /\ Failures' >= Failures
      BY <1>8 DEF SkipEntry, Fault, TypeOK, SpoolTypeOK
    <2>3. SessionFiles(m)'
      BY <2>1 DEF SessionFiles
    <2>4. EntryFiles(m)'
      <3>1. Failures > 0 => Failures' > 0
        BY <2>2
      <3>2. QED
        BY <2>1, <3>1 DEF EntryFiles
    <2>5. Handovers(m)'
      <3>1. \A t \in Targets : got[m][t] \in Nat
        BY DEF TypeOK
      <3> HIDE DEF Failures
      <3>2. QED
        BY <2>1, <2>2, <3>1 DEF Handovers
    <2>6. QED
      BY <2>3, <2>4, <2>5
  <1>9. QED
    BY <1>4, <1>5, <1>6, <1>7, <1>8

\* One target tried: it leaves todo served, failed or waived.
LEMMA DeliverKeeps ==
  ASSUME IInv, NEW t \in Targets, Delivered(t) \/ Failed(t) \/ Unconfigured(t)
  PROVE  Files' /\ EntryInHand'
  <1> USE DEF IInv
  <1>1. TypeOK /\ SpoolTypeOK /\ Registers /\ EntryInHand
    BY DEF TypeOK
  <1>2. cur \in Msgs /\ wpc = "deliver" /\ t \in todo /\ UNCHANGED <<spoolVars, wpc, cur, batch, crashes>>
    BY <1>1 DEF Delivered, Failed, Unconfigured, Registers, InHand, KeepSpool, KeepHistory
  <1> SUFFICES ASSUME NEW m \in Msgs
               PROVE  /\ SessionFiles(m)' /\ EntryFiles(m)' /\ Handovers(m)'
                      /\ EntryInHand'
    BY <1>2 DEF Files
  <1>3. SessionFiles(m) /\ EntryFiles(m) /\ Handovers(m) /\ Handovers(cur) /\ EntryFiles(cur)
    BY <1>2
  <1>4. t \in meta[cur].pending /\ t \in promised[cur] /\ enq[cur] \in Settled /\ Whole(cur)
    BY <1>1, <1>2, <1>3 DEF EntryInHand, EntryFiles, InHand
  <1> USE <1>1, <1>2, <1>3, <1>4 DEF KeepHistory, spoolVars, Whole, Torn, Served, Failures
  <1>5. CASE Delivered(t)
    <2>1. got' = [got EXCEPT ![cur][t] = @ + 1] /\ UNCHANGED waived /\ todo' = todo \ {t}
          /\ UNCHANGED still
      BY <1>5 DEF Delivered
    <2>2. \A u \in Targets : /\ m # cur \/ u # t => got'[m][u] = got[m][u]
                             /\ got'[cur][t] = got[cur][t] + 1
                             /\ got[m][u] \in Nat /\ got[cur][t] \in Nat
      BY <2>1 DEF TypeOK
    <2>3. \A n \in Msgs, u \in Targets : Served(n, u) => Served(n, u)'
      BY <2>1 DEF TypeOK
    <2>4. SessionFiles(m)'
      BY <2>2 DEF SessionFiles
    <2>5. EntryFiles(m)'
      <3>1. promised[m] \subseteq Targets
        BY DEF SpoolTypeOK
      <3>2. QED
        BY <2>3, <3>1 DEF EntryFiles, Rewriting
    <2>6. Handovers(m)'
      <3>1. CASE m # cur
        BY <2>1, <2>2, <3>1 DEF Handovers
      <3>2. CASE m = cur
        <4>1. got[cur][t] <= Failures /\ Failures \in Nat
          BY DEF Handovers, TypeOK, SpoolTypeOK
        <4>2. ASSUME NEW u \in Targets
              PROVE  /\ got'[m][u] <= 1 + Failures
                     /\ got'[m][u] > 0 => u \in promised[m]
                     /\ u \in todo' \cup still' => got'[m][u] <= Failures
          <5>1. CASE u = t
            BY <1>2, <2>1, <2>2, <3>2, <4>1, <5>1 DEF EntryInHand
          <5>2. CASE u # t
            BY <2>1, <2>2, <3>2, <5>2 DEF Handovers
          <5>3. QED
            BY <5>1, <5>2
        <4>3. QED
          BY <3>2, <4>2 DEF Handovers
      <3>3. QED
        BY <3>1, <3>2
    <2>7. EntryInHand'
      <3>1. Served(cur, t)' /\ meta[cur].pending \subseteq Targets
        BY <2>2 DEF SpoolTypeOK, Meta
      <3>2. QED
        BY <2>1, <2>3, <3>1 DEF EntryInHand, InHand, Removing
    <2>8. QED
      BY <2>4, <2>5, <2>6, <2>7
  <1>6. CASE Failed(t)
    BY <1>6 DEF Failed, SessionFiles, EntryFiles, Handovers, EntryInHand, InHand, Removing,
       Rewriting
  <1>7. CASE Unconfigured(t)
    <2>1. waived' = waived \cup {<<cur, t>>} /\ UNCHANGED <<got, still>> /\ todo' = todo \ {t}
      BY <1>7 DEF Unconfigured
    <2>2. \A n \in Msgs, u \in Targets : Served(n, u) => Served(n, u)'
      BY <2>1
    <2>3. SessionFiles(m)'
      BY <2>1 DEF SessionFiles
    <2>4. EntryFiles(m)'
      BY <2>1 DEF EntryFiles, Rewriting
    <2>5. Handovers(m)'
      BY <2>1 DEF Handovers
    <2>6. EntryInHand'
      BY <2>1 DEF EntryInHand, InHand, Removing
    <2>7. QED
      BY <2>3, <2>4, <2>5, <2>6
  <1>8. QED
    BY <1>5, <1>6, <1>7

\* The round is over: the entry is removed, or its survivors are written back.
LEMMA SettleKeeps ==
  ASSUME IInv,
         \/ SettleDone \/ SettleGiveUp \/ SettleRetry \/ Rewritten
         \/ FreeBytes \/ UnlinkEml \/ UnlinkJson
  PROVE  Files' /\ EntryInHand'
  <1> USE DEF IInv
  <1>1. TypeOK /\ SpoolTypeOK /\ Registers /\ EntryInHand
    BY DEF TypeOK
  <1>2. cur \in Msgs /\ wpc \in InHand /\ enq[cur] \in Settled /\ UNCHANGED enq
        /\ UNCHANGED <<got, promised, crashes, batch>>
    BY <1>1 DEF SettleDone, SettleGiveUp, SettleRetry, StartRewrite, Rewritten, FreeBytes, UnlinkEml,
       UnlinkJson, RoundOver, Registers, EntryInHand, InHand, KeepSpool, KeepHistory, spoolVars
  <1> SUFFICES ASSUME NEW m \in Msgs
               PROVE  /\ SessionFiles(m)' /\ EntryFiles(m)' /\ Handovers(m)'
                      /\ EntryInHand'
    BY <1>2 DEF Files
  <1>3. SessionFiles(m) /\ EntryFiles(m) /\ Handovers(m) /\ Handovers(cur) /\ EntryFiles(cur)
    BY <1>2
  <1> USE <1>1, <1>2, <1>3
      DEF KeepSpool, KeepHistory, spoolVars, Whole, Torn, Rewriting, Served, InHand, Removing
  <1>4. CASE SettleDone
    <2>1. UNCHANGED <<spoolVars, got, waived, crashes>> /\ cur' = cur /\ wpc = "deliver"
          /\ wpc' = "free" /\ batch' = batch /\ todo = {} /\ still = {} /\ todo' = {}
          /\ still' = {}
      BY <1>4 DEF SettleDone, RoundOver
    <2>2. SessionFiles(m)' /\ EntryFiles(m)'
      BY <2>1 DEF SessionFiles, EntryFiles, Failures
    <2>3. Handovers(m)'
      BY <2>1 DEF Handovers, Failures
    <2>4. EntryInHand'
      BY <2>1 DEF EntryInHand, EntryFiles, SpoolTypeOK
    <2>5. QED
      BY <2>2, <2>3, <2>4
  <1>5. CASE SettleGiveUp
    <2>1. UNCHANGED <<spoolVars, got, crashes>> /\ cur' = cur /\ wpc = "deliver"
          /\ wpc' = "free" /\ batch' = batch /\ todo = {} /\ todo' = {} /\ still' = {}
          /\ waived' = waived \cup ({cur} \X still)
      BY <1>5 DEF SettleGiveUp, RoundOver
    <2>2. SessionFiles(m)' /\ EntryFiles(m)'
      BY <2>1 DEF SessionFiles, EntryFiles, Failures
    <2>3. Handovers(m)'
      BY <2>1 DEF Handovers, Failures
    <2>4. \A t \in promised[cur] : Served(cur, t)'
      BY <2>1 DEF EntryInHand, EntryFiles, SpoolTypeOK
    <2>5. EntryInHand'
      BY <2>1, <2>4 DEF EntryInHand, SpoolTypeOK
    <2>6. QED
      BY <2>2, <2>3, <2>5
  <1>6. CASE SettleRetry
    <2>1. UNCHANGED <<eml, got, waived, crashes, faults, enq, promised>> /\ cur' = cur
          /\ wpc = "deliver" /\ wpc' = "rewrite" /\ batch' = batch /\ todo = {} /\ todo' = {}
          /\ still' = still /\ json' = [json EXCEPT ![cur] = "torn"]
      BY <1>6 DEF SettleRetry, StartRewrite, RoundOver
    <2>2. /\ meta'[cur].pending = still
          /\ \A n \in Msgs : n # cur => meta'[n] = meta[n]
      BY <1>6 DEF SettleRetry, StartRewrite, SpoolTypeOK, Meta
    <2>3. /\ still \subseteq meta[cur].pending /\ still \subseteq promised[cur]
          /\ \A t \in promised[cur] \ still : Served(cur, t)
          /\ eml[cur] = Size[cur]
      BY <2>1 DEF EntryInHand, EntryFiles, SpoolTypeOK
    <2>4. SessionFiles(m)'
      BY <2>1, <2>2 DEF SessionFiles, SpoolTypeOK, Settled, InEnqueue
    <2>5. EntryFiles(m)'
      <3>1. CASE m = cur
        BY <2>1, <2>2, <2>3, <3>1 DEF EntryFiles, SpoolTypeOK
      <3>2. CASE m # cur
        BY <2>1, <2>2, <3>2 DEF EntryFiles, Failures, SpoolTypeOK
      <3>3. QED
        BY <3>1, <3>2
    <2>6. Handovers(m)'
      BY <2>1, <2>2 DEF Handovers, Failures, SpoolTypeOK
    <2>7. EntryInHand'
      BY <2>1, <2>2, <2>3 DEF EntryInHand, SpoolTypeOK
    <2>8. QED
      BY <2>4, <2>5, <2>6, <2>7
  <1>7. CASE Rewritten
    <2>1. UNCHANGED <<eml, meta, got, waived, crashes, faults, enq, promised>>
          /\ cur' = NoMsg /\ wpc = "rewrite" /\ wpc' = "next" /\ batch' = batch /\ todo' = {}
          /\ todo = {} /\ still' = {} /\ json' = [json EXCEPT ![cur] = "whole"]
      BY <1>7 DEF Rewritten, Registers
    <2>2. NoMsg \notin Msgs /\ Size[cur] \in Nat \ {0}
      BY WorkerAssumption, SpoolAssumption
    <2>3. SessionFiles(m)'
      BY <2>1 DEF SessionFiles, SpoolTypeOK, Settled, InEnqueue
    <2>4. EntryFiles(m)'
      BY <2>1, <2>2 DEF EntryFiles, EntryInHand, Failures, SpoolTypeOK
    <2>5. Handovers(m)'
      BY <2>1, <2>2 DEF Handovers, EntryInHand, Failures, SpoolTypeOK
    <2>6. EntryInHand'
      BY <2>1 DEF EntryInHand
    <2>7. QED
      BY <2>3, <2>4, <2>5, <2>6
  <1>8. CASE FreeBytes
    <2>1. UNCHANGED <<eml, json, meta, got, waived, crashes, enq, promised, cur, batch, todo,
                      still>>
          /\ wpc = "free" /\ wpc' = "unlinkEml"
      BY <1>8 DEF FreeBytes
    <2>2. Failures \in Nat /\ Failures' \in Nat /\ Failures' >= Failures
      BY <1>8 DEF FreeBytes, Fault, KeepHistory, TypeOK, SpoolTypeOK, Failures
    <2>3. \A t \in Targets : got[m][t] \in Nat
      BY DEF TypeOK
    <2>4. SessionFiles(m)' /\ EntryFiles(m)'
      BY <2>1, <2>2 DEF SessionFiles, EntryFiles
    <2>5. Handovers(m)'
      BY <2>1, <2>2, <2>3 DEF Handovers
    <2>6. EntryInHand'
      BY <2>1 DEF EntryInHand
    <2>7. QED
      BY <2>4, <2>5, <2>6
  <1>9. CASE UnlinkEml
    <2>1. /\ UNCHANGED <<json, meta, got, waived, crashes, enq, promised, cur, batch, todo, still>>
          /\ wpc = "unlinkEml" /\ wpc' = "unlinkJson"
          /\ eml' = eml \/ eml' = [eml EXCEPT ![cur] = 0]
      BY <1>9 DEF UnlinkEml
    <2>2. Failures \in Nat /\ Failures' \in Nat /\ Failures' >= Failures
      BY <1>9 DEF UnlinkEml, Fault, KeepHistory, TypeOK, SpoolTypeOK, Failures
    <2>3. \A n \in Msgs : /\ eml'[n] = eml[n] \/ (n = cur /\ eml'[n] = 0)
                          /\ \A t \in Targets : got[n][t] \in Nat
      BY <2>1 DEF TypeOK, SpoolTypeOK
    <2>4. SessionFiles(m)'
      BY <2>1, <2>3 DEF SessionFiles, Settled, InEnqueue
    <2>5. EntryFiles(m)'
      BY <2>1, <2>2, <2>3 DEF EntryFiles, EntryInHand
    <2>6. Handovers(m)'
      BY <2>1, <2>2, <2>3 DEF Handovers
    <2>7. EntryInHand'
      BY <2>1 DEF EntryInHand
    <2>8. QED
      BY <2>4, <2>5, <2>6, <2>7
  <1>10. CASE UnlinkJson
    <2>1. /\ UNCHANGED <<eml, got, waived, crashes, enq, promised, batch, todo, still>>
          /\ wpc = "unlinkJson" /\ wpc' = "next" /\ cur' = NoMsg /\ todo = {} /\ still = {}
      BY <1>10 DEF UnlinkJson, Registers
    <2>2. Failures \in Nat /\ \A n \in Msgs : \A t \in Targets : got[n][t] \in Nat
      BY DEF TypeOK, SpoolTypeOK, Failures
    <2>3. EntryInHand'
      BY <2>1 DEF EntryInHand
    <2>4. CASE /\ json' = [json EXCEPT ![cur] = "absent"]
               /\ meta' = [meta EXCEPT ![cur] = NoMeta]
               /\ UNCHANGED faults
      <3>1. /\ m # cur => json'[m] = json[m] /\ meta'[m] = meta[m]
            /\ m = cur => json'[m] = "absent"
            /\ Failures' = Failures
        BY <2>1, <2>4 DEF SpoolTypeOK, Failures
      <3>2. SessionFiles(m)'
        BY <2>1, <3>1 DEF SessionFiles, Settled, InEnqueue
      <3>3. EntryFiles(m)'
        BY <2>1, <3>1 DEF EntryFiles, EntryInHand
      <3>4. Handovers(m)'
        BY <2>1, <3>1 DEF Handovers
      <3>5. QED
        BY <2>3, <3>2, <3>3, <3>4
    <2>5. CASE UNCHANGED <<json, meta>> /\ Fault
      <3>1. Failures' = Failures + 1
        BY <2>1, <2>5 DEF Fault, TypeOK, SpoolTypeOK, Failures
      <3>2. SessionFiles(m)' /\ EntryFiles(m)'
        BY <2>1, <2>2, <2>5, <3>1 DEF SessionFiles, EntryFiles
      <3>3. Handovers(m)'
        BY <2>1, <2>2, <2>5, <3>1 DEF Handovers
      <3>4. QED
        BY <2>3, <3>2, <3>3
    <2>6. QED
      BY <1>10, <2>4, <2>5 DEF UnlinkJson
  <1>11. QED
    BY <1>4, <1>5, <1>6, <1>7, <1>8, <1>9, <1>10

\* A settle that fails and a kill leave the files as they are; the failure is
\* what pays for a json left torn and for a delivery to be repeated.
LEMMA BreakKeeps ==
  ASSUME IInv, SettleFails \/ Restart
  PROVE  Files' /\ EntryInHand'
  <1> USE DEF IInv
  <1>1. TypeOK /\ SpoolTypeOK /\ Registers /\ EntryInHand
    BY DEF TypeOK
  <1>2. /\ UNCHANGED <<eml, json, meta, got, waived, promised>>
        /\ wpc' = "idle" /\ batch' = {} /\ cur' = NoMsg /\ todo' = {} /\ still' = {}
    BY DEF SettleFails, Restart, RestartSpool, EndOfTick, KeepHistory
  <1>3. Failures \in Nat /\ Failures' = Failures + 1
    <2>1. crashes \in Nat /\ faults \in Nat
      BY <1>1 DEF TypeOK, SpoolTypeOK
    <2>2. \/ crashes' = crashes + 1 /\ faults' = faults
          \/ crashes' = crashes /\ faults' = faults + 1
      BY DEF SettleFails, Restart, RestartSpool, Fault, KeepHistory
    <2>3. QED
      BY <2>1, <2>2 DEF Failures
  <1>4. EntryInHand'
    BY <1>2 DEF EntryInHand, InHand, Removing
  <1> SUFFICES ASSUME NEW m \in Msgs
               PROVE  SessionFiles(m)' /\ EntryFiles(m)' /\ Handovers(m)'
    BY <1>4 DEF Files
  <1>5. SessionFiles(m) /\ EntryFiles(m) /\ Handovers(m)
    OBVIOUS
  <1>6. /\ enq'[m] = enq[m] \/ (enq[m] \in InEnqueue \cup {"spooled"} /\ enq'[m] = "cut")
        /\ \A t \in Targets : got[m][t] \in Nat
    BY <1>1 DEF SettleFails, Restart, RestartSpool, TypeOK
  <1>7. SessionFiles(m)'
    BY <1>2, <1>5, <1>6 DEF SessionFiles, Settled, InEnqueue, Whole
  <1>8. EntryFiles(m)'
    BY <1>2, <1>3, <1>5, <1>6 DEF EntryFiles, Whole, Torn, Served
  <1>9. Handovers(m)'
    BY <1>2, <1>3, <1>5, <1>6 DEF Handovers
  <1>10. QED
    BY <1>7, <1>8, <1>9

\* The clock is no part of it.
LEMMA StutterKeeps ==
  ASSUME IInv, Clock \/ UNCHANGED vars
  PROVE  Files' /\ EntryInHand'
  <1>1. UNCHANGED <<eml, json, meta, enq, promised, faults, workerVars, got, waived, crashes>>
    BY DEF Clock, Passes, vars, spoolVars
  <1>2. QED
    BY <1>1 DEF IInv, Files, workerVars, SessionFiles, EntryFiles, Handovers, EntryInHand,
       Whole, Torn, Rewriting, Served, Failures

LEMMA IInvStep == IInv /\ [Next]_vars => IInv'
  <1> SUFFICES ASSUME IInv, [Next]_vars PROVE IInv'
    OBVIOUS
  <1>1. TypeOK' /\ Registers'
    BY TypesStep DEF IInv
  <1>2. Files' /\ EntryInHand'
    <2>1. ASSUME NEW s \in Msgs, SessionStep(s) PROVE Files' /\ EntryInHand'
      BY <2>1, SessionKeeps
    <2>2. CASE Tick
      BY <2>2, WalkKeeps, DeliverKeeps, SettleKeeps, BreakKeeps DEF Tick
    <2>3. QED
      BY <2>1, <2>2, BreakKeeps, StutterKeeps DEF Next
  <1>3. QED
    BY <1>1, <1>2 DEF IInv, Files

THEOREM Kept_Invariant == Spec => []IInv
  BY InitKept, IInvStep, PTL DEF Spec

------------------------------------------------------------------------------
(***************************************************************************)
(* What follows for the users of the queue.                                *)
(***************************************************************************)

\* "Once a message is accepted we own it" (server/spool.rs): whatever is killed
\* or fails, each target an accepted message was promised to is served, or owed
\* by a json that parses, or the json is torn by settle's rewrite.
THEOREM AcceptedKept == Spec => []AcceptedIsKept
  <1>1. IInv => AcceptedIsKept
    <2> SUFFICES ASSUME IInv, NEW m \in Msgs, enq[m] = "accepted", NEW t \in promised[m]
                 PROVE  \/ Served(m, t)
                        \/ Kept(m, t)
                        \/ /\ Torn(m) /\ eml[m] = Size[m]
                           /\ Rewriting(m) \/ crashes + faults > 0
      BY DEF AcceptedIsKept
    <2>1. EntryFiles(m) /\ json[m] \in {"absent", "torn", "whole"} /\ eml[m] \in Nat
      BY DEF IInv, TypeOK, SpoolTypeOK
    <2>2. QED
      BY <2>1 DEF EntryFiles, Kept, Whole, Torn, Failures
  <1>2. QED
    BY <1>1, Kept_Invariant, PTL

\* Delivery repeats at most once per kill or disk error (server/worker.rs
\* records a round only after all its targets were tried).
THEOREM RepeatsBounded == Spec => []RedeliveryBounded
  <1>1. IInv => RedeliveryBounded
    BY DEF IInv, Handovers, RedeliveryBounded, Failures, TypeOK, SpoolTypeOK
  <1>2. QED
    BY <1>1, Kept_Invariant, PTL

\* No restart, retry or failure sends a message to a target it was not accepted
\* for: submissions stay with the relay, incoming mail never reaches it.
THEOREM RoutesHold == Spec => []NeverMisrouted
  <1>1. IInv => NeverMisrouted
    BY DEF IInv, Handovers, NeverMisrouted
  <1>2. QED
    BY <1>1, Kept_Invariant, PTL

\* A message answered 451 is never delivered: no json of it ever parses.
THEOREM RefusedStays == Spec => []RefusedIsNotSent
  <1>1. IInv => RefusedIsNotSent
    BY DEF IInv, SessionFiles, Settled, RefusedIsNotSent
  <1>2. QED
    BY <1>1, Kept_Invariant, PTL

\* The retry schedule never puts a message off past its lifetime by more than
\* one longest delay (next_delay in send/retry.rs, next_retry_unix in worker.rs).
THEOREM HorizonHolds == Spec => []RetryHorizon
  <1> DEFINE H(m) == meta[m].attempts > 0 =>
                       meta[m].next < meta[m].enqueued + Lifetime + DelayCap
  <1>1. Init => RetryHorizon
    BY DEF Init, SpoolInit, NoMeta, RetryHorizon
  <1>2. ASSUME TypeOK, Registers, RetryHorizon, [Next]_vars
        PROVE  RetryHorizon'
    <2> SUFFICES ASSUME NEW m \in Msgs PROVE H(m)'
      BY DEF RetryHorizon
    <2>1. H(m) /\ meta \in [Msgs -> Meta] /\ SpoolTypeOK
      BY <1>2 DEF RetryHorizon, TypeOK, SpoolTypeOK
    <2>2. CASE meta'[m] = meta[m]
      BY <2>1, <2>2
    <2>3. CASE meta'[m].attempts = 0
      BY <2>3
    <2>4. CASE SettleRetry /\ m = cur
      <3>1. Elapsed < Lifetime /\ Delay \in 0 .. DelayCap
        <4>1. Elapsed \in Int
          BY <2>1, <2>4, <1>2 DEF Elapsed, TypeOK, Meta
        <4>2. QED
          BY <2>4, <4>1, RetryAssumption DEF SettleRetry, StartRewrite, Delay, NextDelay, Capped
      <3>2. meta'[m].next = wnow + Delay /\ meta'[m].enqueued = meta[m].enqueued
        BY <2>1, <2>4 DEF SettleRetry, StartRewrite, Meta
      <3>3. wnow \in Nat /\ meta[m].enqueued \in Nat
        BY <1>2, <2>1 DEF TypeOK, Meta
      <3>4. wnow < meta[m].enqueued + Lifetime
        BY <2>4, <3>1, <3>3, RetryAssumption DEF Elapsed
      <3> HIDE DEF H
      <3>5. meta'[m].next < meta'[m].enqueued + Lifetime + DelayCap
        BY <3>1, <3>2, <3>3, <3>4, RetryAssumption
      <3>6. QED
        BY <3>5 DEF H
    <2>5. \/ meta'[m] = meta[m]
          \/ meta'[m].attempts = 0
          \/ SettleRetry /\ m = cur
      <3>1. ASSUME NEW s \in Msgs, SessionStep(s)
            PROVE  meta'[m] = meta[m] \/ meta'[m].attempts = 0
        BY <2>1, <3>1 DEF SessionStep, Session, Admit, RefuseFull, Commit, StoreBody,
           StoreBodyFails, CountBody, CreateJson, FillJson, WriteJsonFails, Answer
      <3>2. CASE Tick
        <4>1. ASSUME ~ SettleRetry, ~ UnlinkJson
              PROVE  meta' = meta
          BY <3>2, <4>1 DEF Tick, ListDue, IdleTick, FinishTick, LoadEntry, SkipEntry,
             Delivered, Failed, Unconfigured, SettleDone, SettleGiveUp, Rewritten,
             SettleFails, FreeBytes, UnlinkEml, KeepSpool, vars, spoolVars
        <4>2. SettleRetry => meta'[m] = meta[m] \/ m = cur
          BY <2>1 DEF SettleRetry, StartRewrite
        <4>3. UnlinkJson => meta'[m] = meta[m] \/ meta'[m].attempts = 0
          BY <2>1 DEF UnlinkJson, NoMeta
        <4>4. QED
          BY <4>1, <4>2, <4>3
      <3>3. CASE Clock \/ Restart \/ UNCHANGED vars
        BY <3>3 DEF Clock, Passes, Restart, RestartSpool, vars, spoolVars
      <3>4. QED
        BY <1>2, <3>1, <3>2, <3>3 DEF Next
    <2>6. QED
      BY <2>2, <2>3, <2>4, <2>5
  <1>3. Init => TypeOK /\ Registers
    BY InitTypes
  <1>4. TypeOK /\ Registers /\ [Next]_vars => TypeOK' /\ Registers'
    BY TypesStep
  <1>5. TypeOK /\ Registers /\ RetryHorizon /\ [Next]_vars => RetryHorizon'
    BY <1>2
  <1>6. QED
    BY <1>1, <1>3, <1>4, <1>5, PTL DEF Spec

------------------------------------------------------------------------------
(***************************************************************************)
(* The retry schedule, and that rounds are spaced by it.                   *)
(***************************************************************************)

After(x) == IF x >= DelayCap THEN x ELSE 2 * x

\* A beginning of the schedule.
Start(f, n) ==
  /\ f \in [0 .. n -> Nat]
  /\ \A k \in 0 .. n : f[k] = IF k <= 1 THEN FirstDelay ELSE After(f[k - 1])

LEMMA StartExists == \A n \in Nat : \E f : Start(f, n)
  <1> DEFINE S == {n \in Nat : \E f : Start(f, n)}
  <1>1. 0 \in S
    <2> DEFINE f == [k \in 0 .. 0 |-> FirstDelay]
    <2>1. Start(f, 0)
      BY RetryAssumption DEF Start
    <2> QED
      BY <2>1
  <1>2. ASSUME NEW n \in S PROVE n + 1 \in S
    <2>1. PICK f : Start(f, n)
      OBVIOUS
    <2> DEFINE g == [k \in 0 .. n + 1 |-> IF k <= n THEN f[k] ELSE
                                           IF k <= 1 THEN FirstDelay ELSE After(f[n])]
    <2>2. f[n] \in Nat
      BY <2>1 DEF Start
    <2>3. After(f[n]) \in Nat /\ FirstDelay \in Nat
      BY <2>2, RetryAssumption DEF After
    <2> HIDE DEF S
    <2>4. g \in [0 .. n + 1 -> Nat]
      BY <2>1, <2>3 DEF Start
    <2>5. ASSUME NEW k \in 0 .. n + 1
          PROVE  g[k] = IF k <= 1 THEN FirstDelay ELSE After(g[k - 1])
      <3>0. n \in Nat
        BY DEF S
      <3>1. CASE k <= n
        <4>1. g[k] = f[k] /\ (k > 1 => g[k - 1] = f[k - 1])
          BY <3>0, <3>1
        <4> QED
          BY <2>1, <3>0, <3>1, <4>1 DEF Start
      <3>2. CASE k = n + 1
        <4>1. g[k] = IF k <= 1 THEN FirstDelay ELSE After(f[n])
          BY <3>0, <3>2
        <4>2. k > 1 => g[k - 1] = f[n]
          BY <3>0, <3>2
        <4> QED
          BY <3>0, <4>1, <4>2
      <3> QED
        BY <3>0, <3>1, <3>2
    <2>6. Start(g, n + 1)
      BY <2>4, <2>5 DEF Start
    <2> QED
      BY <2>6 DEF S
  <1> HIDE DEF S
  <1>3. S = Nat
    BY <1>1, <1>2, Induction DEF S
  <1> QED
    BY <1>3 DEF S

LEMMA StartUnique ==
  ASSUME NEW n \in Nat, NEW m \in Nat, NEW f, NEW g, Start(f, n), Start(g, m)
  PROVE  \A k \in Nat : k <= n /\ k <= m => f[k] = g[k]
  <1> DEFINE S == {k \in Nat : k <= n /\ k <= m => f[k] = g[k]}
  <1>1. 0 \in S
    BY DEF Start
  <1>2. ASSUME NEW k \in S PROVE k + 1 \in S
    <2> SUFFICES ASSUME k + 1 <= n, k + 1 <= m PROVE f[k + 1] = g[k + 1]
      OBVIOUS
    <2>1. f[k] = g[k] /\ k \in Nat
      OBVIOUS
    <2>2. /\ f[k + 1] = IF k + 1 <= 1 THEN FirstDelay ELSE After(f[(k + 1) - 1])
          /\ g[k + 1] = IF k + 1 <= 1 THEN FirstDelay ELSE After(g[(k + 1) - 1])
      BY <2>1 DEF Start
    <2>3. (k + 1) - 1 = k
      BY <2>1
    <2> QED
      BY <2>1, <2>2, <2>3
  <1> HIDE DEF S
  <1>3. S = Nat
    BY <1>1, <1>2, Induction DEF S
  <1> QED
    BY <1>3 DEF S

\* The recursion of the schedule has its solution.
LEMMA DoubledIs ==
  Doubled = [n \in Nat |-> IF n <= 1 THEN FirstDelay
                           ELSE IF Doubled[n - 1] >= DelayCap THEN Doubled[n - 1]
                           ELSE 2 * Doubled[n - 1]]
  <1> DEFINE F == [n \in Nat |-> (CHOOSE h : Start(h, n))[n]]
             Eq(h) == h = [n \in Nat |-> IF n <= 1 THEN FirstDelay
                                         ELSE IF h[n - 1] >= DelayCap THEN h[n - 1]
                                         ELSE 2 * h[n - 1]]
  <1>1. ASSUME NEW n \in Nat
        PROVE  F[n] = IF n <= 1 THEN FirstDelay ELSE After(F[n - 1])
    <2>1. PICK h : Start(h, n) /\ F[n] = h[n]
      BY StartExists
    <2>2. CASE n <= 1
      BY <2>1, <2>2 DEF Start
    <2>3. CASE n > 1
      <3>1. n - 1 \in Nat
        BY <2>3
      <3>2. PICK g : Start(g, n - 1) /\ F[n - 1] = g[n - 1]
        BY <3>1, StartExists
      <3>3. g[n - 1] = h[n - 1]
        BY <2>1, <3>1, <3>2, StartUnique
      <3>4. h[n] = After(h[n - 1])
        BY <2>1, <2>3 DEF Start
      <3> QED
        BY <2>1, <2>3, <3>2, <3>3, <3>4
    <2> QED
      BY <2>2, <2>3
  <1>2. F = [n \in Nat |-> IF n <= 1 THEN FirstDelay ELSE After(F[n - 1])]
    <2> HIDE DEF F
    <2>1. F = [n \in Nat |-> F[n]]
      BY DEF F
    <2> QED
      BY <1>1, <2>1
  <1> HIDE DEF F
  <1>3. Eq(F)
    BY <1>2 DEF After
  <1>4. \E h : Eq(h)
    BY <1>3
  <1>5. Doubled = CHOOSE h : Eq(h)
    BY DEF Doubled
  <1> HIDE DEF Eq
  <1>6. Eq(Doubled)
    BY <1>4, <1>5
  <1> QED
    BY <1>6 DEF Eq

\* No delay of the schedule is shorter than the first.
LEMMA NeverShorter == \A n \in Nat : Doubled[n] \in Nat /\ Doubled[n] >= FirstDelay
  <1> DEFINE S == {n \in Nat : Doubled[n] \in Nat /\ Doubled[n] >= FirstDelay}
  <1>1. 0 \in S
    BY DoubledIs, RetryAssumption
  <1>2. ASSUME NEW n \in S PROVE n + 1 \in S
    <2>1. n \in Nat /\ Doubled[n] \in Nat /\ Doubled[n] >= FirstDelay
      OBVIOUS
    <2>2. Doubled[n + 1] \in {FirstDelay, Doubled[n], 2 * Doubled[n]}
      <3>1. n + 1 \in Nat /\ (n + 1) - 1 = n
        BY <2>1
      <3>2. Doubled[n + 1] = IF n + 1 <= 1 THEN FirstDelay
                             ELSE IF Doubled[(n + 1) - 1] >= DelayCap THEN Doubled[(n + 1) - 1]
                             ELSE 2 * Doubled[(n + 1) - 1]
        BY <3>1, DoubledIs
      <3> QED
        BY <3>1, <3>2
    <2> QED
      BY <2>1, <2>2, RetryAssumption
  <1> HIDE DEF S
  <1>3. S = Nat
    BY <1>1, <1>2, Induction DEF S
  <1> QED
    BY <1>3 DEF S

LEMMA DelayIsLong ==
  ASSUME TypeOK, cur \in Msgs, Delay # GiveUp
  PROVE  Delay \in Nat /\ Delay >= ShortestDelay
  <1>1. meta[cur].attempts + 1 \in Nat
    BY DEF TypeOK, SpoolTypeOK, Meta
  <1>2. Delay = Capped(Doubled[meta[cur].attempts + 1])
    BY DEF Delay, NextDelay
  <1>3. \A d \in Nat : d >= FirstDelay => Capped(d) \in Nat /\ Capped(d) >= ShortestDelay
    BY RetryAssumption DEF Capped, ShortestDelay
  <1> QED
    BY <1>1, <1>2, <1>3, NeverShorter

\* Each round so far has put the next one off.
Spaced(m) == meta[m].enqueued + meta[m].attempts * ShortestDelay <= meta[m].next

\* The tick has come no earlier than the entries it has listed are due.
DueBy(m) == m \in batch \/ (m = cur /\ wpc = "deliver") => meta[m].next <= wnow

Spacing ==
  /\ \A m \in Msgs : Spaced(m) /\ DueBy(m)
  /\ cur \notin batch

LEMMA SpacingInit == Init => Spacing
  BY WorkerAssumption, RetryAssumption
  DEF Init, SpoolInit, Spacing, Spaced, DueBy, NoMeta, ShortestDelay

LEMMA SpacingStep == IInv /\ Spacing /\ [Next]_vars => Spacing'
  <1> SUFFICES ASSUME IInv, Spacing, [Next]_vars PROVE Spacing'
    OBVIOUS
  <1>0. /\ TypeOK /\ SpoolTypeOK /\ Registers /\ EntryInHand /\ ShortestDelay \in Nat
        /\ meta \in [Msgs -> Meta] /\ \A m \in Msgs : meta[m].next \in Nat /\ meta[m].enqueued \in Nat
                                                      /\ meta[m].attempts \in Nat
    BY RetryAssumption DEF IInv, TypeOK, SpoolTypeOK, ShortestDelay, Meta
  <1> USE <1>0
  <1>1. ASSUME UNCHANGED <<meta, cur, wnow>>, batch' \subseteq batch, wpc' = "deliver" => wpc = "deliver"
        PROVE  Spacing'
    BY <1>1 DEF Spacing, Spaced, DueBy
  <1>2. ASSUME EndOfTick, UNCHANGED meta
        PROVE  Spacing'
    BY <1>2, WorkerAssumption DEF EndOfTick, Spacing, Spaced, DueBy
  <1>3. ASSUME NEW s \in Msgs, SessionStep(s)
        PROVE  Spacing'
    <2>1. UNCHANGED <<cur, wnow, batch, wpc>>
      BY <1>3 DEF SessionStep, workerVars
    <2>2. CASE meta' = meta
      BY <1>1, <2>1, <2>2
    <2>3. CASE Admit(s)
      <3>1. enq[s] = "new" /\ s \notin batch /\ ~ (s = cur /\ wpc = "deliver")
        BY <2>3 DEF Admit, At, IInv, SessionFiles, EntryInHand, Settled, InHand
      <3>2. PICK T : meta' = [meta EXCEPT ![s] =
                  [pending |-> T, attempts |-> 0, enqueued |-> now, next |-> now]]
        BY <2>3 DEF Admit
      <3>3. meta'[s].enqueued = now /\ meta'[s].attempts = 0 /\ meta'[s].next = now /\ now \in Nat
        BY <3>2 DEF SpoolTypeOK
      <3>4. \A m \in Msgs : m # s => meta'[m] = meta[m]
        BY <3>2
      <3> QED
        BY <2>1, <3>1, <3>3, <3>4 DEF Spacing, Spaced, DueBy
    <2>4. meta' = meta \/ Admit(s)
      BY <1>3 DEF SessionStep, Session, RefuseFull, Commit, StoreBody, StoreBodyFails, CountBody,
         CreateJson, FillJson, WriteJsonFails, Answer
    <2> QED
      BY <2>2, <2>3, <2>4
  <1>4. CASE ListDue
    <2>1. /\ batch' = {m \in Msgs : Whole(m) /\ meta[m].next <= now} /\ wnow' = now
          /\ UNCHANGED <<meta, cur>> /\ wpc' = "next" /\ wpc = "idle"
      BY <1>4 DEF ListDue, KeepSpool, spoolVars
    <2>2. cur = NoMsg
      BY <2>1 DEF Registers, InHand
    <2> QED
      BY <2>1, <2>2, WorkerAssumption DEF Spacing, Spaced, DueBy
  <1>5. ASSUME NEW m \in Msgs, LoadEntry(m)
        PROVE  Spacing'
    BY <1>5 DEF LoadEntry, KeepSpool, spoolVars, Spacing, Spaced, DueBy
  <1>6. CASE SettleRetry
    <2>1. cur \in Msgs /\ wpc = "deliver" /\ Delay # GiveUp
      BY <1>6 DEF SettleRetry, StartRewrite, RoundOver, Registers, InHand
    <2> DEFINE d == wnow + Delay
    <2>2. d \in Nat /\ d >= meta[cur].next + ShortestDelay
      <3>1. Delay \in Nat /\ Delay >= ShortestDelay /\ wnow \in Nat
        BY <2>1, DelayIsLong DEF TypeOK
      <3>2. meta[cur].next <= wnow
        BY <2>1 DEF Spacing, DueBy
      <3> QED
        BY <2>1, <3>1, <3>2
    <2>3. /\ meta' = [meta EXCEPT ![cur].pending = still, ![cur].attempts = @ + 1, ![cur].next = d]
          /\ UNCHANGED <<cur, wnow, batch>> /\ wpc' = "rewrite"
      BY <1>6 DEF SettleRetry, StartRewrite
    <2> HIDE DEF d
    <2>4. /\ meta'[cur].enqueued = meta[cur].enqueued /\ meta'[cur].next = d
          /\ meta'[cur].attempts = meta[cur].attempts + 1
          /\ \A m \in Msgs : m # cur => meta'[m] = meta[m]
      BY <2>1, <2>3 DEF Meta
    <2>5. Spaced(cur)'
      <3>1. Spaced(cur)
        BY <2>1 DEF Spacing
      <3>2. (meta[cur].attempts + 1) * ShortestDelay
              = meta[cur].attempts * ShortestDelay + ShortestDelay
        BY <2>1
      <3> DEFINE p == meta[cur].attempts * ShortestDelay
      <3>3. p \in Nat
        BY <2>1
      <3>4. meta[cur].enqueued + p <= meta[cur].next
        BY <3>1 DEF Spaced
      <3>5. (meta[cur].attempts + 1) * ShortestDelay = p + ShortestDelay
        BY <3>2
      <3> HIDE DEF p
      <3>6. meta[cur].enqueued + (p + ShortestDelay) <= d
        BY <2>1, <2>2, <3>3, <3>4
      <3>7. meta'[cur].enqueued + meta'[cur].attempts * ShortestDelay <= meta'[cur].next
        BY <2>4, <3>5, <3>6
      <3> QED
        BY <2>3, <3>7 DEF Spaced
    <2> QED
      BY <2>1, <2>3, <2>4, <2>5 DEF Spacing, Spaced, DueBy
  <1>7. CASE UnlinkJson
    <2>1. cur \in Msgs /\ wpc = "unlinkJson" /\ UNCHANGED <<wnow, batch>> /\ cur' = NoMsg /\ wpc' = "next"
      BY <1>7 DEF UnlinkJson, Registers, InHand
    <2>2. meta' = meta \/ meta' = [meta EXCEPT ![cur] = NoMeta]
      BY <1>7 DEF UnlinkJson
    <2>3. \A m \in Msgs : meta'[m] = meta[m] \/ meta'[m] = NoMeta
      BY <2>1, <2>2
    <2>4. wnow \in Nat /\ NoMeta.enqueued = 0 /\ NoMeta.attempts = 0 /\ NoMeta.next = 0
      BY DEF NoMeta, TypeOK
    <2>5. NoMsg \notin batch
      BY WorkerAssumption DEF TypeOK
    <2> QED
      BY <2>1, <2>3, <2>4, <2>5 DEF Spacing, Spaced, DueBy
  <1>8. CASE Rewritten
    BY <1>8, WorkerAssumption DEF Rewritten, Spacing, Spaced, DueBy, TypeOK
  <1>9. CASE Restart
    BY <1>2, <1>9 DEF Restart, RestartSpool
  <1>10. CASE FinishTick \/ SettleFails
    BY <1>2, <1>10 DEF FinishTick, SettleFails, KeepSpool, spoolVars
  <1>11. CASE \/ IdleTick \/ (\E m \in Msgs : SkipEntry(m))
              \/ (\E t \in Targets : Delivered(t) \/ Failed(t) \/ Unconfigured(t))
              \/ SettleDone \/ SettleGiveUp \/ FreeBytes \/ UnlinkEml \/ Clock \/ UNCHANGED vars
    BY <1>1, <1>11
    DEF IdleTick, SkipEntry, Delivered, Failed, Unconfigured, SettleDone, SettleGiveUp, FreeBytes,
        UnlinkEml, Clock, Passes, vars, spoolVars, workerVars, KeepSpool
  <1> QED
    BY <1>3, <1>4, <1>5, <1>6, <1>7, <1>8, <1>9, <1>10, <1>11 DEF Next, Tick

\* Each failed round puts the next one off by the first delay of the schedule
\* at least (next_delay in send/retry.rs), from the time of its own tick, which
\* was never early (list_due in spool.rs, next_retry_unix in worker.rs).
THEOREM RetriesAreSpaced == Spec => []RetriesSpaced
  <1>1. Init => IInv /\ Spacing
    BY InitKept, SpacingInit
  <1>2. IInv /\ Spacing /\ [Next]_vars => (IInv /\ Spacing)'
    BY IInvStep, SpacingStep
  <1>3. Spacing => RetriesSpaced
    BY DEF Spacing, Spaced, RetriesSpaced
  <1> QED
    BY <1>1, <1>2, <1>3, PTL DEF Spec

------------------------------------------------------------------------------
(***************************************************************************)
(* The byte count.  Spool.used is a machine word that is read as the       *)
(* number u it stands for: a body whose removal failed after its bytes     *)
(* were given back is given back again, and may take u below zero.         *)
(***************************************************************************)

\* The word has room for the cap, a body for each session and failure, and one
\* more: a u64 counts more bytes than any disk holds.
RoomInWord == Msgs # {} /\ MaxBytes + (MaxSessions + MaxFaults + 1) * Largest < WordSize

Word(u) == IF u >= 0 THEN u ELSE u + WordSize

LEMMA AddWord ==
  ASSUME NEW u \in Int, NEW n \in Nat, 0 <= u + WordSize, u + n < WordSize
  PROVE  WrapAdd(Word(u), n) = Word(u + n)
  BY SpoolAssumption DEF WrapAdd, Word

LEMMA SubWord ==
  ASSUME NEW u \in Int, NEW n \in Nat, u < WordSize, 0 <= u - n + WordSize
  PROVE  WrapSub(Word(u), n) = Word(u - n)
  BY SpoolAssumption DEF WrapSub, Word

LEMMA LargestIs ==
  ASSUME Msgs # {}
  PROVE  Largest \in Nat /\ \A m \in Msgs : Size[m] \in Nat /\ Size[m] <= Largest
  <1> DEFINE S == {Size[m] : m \in Msgs}
             B == {n \in Nat : \A m \in Msgs : Size[m] <= n}
  <1>1. IsFiniteSet(Msgs) /\ \A m \in Msgs : Size[m] \in Nat /\ Size[m] > 0
    BY SpoolAssumption
  <1>2. SumFunctionOnSet(Size, Msgs) \in B
    <2>1. SumFunctionOnSet(Size, Msgs) \in Nat
      BY <1>1, SumType
    <2>2. ASSUME NEW m \in Msgs PROVE Size[m] <= SumFunctionOnSet(Size, Msgs)
      <3>1. SumFunctionOnSet(Size, Msgs) = Size[m] + SumFunctionOnSet(Size, Msgs \ {m})
        BY <1>1, SumSplit
      <3>2. SumFunctionOnSet(Size, Msgs \ {m}) \in Nat
        BY <1>1, FS_RemoveElement, SumType
      <3> QED
        BY <1>1, <3>1, <3>2
    <2> QED
      BY <2>1, <2>2
  <1>3. PICK b \in B : \A j \in B : b <= j
    BY <1>2, Least
  <1>4. b \in S
    <2> SUFFICES ASSUME \A m \in Msgs : Size[m] # b PROVE FALSE
      OBVIOUS
    <2>1. \A m \in Msgs : Size[m] <= b - 1
      BY <1>1
    <2>2. b - 1 \in Nat
      BY <1>1, <2>1
    <2> QED
      BY <1>3, <2>1, <2>2
  <1>5. \E n \in S : \A m \in Msgs : Size[m] <= n
    BY <1>4
  <1>6. Largest \in S /\ \A m \in Msgs : Size[m] <= Largest
    BY <1>5 DEF Largest
  <1> QED
    BY <1>1, <1>6

\* Bodies of sessions: written and not counted yet, and of all that are still
\* to be counted.  The check let each of the latter pass.
Stored == {m \in Msgs : enq[m] = "stored"}
Uncounted == {m \in Msgs : enq[m] \in {"admitted", "stored"}}
Working == {m \in Msgs : enq[m] \in InEnqueue}

StoredBytes == SizeOfAll(Stored)
UncountedBytes == SizeOfAll(Uncounted)

\* The body the worker has given back and not removed yet.
Freed == IF wpc = "unlinkEml" THEN eml[cur] ELSE 0

\* u is what `used` stands for; the disk may hold A bytes more than it, and the
\* check may have been B bytes too kind, for the failures so far.
Counts(u, A, B) ==
  /\ A + B <= faults * Largest
  /\ used = Word(u)
  /\ SpooledBytes <= u + StoredBytes + Freed + A
  /\ u + UncountedBytes + Freed <= MaxBytes + MaxSessions * Largest + B
  /\ faults = 0 => SpooledBytes = u + StoredBytes + Freed

Counting ==
  /\ Cardinality(Working) <= MaxSessions
  /\ faults <= MaxFaults
  /\ IsCapped => \E u \in Int, A, B \in Nat : Counts(u, A, B)

\* What the sums are of.
LEMMA Weights ==
  ASSUME IInv, Msgs # {}
  PROVE  /\ \A S \in SUBSET Msgs : SizeOfAll(S) \in Nat
         /\ StoredBytes \in Nat /\ UncountedBytes \in Nat /\ SpooledBytes \in Nat
         /\ Freed \in Nat /\ Freed <= Largest
         /\ StoredBytes <= UncountedBytes
         /\ StoredBytes + Freed <= SpooledBytes
  <1>1. IsFiniteSet(Msgs) /\ \A m \in Msgs : Size[m] \in Nat
    BY SpoolAssumption
  <1>2. \A m \in Msgs : eml[m] \in Nat /\ eml[m] <= Size[m] /\ eml[m] <= Largest
    BY <1>1, LargestIs DEF IInv, TypeOK, SpoolTypeOK
  <1>3. \A S \in SUBSET Msgs : IsFiniteSet(S) /\ SizeOfAll(S) \in Nat
    BY <1>1, FS_Subset, SumType DEF SizeOfAll
  <1>4. Stored \in SUBSET Msgs /\ Uncounted \in SUBSET Msgs /\ Stored \in SUBSET Uncounted
    BY DEF Stored, Uncounted
  <1>5. SpooledBytes \in Nat
    BY <1>1, <1>2, SumType DEF SpooledBytes
  <1>6. wpc = "unlinkEml" => cur \in Msgs /\ enq[cur] # "stored"
    BY DEF IInv, Registers, InHand, EntryInHand, Settled
  <1>7. Freed \in Nat /\ Freed <= Largest
    BY <1>2, <1>6, LargestIs DEF Freed
  <1>8. StoredBytes <= UncountedBytes
    <2>1. IsFiniteSet(Uncounted) /\ \A m \in Uncounted : Size[m] \in Nat
      BY <1>1, <1>3, <1>4
    <2> QED
      BY <1>4, <2>1, SumOfPart DEF StoredBytes, UncountedBytes, SizeOfAll
  <1>9. StoredBytes + Freed <= SpooledBytes
    <2>1. StoredBytes = SumFunctionOnSet(eml, Stored)
      <3>1. \A m \in Stored : Size[m] = eml[m]
        BY DEF Stored, IInv, SessionFiles
      <3> QED
        BY <1>3, <1>4, <3>1, SumAgrees DEF StoredBytes, SizeOfAll
    <2>2. \A S \in SUBSET Msgs : SumFunctionOnSet(eml, S) <= SpooledBytes
      BY <1>1, <1>2, SumOfPart DEF SpooledBytes
    <2>3. CASE wpc = "unlinkEml"
      <3> DEFINE R == Stored \cup {cur}
      <3>1. R \in SUBSET Msgs /\ cur \in R /\ R \ {cur} = Stored
        BY <1>4, <1>6, <2>3 DEF Stored
      <3> HIDE DEF R
      <3>2. SumFunctionOnSet(eml, R) = eml[cur] + SumFunctionOnSet(eml, Stored)
        BY <1>2, <1>3, <3>1, SumSplit
      <3>3. SumFunctionOnSet(eml, R) <= SpooledBytes
        BY <2>2, <3>1
      <3>4. SumFunctionOnSet(eml, Stored) \in Nat /\ eml[cur] \in Nat
        BY <1>2, <1>3, <1>4, <1>6, <2>1, <2>3 DEF StoredBytes
      <3> QED
        BY <1>5, <2>1, <2>3, <3>2, <3>3, <3>4 DEF Freed
    <2>4. CASE wpc # "unlinkEml"
      BY <1>3, <1>4, <1>5, <2>1, <2>2, <2>4 DEF Freed, StoredBytes
    <2> QED
      BY <2>3, <2>4
  <1>10. StoredBytes \in Nat /\ UncountedBytes \in Nat
    BY <1>3, <1>4 DEF StoredBytes, UncountedBytes
  <1> QED
    BY <1>3, <1>5, <1>7, <1>8, <1>9, <1>10

\* A session leaves or enters a set of sessions, and takes its bytes with it.
LEMMA OneMore ==
  ASSUME NEW S \in SUBSET Msgs, NEW m \in Msgs, m \notin S
  PROVE  SizeOfAll(S \cup {m}) = SizeOfAll(S) + Size[m]
  <1> DEFINE R == S \cup {m}
  <1>1. IsFiniteSet(Msgs) /\ R \in SUBSET Msgs /\ m \in R /\ R \ {m} = S
    BY SpoolAssumption
  <1> HIDE DEF R
  <1>2. IsFiniteSet(R) /\ IsFiniteSet(S) /\ \A x \in R : Size[x] \in Nat
    BY <1>1, FS_Subset, SpoolAssumption
  <1>3. SumFunctionOnSet(Size, R) = Size[m] + SumFunctionOnSet(Size, S)
    BY <1>1, <1>2, SumSplit
  <1>4. SumFunctionOnSet(Size, S) \in Nat /\ Size[m] \in Nat
    BY <1>1, <1>2, SumType
  <1> QED
    BY <1>3, <1>4 DEF R, SizeOfAll

\* One file changes, and the disk by as much.
LEMMA OneFile ==
  ASSUME TypeOK, TypeOK', NEW m \in Msgs, \A n \in Msgs \ {m} : eml'[n] = eml[n],
         NEW a \in Nat, NEW b \in Nat, eml[m] = a, eml'[m] = b
  PROVE  /\ SpooledBytes \in Nat /\ SpooledBytes' \in Nat
         /\ SpooledBytes + b = SpooledBytes' + a
  <1>1. IsFiniteSet(Msgs) /\ \A n \in Msgs : eml[n] \in Nat /\ eml'[n] \in Nat
    BY SpoolAssumption DEF TypeOK, SpoolTypeOK
  <1>2. PICK f : f = eml'
    OBVIOUS
  <1>3. SumFunctionOnSet(eml, Msgs) + f[m] = SumFunctionOnSet(f, Msgs) + eml[m]
    BY <1>1, <1>2, SumChanges
  <1>4. SumFunctionOnSet(eml, Msgs) \in Nat /\ SumFunctionOnSet(f, Msgs) \in Nat
    BY <1>1, <1>2, SumType
  <1>5. f[m] = b /\ SpooledBytes = SumFunctionOnSet(eml, Msgs)
        /\ SpooledBytes' = SumFunctionOnSet(f, Msgs)
    BY <1>2 DEF SpooledBytes
  <1> QED
    BY <1>3, <1>4, <1>5

LEMMA CountBounds ==
  ASSUME RoomInWord, IInv, faults <= MaxFaults, NEW u \in Int, NEW A \in Nat, NEW B \in Nat, Counts(u, A, B)
  PROVE  /\ Largest \in Nat /\ faults * Largest \in Nat /\ MaxSessions * Largest \in Nat
         /\ u + UncountedBytes + Freed + Largest < WordSize
         /\ Largest <= u + WordSize
  <1> DEFINE L == Largest
             F == faults * L
             MF == MaxFaults * L
             MS == MaxSessions * L
  <1>1. L \in Nat /\ faults \in Nat /\ MaxFaults \in Nat /\ MaxSessions \in Nat /\ MaxBytes \in Nat
        /\ WordSize \in Nat
    BY LargestIs, SpoolAssumption DEF RoomInWord, IInv, TypeOK, SpoolTypeOK
  <1>2. F \in Nat /\ MF \in Nat /\ MS \in Nat
    BY <1>1
  <1>3. F <= MF
    <2>1. PICK d \in Nat : MaxFaults = faults + d
      <3>1. MaxFaults - faults \in Nat /\ MaxFaults = faults + (MaxFaults - faults)
        BY <1>1
      <3> QED
        BY <3>1
    <2>2. MF = F + d * L /\ d * L \in Nat
      BY <1>1, <2>1
    <2> QED
      BY <1>2, <2>2
  <1>4. MaxBytes + MS + MF + L < WordSize
    <2>1. (MaxSessions + MaxFaults + 1) * L = MS + MF + L
      BY <1>1
    <2> QED
      BY <1>1, <1>2, <2>1 DEF RoomInWord
  <1>5. /\ StoredBytes \in Nat /\ UncountedBytes \in Nat /\ SpooledBytes \in Nat /\ Freed \in Nat
        /\ StoredBytes + Freed <= SpooledBytes
    BY Weights DEF RoomInWord
  <1>6. /\ A + B <= F
        /\ SpooledBytes <= u + StoredBytes + Freed + A
        /\ u + UncountedBytes + Freed <= MaxBytes + MS + B
    BY DEF Counts
  <1> HIDE DEF L, F, MF, MS
  <1>7. u + UncountedBytes + Freed + L < WordSize
    BY <1>1, <1>2, <1>3, <1>4, <1>5, <1>6
  <1>8. L <= u + WordSize
    BY <1>1, <1>2, <1>3, <1>4, <1>5, <1>6
  <1> QED
    BY <1>1, <1>2, <1>7, <1>8 DEF L, F, MS

LEMMA FaultBytes ==
  ASSUME RoomInWord, IInv, faults <= MaxFaults, faults' = faults \/ Fault
  PROVE  /\ faults * Largest \in Nat /\ faults' * Largest \in Nat
         /\ faults * Largest <= faults' * Largest /\ faults' <= MaxFaults
         /\ faults' = faults \/ (faults' * Largest = faults * Largest + Largest /\ faults' # 0)
  <1>1. Largest \in Nat /\ faults \in Nat /\ MaxFaults \in Nat
    BY LargestIs, SpoolAssumption DEF RoomInWord, IInv, TypeOK, SpoolTypeOK
  <1>2. (faults + 1) * Largest = faults * Largest + Largest /\ faults * Largest \in Nat
    BY <1>1
  <1> QED
    BY <1>1, <1>2 DEF Fault

\* Nothing that is counted moves.
LEMMA CountStays ==
  ASSUME RoomInWord, IInv, Counting, faults' = faults \/ Fault,
         UNCHANGED <<used, SpooledBytes, StoredBytes, UncountedBytes, Freed>>,
         Cardinality(Working)' <= MaxSessions
  PROVE  Counting'
  <1>1. faults' <= MaxFaults /\ faults * Largest <= faults' * Largest
        /\ faults * Largest \in Nat /\ faults' * Largest \in Nat /\ (faults' = 0 => faults = 0)
    BY FaultBytes DEF Counting, IInv, TypeOK, SpoolTypeOK
  <1>2. ASSUME NEW u \in Int, NEW A \in Nat, NEW B \in Nat, Counts(u, A, B)
        PROVE  Counts(u, A, B)'
    <2>1. A + B <= faults' * Largest
      <3> DEFINE F == faults * Largest
                 G == faults' * Largest
      <3>1. A + B <= F /\ F <= G /\ F \in Nat /\ G \in Nat
        BY <1>1, <1>2 DEF Counts
      <3> HIDE DEF F, G
      <3>2. A + B <= G
        BY <3>1
      <3> QED
        BY <3>2 DEF G
    <2> QED
      BY <1>1, <1>2, <2>1 DEF Counts
  <1>3. IsCapped => \E u \in Int, A, B \in Nat : Counts(u, A, B)'
    BY <1>2 DEF Counting
  <1>4. IsCapped' <=> IsCapped
    BY DEF IsCapped
  <1> QED
    BY <1>1, <1>3, <1>4 DEF Counting

\* The sessions of a step in which one of them moves.
LEMMA SessionSets ==
  ASSUME TypeOK, NEW m \in Msgs, NEW p, enq' = [enq EXCEPT ![m] = p]
  PROVE  /\ Stored' = IF p = "stored" THEN Stored \cup {m} ELSE Stored \ {m}
         /\ Uncounted' = IF p \in {"admitted", "stored"} THEN Uncounted \cup {m} ELSE Uncounted \ {m}
         /\ Working' = IF p \in InEnqueue THEN Working \cup {m} ELSE Working \ {m}
  BY DEF TypeOK, SpoolTypeOK, Stored, Uncounted, Working

\* ... and how many are at work.
LEMMA WorkingBounded ==
  ASSUME TypeOK, Cardinality(Working) <= MaxSessions, NEW m \in Msgs, NEW p,
         enq' = [enq EXCEPT ![m] = p],
         p \in InEnqueue => enq[m] \in InEnqueue \/ Cardinality(Working) < MaxSessions
  PROVE  Cardinality(Working)' <= MaxSessions
  <1>1. IsFiniteSet(Working) /\ Cardinality(Working) \in Nat /\ MaxSessions \in Nat
    BY SpoolAssumption, FS_Subset, FS_CardinalityType DEF Working
  <1>2. Working' = IF p \in InEnqueue THEN Working \cup {m} ELSE Working \ {m}
    BY SessionSets
  <1>3. PICK W : W = Working'
    OBVIOUS
  <1>4. Cardinality(W) <= MaxSessions
    <2>1. CASE m \in Working
      <3>1. W \subseteq Working
        BY <1>2, <1>3, <2>1
      <3>2. Cardinality(W) <= Cardinality(Working) /\ IsFiniteSet(W)
        BY <1>1, <3>1, FS_Subset
      <3>3. Cardinality(W) \in Nat
        BY <3>2, FS_CardinalityType
      <3> QED
        BY <1>1, <3>2, <3>3
    <2>2. CASE m \notin Working /\ p \in InEnqueue
      <3>1. W = Working \cup {m} /\ enq[m] \notin InEnqueue
        BY <1>2, <1>3, <2>2 DEF Working
      <3>2. Cardinality(W) = Cardinality(Working) + 1
        BY <1>1, <2>2, <3>1, FS_AddElement
      <3> QED
        BY <1>1, <2>2, <3>1, <3>2
    <2>3. CASE m \notin Working /\ p \notin InEnqueue
      BY <1>2, <1>3, <2>3
    <2> QED
      BY <2>1, <2>2, <2>3
  <1> QED
    BY <1>3, <1>4

\* The bytes of a set of sessions that one joins or leaves.
LEMMA SetBytes ==
  ASSUME NEW m \in Msgs
  PROVE  /\ Stored' = Stored => StoredBytes' = StoredBytes
         /\ m \notin Stored /\ Stored' = Stored \cup {m} => StoredBytes' = StoredBytes + Size[m]
         /\ m \notin Stored' /\ Stored = Stored' \cup {m} => StoredBytes = StoredBytes' + Size[m]
         /\ Uncounted' = Uncounted => UncountedBytes' = UncountedBytes
         /\ m \notin Uncounted /\ Uncounted' = Uncounted \cup {m} =>
              UncountedBytes' = UncountedBytes + Size[m]
         /\ m \notin Uncounted' /\ Uncounted = Uncounted' \cup {m} =>
              UncountedBytes = UncountedBytes' + Size[m]
  <1>1. PICK S : S = Stored'
    OBVIOUS
  <1>2. PICK U : U = Uncounted'
    OBVIOUS
  <1>3. StoredBytes' = SizeOfAll(S) /\ UncountedBytes' = SizeOfAll(U)
    BY <1>1, <1>2 DEF StoredBytes, UncountedBytes, SizeOfAll
  <1>4. /\ Stored \in SUBSET Msgs /\ Uncounted \in SUBSET Msgs
        /\ S \in SUBSET Msgs /\ U \in SUBSET Msgs
    BY <1>1, <1>2 DEF Stored, Uncounted
  <1>5. /\ S = Stored => StoredBytes' = StoredBytes
        /\ U = Uncounted => UncountedBytes' = UncountedBytes
    BY <1>3 DEF StoredBytes, UncountedBytes
  <1>6. /\ m \notin Stored /\ S = Stored \cup {m} => SizeOfAll(S) = SizeOfAll(Stored) + Size[m]
        /\ m \notin Uncounted /\ U = Uncounted \cup {m} => SizeOfAll(U) = SizeOfAll(Uncounted) + Size[m]
    BY <1>4, OneMore
  <1>7. /\ m \notin S /\ Stored = S \cup {m} => SizeOfAll(Stored) = SizeOfAll(S) + Size[m]
        /\ m \notin U /\ Uncounted = U \cup {m} => SizeOfAll(Uncounted) = SizeOfAll(U) + Size[m]
    BY <1>4, OneMore
  <1> QED
    BY <1>1, <1>2, <1>3, <1>5, <1>6, <1>7 DEF StoredBytes, UncountedBytes

LEMMA WeightTypes ==
  IInv /\ Msgs # {} => StoredBytes \in Nat /\ UncountedBytes \in Nat /\ SpooledBytes \in Nat
  BY Weights

LEMMA WeightTypesNext ==
  (IInv /\ Msgs # {} => StoredBytes \in Nat /\ UncountedBytes \in Nat /\ SpooledBytes \in Nat)'
  BY WeightTypes, PTL

\* The sessions: a body is checked, written, and counted.
LEMMA SessionCounts ==
  ASSUME RoomInWord, IInv, IInv', Counting, NEW m \in Msgs, SessionStep(m)
  PROVE  Counting'
  <1>0. /\ TypeOK /\ SpoolTypeOK /\ UNCHANGED <<wpc, cur>> /\ Session(m)
        /\ faults \in Nat /\ faults' \in Nat
        /\ wpc = "unlinkEml" => enq[cur] \in Settled /\ cur \in Msgs
    BY DEF IInv, TypeOK, SpoolTypeOK, SessionStep, workerVars, EntryInHand, InHand, Registers
  <1>1. faults <= MaxFaults /\ Cardinality(Working) <= MaxSessions /\ (IsCapped' <=> IsCapped)
    BY DEF Counting, IsCapped
  <1>2. Size[m] \in Nat /\ Size[m] <= Largest /\ Largest \in Nat
    BY LargestIs DEF RoomInWord
  <1>3. enq[m] \notin Settled \/ (enq[m] = "spooled" /\ UNCHANGED <<eml, used, faults>>)
    BY <1>0 DEF Session, Admit, RefuseFull, Commit, StoreBody, StoreBodyFails, CountBody,
       CreateJson, FillJson, WriteJsonFails, Answer, Settled, At
  <1>4. Freed' = Freed
    <2>1. \A n \in Msgs : n # m => eml'[n] = eml[n]
      BY <1>0 DEF Session, Admit, RefuseFull, Commit, StoreBody, StoreBodyFails, CountBody,
         CreateJson, FillJson, WriteJsonFails, Answer, SpoolTypeOK
    <2> QED
      BY <1>0, <1>3, <2>1 DEF Freed
  <1> USE <1>0, <1>1, <1>2
  <1>5. /\ StoredBytes \in Nat /\ UncountedBytes \in Nat /\ SpooledBytes \in Nat /\ Freed \in Nat
        /\ Freed <= Largest
    BY Weights DEF RoomInWord
  <1>6. CASE Admit(m)
    <2>1. enq' = [enq EXCEPT ![m] = "admitted"] /\ enq[m] = "new" /\ Cardinality(Working) < MaxSessions
          /\ UNCHANGED <<eml, used, faults>>
      BY <1>6 DEF Admit, At, Goto, Working
    <2>2. Cardinality(Working)' <= MaxSessions
      BY <2>1, WorkingBounded
    <2>3. StoredBytes' = StoredBytes /\ UncountedBytes' = UncountedBytes + Size[m]
      <3>1. Stored' = Stored /\ m \notin Uncounted /\ Uncounted' = Uncounted \cup {m}
        BY <2>1 DEF Stored, Uncounted, SpoolTypeOK
      <3> QED
        BY <3>1, SetBytes
    <2>4. SpooledBytes' = SpooledBytes
      BY <2>1 DEF SpooledBytes
    <2>5. UncountedBytes + Freed <= MaxSessions * Largest
          /\ UncountedBytes + Size[m] + Freed <= MaxSessions * Largest + Size[m]
          /\ UncountedBytes + Freed + 0 <= MaxSessions * Largest
      <3>1. /\ IsFiniteSet(Msgs) /\ \A n \in Msgs : Size[n] \in 0 .. Largest
            /\ Uncounted \in SUBSET Msgs /\ Uncounted \subseteq Working /\ Working \in SUBSET Msgs
        BY LargestIs, SpoolAssumption DEF RoomInWord, Uncounted, Working, InEnqueue
      <3>2. UncountedBytes <= Cardinality(Uncounted) * Largest
        BY <3>1, SumBounded DEF UncountedBytes, SizeOfAll
      <3>3. /\ Cardinality(Uncounted) \in Nat /\ Cardinality(Working) \in Nat /\ MaxSessions \in Nat
            /\ Cardinality(Uncounted) <= Cardinality(Working)
        BY <3>1, FS_Subset, FS_CardinalityType, SpoolAssumption
      <3>4. PICK d \in Nat : MaxSessions = Cardinality(Uncounted) + 1 + d
        <4>1. MaxSessions - Cardinality(Uncounted) - 1 \in Nat
              /\ MaxSessions = Cardinality(Uncounted) + 1 + (MaxSessions - Cardinality(Uncounted) - 1)
          BY <2>1, <3>3
        <4> QED
          BY <4>1
      <3> DEFINE k == Cardinality(Uncounted)
      <3>5. MaxSessions * Largest = k * Largest + Largest + d * Largest
            /\ k * Largest \in Nat /\ d * Largest \in Nat
        BY <3>3, <3>4
      <3> DEFINE P == k * Largest
                 D == d * Largest
      <3>6. MaxSessions * Largest = P + Largest + D /\ P \in Nat /\ D \in Nat /\ UncountedBytes <= P
        BY <3>2, <3>5
      <3> HIDE DEF P, D
      <3> QED
        BY <1>5, <3>6
    <2>6. ASSUME IsCapped, NEW u \in Int, NEW A \in Nat, NEW B \in Nat, Counts(u, A, B)
          PROVE  Counts(u, A, B)'
      <3>1. /\ u + UncountedBytes + Freed + Largest < WordSize /\ Largest <= u + WordSize
            /\ MaxSessions * Largest \in Nat
        BY <2>6, CountBounds
      <3>2. WrapAdd(used, Size[m]) = Word(u + Size[m]) /\ WrapAdd(used, Size[m]) <= MaxBytes
        <4>1. 0 <= u + WordSize /\ u + Size[m] < WordSize
          BY <1>5, <3>1, SpoolAssumption
        <4>2. WrapAdd(Word(u), Size[m]) = Word(u + Size[m])
          BY <4>1, AddWord
        <4>3. used = Word(u)
          BY <2>6 DEF Counts
        <4>4. ~ (WrapAdd(used, Size[m]) > MaxBytes)
          BY <1>6, <2>6 DEF Admit
        <4>5. WrapAdd(used, Size[m]) \in Int /\ MaxBytes \in Int
          BY <1>5, <3>1, <4>2, <4>3, SpoolAssumption DEF Word
        <4> QED
          BY <4>2, <4>3, <4>4, <4>5
      <3>3. u + Size[m] <= MaxBytes
        BY <3>2, SpoolAssumption DEF Word
      <3> DEFINE MS == MaxSessions * Largest
      <3>4. u + UncountedBytes' + Freed' <= MaxBytes + MS + B
        <4>1. MS \in Nat /\ MaxBytes \in Nat /\ UncountedBytes + Freed <= MS
          BY <2>5, <3>1, SpoolAssumption
        <4> HIDE DEF MS
        <4> QED
          BY <1>4, <1>5, <2>3, <3>3, <4>1
      <3> HIDE DEF MS
      <3>5. /\ A + B <= faults * Largest
            /\ used = Word(u)
            /\ SpooledBytes <= u + StoredBytes + Freed + A
            /\ faults = 0 => SpooledBytes = u + StoredBytes + Freed
        BY <2>6 DEF Counts
      <3> QED
        BY <1>4, <2>1, <2>3, <2>4, <3>4, <3>5 DEF Counts, MS
    <2> QED
      BY <2>1, <2>2, <2>6 DEF Counting
  <1>7. CASE StoreBody(m)
    <2>1. enq' = [enq EXCEPT ![m] = "stored"] /\ enq[m] = "admitted" /\ UNCHANGED <<used, faults>>
          /\ eml' = [eml EXCEPT ![m] = Size[m]] /\ eml[m] = 0
      BY <1>7 DEF StoreBody, At, Goto, IInv, SessionFiles
    <2>2. Cardinality(Working)' <= MaxSessions
      BY <2>1, WorkingBounded DEF InEnqueue
    <2>3. StoredBytes' = StoredBytes + Size[m] /\ UncountedBytes' = UncountedBytes
      <3>1. Uncounted' = Uncounted /\ m \notin Stored /\ Stored' = Stored \cup {m}
        BY <2>1 DEF Stored, Uncounted, SpoolTypeOK
      <3> QED
        BY <3>1, SetBytes
    <2>4. SpooledBytes' = SpooledBytes + Size[m]
      <3>1. eml'[m] = Size[m] /\ \A n \in Msgs \ {m} : eml'[n] = eml[n]
        BY <2>1 DEF SpoolTypeOK
      <3>2. SpooledBytes + Size[m] = SpooledBytes' + 0 /\ SpooledBytes' \in Nat
        BY <2>1, <3>1, OneFile DEF IInv
      <3> QED
        BY <3>2
    <2>5. ASSUME NEW u \in Int, NEW A \in Nat, NEW B \in Nat, Counts(u, A, B)
          PROVE  Counts(u, A, B)'
      BY <1>4, <1>5, <2>1, <2>3, <2>4, <2>5 DEF Counts
    <2> QED
      BY <2>1, <2>2, <2>5 DEF Counting
  <1>8. CASE StoreBodyFails(m)
    <2>1. PICK k \in 0 .. Size[m] - 1 : eml' = [eml EXCEPT ![m] = k]
      BY <1>8 DEF StoreBodyFails
    <2>2. enq' = [enq EXCEPT ![m] = "refused"] /\ enq[m] = "admitted" /\ UNCHANGED used /\ Fault
          /\ eml[m] = 0 /\ k \in Nat /\ k <= Largest
      BY <1>8, <2>1 DEF StoreBodyFails, At, Goto, IInv, SessionFiles
    <2>3. Cardinality(Working)' <= MaxSessions
      BY <2>2, WorkingBounded DEF InEnqueue
    <2>4. StoredBytes' = StoredBytes /\ UncountedBytes = UncountedBytes' + Size[m]
      <3>1. Stored' = Stored /\ m \notin Uncounted' /\ Uncounted = Uncounted' \cup {m}
        BY <2>2 DEF Stored, Uncounted, SpoolTypeOK
      <3> QED
        BY <3>1, SetBytes
    <2>5. UncountedBytes' \in Nat /\ SpooledBytes' \in Nat
      BY WeightTypesNext DEF RoomInWord
    <2>6. SpooledBytes' = SpooledBytes + k
      <3>1. eml'[m] = k /\ eml[m] = 0 /\ k \in Nat /\ \A n \in Msgs \ {m} : eml'[n] = eml[n]
        BY <2>1, <2>2 DEF SpoolTypeOK
      <3>2. SpooledBytes + k = SpooledBytes' + 0 /\ SpooledBytes' \in Nat
        BY <3>1, OneFile DEF IInv
      <3> QED
        BY <3>2
    <2>7. /\ faults * Largest \in Nat /\ faults' * Largest = faults * Largest + Largest
          /\ faults' <= MaxFaults /\ faults' # 0
      BY <2>2, FaultBytes DEF Fault
    <2>8. ASSUME NEW u \in Int, NEW A \in Nat, NEW B \in Nat, Counts(u, A, B)
          PROVE  Counts(u, A + Largest, B)'
      <3>1. A + B <= faults * Largest /\ used = Word(u)
            /\ SpooledBytes <= u + StoredBytes + Freed + A
            /\ u + UncountedBytes + Freed <= MaxBytes + MaxSessions * Largest + B
        BY <2>8 DEF Counts
      <3> DEFINE F == faults * Largest
                 G == faults' * Largest
                 MS == MaxBytes + MaxSessions * Largest
      <3>2. F \in Nat /\ G = F + Largest /\ A + B <= F /\ MS \in Nat /\ u + UncountedBytes + Freed <= MS + B
        <4>1. F \in Nat /\ G = F + Largest /\ A + B <= F
          BY <2>7, <3>1
        <4>2. MaxSessions * Largest \in Nat /\ MaxBytes \in Nat
          BY <2>8, CountBounds, SpoolAssumption
        <4>3. MS \in Nat /\ u + UncountedBytes + Freed <= MS + B
          <5> DEFINE P == MaxSessions * Largest
          <5>1. P \in Nat /\ u + UncountedBytes + Freed <= MaxBytes + P + B
            BY <3>1, <4>2
          <5> QED
            BY <4>2, <5>1
        <4> QED
          BY <4>1, <4>3
      <3> HIDE DEF F, G, MS
      <3>3. (A + Largest) + B <= G
        BY <3>2
      <3>4. SpooledBytes' <= u + StoredBytes' + Freed' + (A + Largest)
        BY <1>4, <1>5, <2>2, <2>4, <2>6, <3>1
      <3>5. u + UncountedBytes' + Freed' <= MS + B
        <4>1. UncountedBytes' <= UncountedBytes
          BY <1>5, <2>4, <2>5
        <4>2. u + UncountedBytes + Freed <= MS + B /\ MS \in Nat /\ Freed' = Freed
          BY <1>4, <3>2
        <4>3. \A a, b, c, d \in Int : a <= b /\ u + b + c <= d => u + a + c <= d
          BY <2>8
        <4>4. UncountedBytes \in Int /\ UncountedBytes' \in Int /\ Freed \in Int /\ MS + B \in Int
          BY <1>5, <2>5, <4>2
        <4> QED
          BY <4>1, <4>2, <4>3, <4>4
      <3> QED
        BY <2>2, <2>7, <3>1, <3>3, <3>4, <3>5 DEF Counts, G, MS
    <2>9. ASSUME NEW A \in Nat PROVE A + Largest \in Nat
      OBVIOUS
    <2> QED
      BY <2>3, <2>7, <2>8, <2>9 DEF Counting
  <1>9. CASE CountBody(m)
    <2>1. enq' = [enq EXCEPT ![m] = "counted"] /\ enq[m] = "stored" /\ UNCHANGED <<eml, faults>>
          /\ (IsCapped => used' = WrapAdd(used, Size[m]))
      BY <1>9 DEF CountBody, At, Goto
    <2>2. Cardinality(Working)' <= MaxSessions
      BY <2>1, WorkingBounded DEF InEnqueue
    <2>3. StoredBytes = StoredBytes' + Size[m] /\ UncountedBytes = UncountedBytes' + Size[m]
      <3>1. m \notin Stored' /\ Stored = Stored' \cup {m} /\ m \notin Uncounted' /\ Uncounted = Uncounted' \cup {m}
        BY <2>1 DEF Stored, Uncounted, SpoolTypeOK
      <3> QED
        BY <3>1, SetBytes
    <2>4. SpooledBytes' = SpooledBytes
      BY <2>1 DEF SpooledBytes
    <2>5. StoredBytes' \in Nat /\ UncountedBytes' \in Nat
      BY WeightTypesNext DEF RoomInWord
    <2>6. ASSUME IsCapped, NEW u \in Int, NEW A \in Nat, NEW B \in Nat, Counts(u, A, B)
          PROVE  Counts(u + Size[m], A, B)'
      <3>1. u + UncountedBytes + Freed + Largest < WordSize /\ Largest <= u + WordSize
            /\ MaxSessions * Largest \in Nat
        BY <2>6, CountBounds
      <3>2. 0 <= u + WordSize /\ u + Size[m] < WordSize
        BY <1>5, <3>1, SpoolAssumption
      <3>3. used' = Word(u + Size[m])
        BY <2>1, <2>6, <3>2, AddWord DEF Counts
      <3> DEFINE MS == MaxBytes + MaxSessions * Largest
      <3>4. /\ A + B <= faults * Largest
            /\ SpooledBytes <= u + StoredBytes + Freed + A
            /\ u + UncountedBytes + Freed <= MS + B
            /\ faults = 0 => SpooledBytes = u + StoredBytes + Freed
        BY <2>6 DEF Counts
      <3>5. MS \in Nat
        BY <3>1, SpoolAssumption
      <3> HIDE DEF MS
      <3>6. SpooledBytes' <= (u + Size[m]) + StoredBytes' + Freed' + A
        BY <1>4, <1>5, <2>3, <2>4, <2>5, <3>4
      <3>7. (u + Size[m]) + UncountedBytes' + Freed' <= MS + B
        BY <1>4, <1>5, <2>3, <2>5, <3>4, <3>5
      <3>8. faults' = 0 => SpooledBytes' = (u + Size[m]) + StoredBytes' + Freed'
        BY <1>4, <1>5, <2>1, <2>3, <2>4, <2>5, <3>4
      <3> QED
        BY <2>1, <3>3, <3>4, <3>6, <3>7, <3>8 DEF Counts, MS
    <2>7. ASSUME NEW u \in Int PROVE u + Size[m] \in Int
      OBVIOUS
    <2> QED
      BY <2>1, <2>2, <2>6, <2>7 DEF Counting
  <1>10. CASE RefuseFull(m) \/ CreateJson(m) \/ FillJson(m) \/ WriteJsonFails(m) \/ Answer(m)
    <2>1. PICK p : /\ enq' = [enq EXCEPT ![m] = p] /\ p \notin {"admitted", "stored"}
                   /\ p \in InEnqueue => enq[m] \in InEnqueue
      BY <1>10 DEF RefuseFull, CreateJson, FillJson, WriteJsonFails, Answer, At, Goto, InEnqueue
    <2>2. UNCHANGED <<eml, used>> /\ (faults' = faults \/ Fault) /\ enq[m] \notin {"admitted", "stored"}
      BY <1>10 DEF RefuseFull, CreateJson, FillJson, WriteJsonFails, Answer, At
    <2>3. Cardinality(Working)' <= MaxSessions
      BY <2>1, WorkingBounded
    <2>4. StoredBytes' = StoredBytes /\ UncountedBytes' = UncountedBytes
      <3>1. Stored' = Stored /\ Uncounted' = Uncounted
        BY <2>1, <2>2 DEF Stored, Uncounted, SpoolTypeOK
      <3> QED
        BY <3>1, SetBytes
    <2>5. SpooledBytes' = SpooledBytes
      BY <2>2 DEF SpooledBytes
    <2> QED
      BY <1>4, <2>2, <2>3, <2>4, <2>5, CountStays
  <1> QED
    BY <1>6, <1>7, <1>8, <1>9, <1>10 DEF Session, Commit

\* A step that neither writes, counts nor removes a body.
LEMMA QuietCounts ==
  ASSUME RoomInWord, IInv, Counting, UNCHANGED <<eml, used, enq>>, faults' = faults \/ Fault,
         wpc = "unlinkEml" \/ wpc' = "unlinkEml" => UNCHANGED <<wpc, cur>>
  PROVE  Counting'
  <1>1. UNCHANGED <<SpooledBytes, StoredBytes, UncountedBytes, Freed>>
    BY DEF SpooledBytes, StoredBytes, UncountedBytes, Stored, Uncounted, SizeOfAll, Freed
  <1>2. Cardinality(Working)' <= MaxSessions
    BY DEF Working, Counting
  <1> QED
    BY <1>1, <1>2, CountStays

\* One more failure allows for one more body.
LEMMA OneMoreFault ==
  ASSUME RoomInWord, IInv, faults <= MaxFaults, Fault,
         NEW A \in Nat, NEW B \in Nat, A + B <= faults * Largest
  PROVE  /\ A + Largest \in Nat /\ B + Largest \in Nat /\ faults' # 0 /\ faults' <= MaxFaults
         /\ (A + Largest) + B <= faults' * Largest
         /\ A + (B + Largest) <= faults' * Largest
  <1> DEFINE F == faults * Largest
             G == faults' * Largest
  <1>1. /\ F \in Nat /\ G = F + Largest /\ faults' # 0 /\ faults' <= MaxFaults
        /\ A + B <= F /\ Largest \in Nat
    BY FaultBytes, LargestIs DEF RoomInWord, Fault, IInv, TypeOK, SpoolTypeOK
  <1> HIDE DEF F, G
  <1>2. (A + Largest) + B <= G /\ A + (B + Largest) <= G
    BY <1>1
  <1> QED
    BY <1>1, <1>2 DEF G

\* The worker gives a body back ...
LEMMA FreeCounts ==
  ASSUME RoomInWord, IInv, Counting, FreeBytes
  PROVE  Counting'
  <1>1. /\ cur \in Msgs /\ Freed = 0 /\ Freed' = eml[cur]
        /\ eml[cur] \in Nat /\ eml[cur] <= Largest /\ Largest \in Nat
    BY LargestIs DEF RoomInWord, FreeBytes, Freed, IInv, TypeOK, SpoolTypeOK, Registers, InHand
  <1>2. /\ UNCHANGED <<SpooledBytes, StoredBytes, UncountedBytes>>
        /\ Cardinality(Working)' <= MaxSessions /\ faults <= MaxFaults /\ IsCapped' = IsCapped
    BY DEF FreeBytes, SpooledBytes, StoredBytes, UncountedBytes, Stored, Uncounted, SizeOfAll,
       Working, Counting, IsCapped
  <1>3. /\ StoredBytes \in Nat /\ UncountedBytes \in Nat /\ SpooledBytes \in Nat
        /\ MaxSessions * Largest \in Nat /\ MaxBytes \in Nat /\ faults \in Nat
    <2>1. Largest \in Nat /\ MaxSessions \in Nat
      BY <1>1, SpoolAssumption
    <2> QED
      BY <2>1, Weights, SpoolAssumption DEF RoomInWord, IInv, TypeOK, SpoolTypeOK
  <1> DEFINE e == eml[cur]
             MS == MaxSessions * Largest
  <1>4. ASSUME NEW u \in Int, NEW A \in Nat, NEW B \in Nat, Counts(u, A, B)
        PROVE  /\ A + B <= faults * Largest /\ used = Word(u)
               /\ SpooledBytes <= u + StoredBytes + A
               /\ u + UncountedBytes <= MaxBytes + MS + B
               /\ faults = 0 => SpooledBytes = u + StoredBytes
    BY <1>1, <1>3, <1>4 DEF Counts
  <1>5. CASE UNCHANGED faults /\ (IsCapped => used' = WrapSub(used, e))
    <2> SUFFICES ASSUME IsCapped PROVE \E u \in Int, A, B \in Nat : Counts(u, A, B)'
      BY <1>2, <1>5 DEF Counting
    <2>1. PICK u \in Int, A \in Nat, B \in Nat : Counts(u, A, B)
      BY DEF Counting
    <2>2. PICK v \in Int : v = u - e
      BY <1>1
    <2>3. u + UncountedBytes + Freed + Largest < WordSize /\ Largest <= u + WordSize /\ WordSize \in Nat
      BY <1>2, <2>1, CountBounds, SpoolAssumption
    <2>4. u < WordSize /\ 0 <= u - e + WordSize
      BY <1>1, <1>3, <2>3
    <2>5. used' = Word(v)
      BY <1>1, <1>4, <1>5, <2>1, <2>2, <2>4, SubWord
    <2>6. /\ SpooledBytes <= v + StoredBytes + e + A
          /\ faults = 0 => SpooledBytes = v + StoredBytes + e
      <3>1. /\ SpooledBytes <= u + StoredBytes + A
            /\ faults = 0 => SpooledBytes = u + StoredBytes
            /\ e \in Nat
        BY <1>1, <1>4, <2>1
      <3> HIDE DEF e
      <3> QED
        BY <1>3, <2>2, <3>1
    <2>7. v + UncountedBytes + e <= MaxBytes + MS + B
      <3>1. u + UncountedBytes <= MaxBytes + MS + B /\ e \in Nat /\ UncountedBytes \in Nat
        BY <1>1, <1>3, <1>4, <2>1
      <3> HIDE DEF MS, e
      <3> QED
        BY <2>2, <3>1
    <2>8. A + B <= faults' * Largest /\ (faults' = 0 => faults = 0)
      BY <1>4, <1>5, <2>1
    <2>9. Counts(v, A, B)'
      BY <1>1, <1>2, <2>5, <2>6, <2>7, <2>8 DEF Counts
    <2> QED
      BY <2>9
  <1>6. CASE IsCapped /\ UNCHANGED used /\ Fault
    <2>1. PICK u \in Int, A \in Nat, B \in Nat : Counts(u, A, B)
      BY <1>6 DEF Counting
    <2>2. A + B <= faults * Largest
      BY <1>4, <2>1
    <2>3. /\ B + Largest \in Nat /\ faults' # 0 /\ faults' <= MaxFaults
          /\ A + (B + Largest) <= faults' * Largest
      BY <1>2, <1>6, <2>2, OneMoreFault
    <2>4. SpooledBytes <= u + StoredBytes + e + A
      BY <1>1, <1>3, <1>4, <2>1
    <2>5. u + UncountedBytes + e <= MaxBytes + MS + (B + Largest)
      <3>1. u + UncountedBytes <= MaxBytes + MS + B /\ MS \in Nat /\ e \in Nat /\ e <= Largest
        BY <1>1, <1>3, <1>4, <2>1
      <3> HIDE DEF MS, e
      <3> QED
        BY <1>1, <1>3, <3>1
    <2>6. Counts(u, A, B + Largest)'
      BY <1>1, <1>2, <1>4, <1>6, <2>1, <2>3, <2>4, <2>5 DEF Counts
    <2> QED
      BY <1>2, <2>3, <2>6 DEF Counting
  <1> QED
    BY <1>5, <1>6 DEF FreeBytes

\* ... and then removes it.
LEMMA UnlinkCounts ==
  ASSUME RoomInWord, IInv, IInv', Counting, UnlinkEml
  PROVE  Counting'
  <1>1. /\ cur \in Msgs /\ Freed = eml[cur] /\ Freed' = 0
        /\ eml[cur] \in Nat /\ eml[cur] <= Largest /\ Largest \in Nat
    BY LargestIs DEF RoomInWord, UnlinkEml, Freed, IInv, TypeOK, SpoolTypeOK, Registers, InHand
  <1>2. /\ UNCHANGED <<StoredBytes, UncountedBytes, used>>
        /\ Cardinality(Working)' <= MaxSessions /\ faults <= MaxFaults /\ IsCapped' = IsCapped
    BY DEF UnlinkEml, StoredBytes, UncountedBytes, Stored, Uncounted, SizeOfAll,
       Working, Counting, IsCapped
  <1>3. /\ StoredBytes \in Nat /\ UncountedBytes \in Nat /\ SpooledBytes \in Nat
        /\ MaxSessions * Largest \in Nat /\ MaxBytes \in Nat /\ faults \in Nat
    <2>1. Largest \in Nat /\ MaxSessions \in Nat
      BY <1>1, SpoolAssumption
    <2> QED
      BY <2>1, Weights, SpoolAssumption DEF RoomInWord, IInv, TypeOK, SpoolTypeOK
  <1> DEFINE e == eml[cur]
             MS == MaxSessions * Largest
  <1>4. ASSUME NEW u \in Int, NEW A \in Nat, NEW B \in Nat, Counts(u, A, B)
        PROVE  /\ A + B <= faults * Largest /\ used = Word(u)
               /\ SpooledBytes <= u + StoredBytes + e + A
               /\ u + UncountedBytes + e <= MaxBytes + MS + B
               /\ faults = 0 => SpooledBytes = u + StoredBytes + e
    BY <1>1, <1>4 DEF Counts
  <1>5. ASSUME NEW u \in Int, NEW A \in Nat, NEW B \in Nat, Counts(u, A, B)
        PROVE  u + UncountedBytes + 0 <= MaxBytes + MS + B
    <2>1. u + UncountedBytes + e <= MaxBytes + MS + B /\ MS \in Nat /\ e \in Nat
      BY <1>1, <1>3, <1>4, <1>5
    <2> HIDE DEF MS, e
    <2> QED
      BY <1>3, <2>1
  <1>6. CASE UNCHANGED faults /\ eml' = [eml EXCEPT ![cur] = 0]
    <2>1. SpooledBytes' \in Nat /\ SpooledBytes = SpooledBytes' + e
      <3>1. eml'[cur] = 0 /\ \A n \in Msgs \ {cur} : eml'[n] = eml[n]
        BY <1>1, <1>6 DEF IInv, TypeOK, SpoolTypeOK
      <3>2. SpooledBytes + 0 = SpooledBytes' + e /\ SpooledBytes' \in Nat
        BY <1>1, <3>1, OneFile DEF IInv
      <3> QED
        BY <1>3, <3>2
    <2>2. ASSUME NEW u \in Int, NEW A \in Nat, NEW B \in Nat, Counts(u, A, B)
          PROVE  Counts(u, A, B)'
      <3>1. SpooledBytes' <= u + StoredBytes + 0 + A
            /\ (faults = 0 => SpooledBytes' = u + StoredBytes + 0)
        BY <1>1, <1>3, <1>4, <2>1, <2>2
      <3> QED
        BY <1>1, <1>2, <1>4, <1>5, <1>6, <2>2, <3>1 DEF Counts
    <2> QED
      BY <1>2, <1>6, <2>2 DEF Counting
  <1>7. CASE UNCHANGED eml /\ Fault
    <2>1. ASSUME NEW u \in Int, NEW A \in Nat, NEW B \in Nat, Counts(u, A, B)
          PROVE  Counts(u, A + Largest, B)'
      <3>1. faults' # 0 /\ (A + Largest) + B <= faults' * Largest
        BY <1>2, <1>4, <1>7, <2>1, OneMoreFault
      <3>2. SpooledBytes <= u + StoredBytes + 0 + (A + Largest)
        BY <1>1, <1>3, <1>4, <2>1
      <3>3. SpooledBytes' = SpooledBytes
        BY <1>7 DEF SpooledBytes
      <3> QED
        BY <1>1, <1>2, <1>4, <1>5, <2>1, <3>1, <3>2, <3>3 DEF Counts
    <2>2. faults' <= MaxFaults
      BY <1>7, SpoolAssumption DEF Fault, IInv, TypeOK, SpoolTypeOK
    <2>3. ASSUME NEW A \in Nat PROVE A + Largest \in Nat
      BY <1>1
    <2> QED
      BY <1>2, <2>1, <2>2, <2>3 DEF Counting
  <1> QED
    BY <1>6, <1>7 DEF UnlinkEml

\* A restart counts what is on the disk.
LEMMA RestartCounts ==
  ASSUME RoomInWord, IInv, IInv', Counting, Restart
  PROVE  Counting'
  <1>1. /\ Stored' = {} /\ Uncounted' = {} /\ Working' = {} /\ Freed' = 0
        /\ UNCHANGED <<eml, faults>> /\ SpooledBytes' = SpooledBytes
        /\ (IsCapped => used' = SpooledBytes)
    BY DEF Restart, RestartSpool, Stored, Uncounted, Working, InEnqueue, EndOfTick, Freed,
       SpooledBytes, IInv, TypeOK, SpoolTypeOK
  <1>2. StoredBytes' = 0 /\ UncountedBytes' = 0
    BY <1>1, SumOfNone DEF StoredBytes, UncountedBytes, SizeOfAll
  <1>3. Cardinality(Working)' <= MaxSessions
    BY <1>1, FS_EmptySet, SpoolAssumption
  <1>4. /\ StoredBytes \in Nat /\ UncountedBytes \in Nat /\ SpooledBytes \in Nat /\ Freed \in Nat
        /\ StoredBytes <= UncountedBytes /\ Largest \in Nat /\ MaxSessions \in Nat /\ MaxBytes \in Nat
    BY Weights, LargestIs, SpoolAssumption DEF RoomInWord
  <1> DEFINE MS == MaxSessions * Largest
             F == faults * Largest
  <1>5. MS \in Nat /\ F \in Nat
    BY <1>4 DEF IInv, TypeOK, SpoolTypeOK
  <1>6. ASSUME IsCapped, NEW u \in Int, NEW A \in Nat, NEW B \in Nat, Counts(u, A, B)
        PROVE  SpooledBytes \in Int /\ A + B \in Nat /\ Counts(SpooledBytes, 0, A + B)'
    <2>1. /\ A + B <= F
          /\ SpooledBytes <= u + StoredBytes + Freed + A
          /\ u + UncountedBytes + Freed <= MaxBytes + MS + B
      BY <1>6 DEF Counts
    <2> HIDE DEF MS, F
    <2>2. SpooledBytes + 0 + 0 <= MaxBytes + MS + (A + B) /\ 0 + (A + B) <= F
      BY <1>4, <1>5, <2>1
    <2>3. SpooledBytes = Word(SpooledBytes)
      BY <1>4 DEF Word
    <2>4. SpooledBytes <= SpooledBytes + 0 + 0 + 0 /\ SpooledBytes = SpooledBytes + 0 + 0
      BY <1>4
    <2> QED
      BY <1>1, <1>2, <1>4, <1>6, <2>2, <2>3, <2>4 DEF Counts, MS, F
  <1> QED
    BY <1>1, <1>3, <1>4, <1>6 DEF Counting, IsCapped

LEMMA CountingInit == RoomInWord /\ Init => Counting
  <1> SUFFICES ASSUME RoomInWord, Init PROVE Counting
    OBVIOUS
  <1>1. IInv /\ faults = 0 /\ used = 0 /\ Freed = 0 /\ \A m \in Msgs : eml[m] = 0
    BY InitKept DEF Init, SpoolInit, Freed
  <1>2. Stored = {} /\ Uncounted = {} /\ Working = {}
    BY DEF Init, SpoolInit, Stored, Uncounted, Working, InEnqueue
  <1>3. StoredBytes = 0 /\ UncountedBytes = 0
    BY <1>2, SumOfNone DEF StoredBytes, UncountedBytes, SizeOfAll
  <1>4. SpooledBytes = 0
    <2>1. IsFiniteSet(Msgs) /\ Msgs \in SUBSET Msgs /\ \A m \in Msgs : eml[m] \in 0 .. 0
      BY <1>1, SpoolAssumption
    <2>2. SpooledBytes <= Cardinality(Msgs) * 0 /\ 0 \in Nat
      BY <2>1, SumBounded DEF SpooledBytes
    <2>3. Cardinality(Msgs) \in Nat /\ SpooledBytes \in Nat
      BY <1>1, <2>1, FS_CardinalityType, Weights DEF RoomInWord
    <2> QED
      BY <2>2, <2>3
  <1>5. Cardinality(Working) <= MaxSessions /\ faults <= MaxFaults
    BY <1>1, <1>2, FS_EmptySet, SpoolAssumption
  <1>6. Counts(0, 0, 0)
    <2>1. Largest \in Nat /\ MaxSessions * Largest \in Nat /\ MaxBytes \in Nat /\ 0 * Largest = 0
      <3>1. Largest \in Nat /\ MaxSessions \in Nat /\ MaxBytes \in Nat
        BY LargestIs, SpoolAssumption DEF RoomInWord
      <3> QED
        BY <3>1
    <2>2. 0 + 0 + 0 <= MaxBytes + MaxSessions * Largest + 0
      <3> DEFINE MS == MaxSessions * Largest
      <3>1. MS \in Nat
        BY <2>1
      <3> HIDE DEF MS
      <3>2. 0 + 0 + 0 <= MaxBytes + MS + 0
        BY <2>1, <3>1
      <3> QED
        BY <3>2 DEF MS
    <2>3. Word(0) = 0 /\ 0 + 0 <= 0 * Largest
      BY <2>1 DEF Word
    <2> QED
      BY <1>1, <1>3, <1>4, <2>2, <2>3 DEF Counts
  <1> QED
    BY <1>5, <1>6 DEF Counting

LEMMA CountingStep == RoomInWord /\ IInv /\ IInv' /\ Counting /\ [Next]_vars => Counting'
  <1> SUFFICES ASSUME RoomInWord, IInv, IInv', Counting, [Next]_vars PROVE Counting'
    OBVIOUS
  <1>1. CASE \E m \in Msgs : SessionStep(m)
    BY <1>1, SessionCounts
  <1>2. CASE FreeBytes
    BY <1>2, FreeCounts
  <1>3. CASE UnlinkEml
    BY <1>3, UnlinkCounts
  <1>4. CASE Restart
    BY <1>4, RestartCounts
  <1>5. ASSUME \/ ListDue \/ IdleTick \/ FinishTick
               \/ \E m \in Msgs : LoadEntry(m) \/ SkipEntry(m)
               \/ \E t \in Targets : Delivered(t) \/ Failed(t) \/ Unconfigured(t)
               \/ SettleDone \/ SettleGiveUp \/ SettleRetry \/ Rewritten \/ SettleFails
               \/ UnlinkJson \/ Clock \/ UNCHANGED vars
        PROVE  Counting'
    <2>1. /\ UNCHANGED <<eml, used, enq>>
          /\ faults' = faults \/ Fault
      BY <1>5 DEF ListDue, IdleTick, FinishTick, LoadEntry, SkipEntry, Delivered, Failed,
         Unconfigured, SettleDone, SettleGiveUp, SettleRetry, StartRewrite, Rewritten,
         SettleFails, UnlinkJson, Clock, Passes, KeepSpool, spoolVars, vars
    <2>2. wpc = "unlinkEml" \/ wpc' = "unlinkEml" => UNCHANGED <<wpc, cur>>
      BY <1>5 DEF ListDue, IdleTick, FinishTick, LoadEntry, SkipEntry, Delivered, Failed,
         Unconfigured, SettleDone, SettleGiveUp, SettleRetry, StartRewrite, Rewritten,
         SettleFails, UnlinkJson, Clock, EndOfTick, RoundOver, workerVars, vars
    <2> QED
      BY <2>1, <2>2, QuietCounts
  <1> QED
    BY <1>1, <1>2, <1>3, <1>4, <1>5 DEF Next, Tick

LEMMA CountingHolds == ASSUME RoomInWord PROVE Spec => []Counting
  <1>1. Init => Counting
    BY CountingInit
  <1>2. IInv /\ IInv' /\ Counting /\ [Next]_vars => Counting'
    BY CountingStep
  <1> QED
    BY <1>1, <1>2, Kept_Invariant, PTL DEF Spec

LEMMA CountIsExact == RoomInWord /\ IInv /\ Counting => UsedIsExact
  <1> SUFFICES ASSUME RoomInWord, IInv, Counting, IsCapped, faults = 0
               PROVE  used + StoredBytes + Freed = SpooledBytes
    BY DEF UsedIsExact, StoredBytes, Stored, Freed
  <1>1. PICK u \in Int, A \in Nat, B \in Nat : Counts(u, A, B)
    BY DEF Counting
  <1>2. SpooledBytes = u + StoredBytes + Freed /\ used = Word(u)
    BY <1>1 DEF Counts
  <1>3. /\ StoredBytes \in Nat /\ SpooledBytes \in Nat /\ Freed \in Nat
        /\ StoredBytes + Freed <= SpooledBytes
    BY Weights DEF RoomInWord
  <1>4. u >= 0
    BY <1>2, <1>3
  <1> QED
    BY <1>2, <1>4 DEF Word

LEMMA CountIsSoft == RoomInWord /\ IInv /\ Counting => SoftCap
  <1> SUFFICES ASSUME RoomInWord, IInv, Counting, IsCapped
               PROVE  SpooledBytes <= MaxBytes + (MaxSessions + faults) * Largest
    BY DEF SoftCap
  <1>1. PICK u \in Int, A \in Nat, B \in Nat : Counts(u, A, B)
    BY DEF Counting
  <1>2. /\ StoredBytes \in Nat /\ UncountedBytes \in Nat /\ SpooledBytes \in Nat /\ Freed \in Nat
        /\ StoredBytes <= UncountedBytes /\ Largest \in Nat /\ MaxSessions \in Nat /\ MaxBytes \in Nat
        /\ faults \in Nat
    BY Weights, LargestIs, SpoolAssumption DEF RoomInWord, IInv, TypeOK, SpoolTypeOK
  <1> DEFINE MS == MaxSessions * Largest
             F == faults * Largest
  <1>3. MS \in Nat /\ F \in Nat /\ (MaxSessions + faults) * Largest = MS + F
    BY <1>2
  <1>4. /\ A + B <= F
        /\ SpooledBytes <= u + StoredBytes + Freed + A
        /\ u + UncountedBytes + Freed <= MaxBytes + MS + B
    BY <1>1 DEF Counts
  <1>5. SpooledBytes <= MaxBytes + (MS + F)
    <2> HIDE DEF MS, F
    <2> QED
      BY <1>2, <1>3, <1>4
  <1> QED
    BY <1>3, <1>5

\* While no file operation has failed, the count is exact: it is the bytes on
\* disk, less what a session or the worker is in the middle of (Spool.used,
\* enqueue, settle's removal, the scan at startup).
THEOREM UsedExact == ASSUME RoomInWord PROVE Spec => []UsedIsExact
  <1>1. IInv /\ Counting => UsedIsExact
    BY CountIsExact
  <1> QED
    BY <1>1, CountingHolds, Kept_Invariant, PTL

\* The disk never exceeds the byte cap by more than one body per session that
\* passed enqueue's check and one per file operation that failed.
THEOREM CapIsSoft == ASSUME RoomInWord PROVE Spec => []SoftCap
  <1>1. IInv /\ Counting => SoftCap
    BY CountIsSoft
  <1> QED
    BY <1>1, CountingHolds, Kept_Invariant, PTL

------------------------------------------------------------------------------
(***************************************************************************)
(* The worker and its spool implement the queue of module MailQueue.       *)
(***************************************************************************)

\* An entry knows for whom it is, and a json torn by settle has an attempt on
\* its count: that is what tells it from one enqueue never finished.
Addressed ==
  /\ \A m \in Msgs : enq[m] \in InEnqueue \cup Settled => promised[m] # {}
  /\ wpc = "rewrite" => meta[cur].attempts > 0

LEMMA AddressedInit == Init => Addressed
  BY DEF Init, SpoolInit, Addressed, InEnqueue, Settled

LEMMA AddressedStep == IInv /\ Addressed /\ [Next]_vars => Addressed'
  <1> SUFFICES ASSUME IInv, Addressed, [Next]_vars PROVE Addressed'
    OBVIOUS
  <1> USE DEF Addressed
  <1>1. TypeOK /\ SpoolTypeOK /\ Registers /\ EntryInHand
    BY DEF IInv, TypeOK
  <1>2. ASSUME NEW s \in Msgs, SessionStep(s) PROVE Addressed'
    <2>1. \A n \in Msgs : enq'[n] \in InEnqueue \cup Settled =>
            promised'[n] # {} /\ (n # s => meta'[n] = meta[n])
      <3>1. CASE Admit(s)
        <4>1. PICK T \in {targets \ {Outbound}, {Outbound}} :
                promised' = [promised EXCEPT ![s] = T]
          BY <3>1 DEF Admit
        <4>2. T # {}
          BY <1>1, SpoolAssumption DEF SpoolTypeOK
        <4>3. \A n \in Msgs : /\ promised'[n] = IF n = s THEN T ELSE promised[n]
                              /\ n # s => enq'[n] = enq[n] /\ meta'[n] = meta[n]
          BY <1>1, <3>1, <4>1 DEF Admit, Goto, SpoolTypeOK
        <4> QED
          BY <4>2, <4>3
      <3>2. CASE ~ Admit(s)
        <4>1. /\ UNCHANGED <<promised, meta>>
              /\ \A n \in Msgs : n # s => enq'[n] = enq[n]
              /\ enq'[s] \in InEnqueue \cup Settled => enq[s] \in InEnqueue \cup Settled
          BY <1>1, <1>2, <3>2 DEF SessionStep, Session, RefuseFull, Commit, StoreBody,
             StoreBodyFails, CountBody, CreateJson, FillJson, WriteJsonFails, Answer,
             At, Goto, SpoolTypeOK, InEnqueue, Settled
        <4> QED
          BY <4>1
      <3> QED
        BY <3>1, <3>2
    <2>2. wpc = "rewrite" => s # cur \/ UNCHANGED meta
      BY <1>1, <1>2 DEF EntryInHand, InHand, SessionStep, Session, Admit, RefuseFull, Commit,
         StoreBody, StoreBodyFails, CountBody, CreateJson, FillJson, WriteJsonFails, Answer,
         At, Settled
    <2>3. \A n \in Msgs : n # s => meta'[n] = meta[n]
      BY <1>1, <1>2 DEF SessionStep, Session, Admit, RefuseFull, Commit, StoreBody,
         StoreBodyFails, CountBody, CreateJson, FillJson, WriteJsonFails, Answer, SpoolTypeOK
    <2>4. UNCHANGED <<wpc, cur>> /\ (wpc = "rewrite" => cur \in Msgs)
      BY <1>1, <1>2 DEF SessionStep, workerVars, Registers, InHand
    <2> QED
      BY <2>1, <2>2, <2>3, <2>4
  <1>3. CASE Tick
    <2>1. UNCHANGED <<enq, promised>>
      BY <1>3 DEF Tick, ListDue, IdleTick, FinishTick, LoadEntry, SkipEntry, Delivered, Failed,
         Unconfigured, SettleDone, SettleGiveUp, SettleRetry, StartRewrite, Rewritten,
         SettleFails, FreeBytes, UnlinkEml, UnlinkJson, KeepSpool, vars, spoolVars
    <2>2. CASE SettleRetry
      <3>1. cur \in Msgs /\ meta[cur].attempts \in Nat /\ cur' = cur
        BY <1>1, <2>2 DEF SettleRetry, StartRewrite, RoundOver, Registers, InHand,
           SpoolTypeOK, Meta
      <3>2. meta'[cur].attempts = meta[cur].attempts + 1
        BY <1>1, <2>2, <3>1 DEF SettleRetry, StartRewrite, SpoolTypeOK, Meta
      <3> QED
        BY <2>1, <3>1, <3>2
    <2>3. CASE ~ SettleRetry
      <3>1. wpc' = "rewrite" => UNCHANGED <<wpc, cur, meta>>
        BY <1>3, <2>3 DEF Tick, ListDue, IdleTick, FinishTick, LoadEntry, SkipEntry, Delivered,
           Failed, Unconfigured, SettleDone, SettleGiveUp, Rewritten, SettleFails, EndOfTick,
           FreeBytes, UnlinkEml, UnlinkJson, KeepSpool, vars, spoolVars, workerVars
      <3> QED
        BY <2>1, <3>1
    <2> QED
      BY <2>2, <2>3
  <1>4. CASE Restart
    BY <1>1, <1>4 DEF Restart, RestartSpool, EndOfTick, Settled, InEnqueue, SpoolTypeOK, EnqState
  <1>5. CASE Clock \/ UNCHANGED vars
    BY <1>5 DEF Clock, Passes, vars, spoolVars, workerVars
  <1> QED
    BY <1>2, <1>3, <1>4, <1>5 DEF Next

\* The status of an entry, case by case.
Reading(m) ==
  /\ Whole(m) /\ eml[m] > 0 => Status(m) = "queued"
  /\ Whole(m) /\ eml[m] = 0 => Status(m) = "gone"
  /\ Torn(m) /\ Rewriting(m) => Status(m) = "queued"
  /\ Torn(m) /\ ~ Rewriting(m) /\ meta[m].attempts > 0 => Status(m) = "damaged"
  /\ Torn(m) /\ ~ Rewriting(m) /\ meta[m].attempts = 0 => Status(m) = "new"
  /\ json[m] = "absent" /\ promised[m] # {} /\ meta[m].pending = {} => Status(m) = "gone"
  /\ json[m] = "absent" /\ (promised[m] = {} \/ meta[m].pending # {}) => Status(m) = "new"

LEMMA ReadingHolds == TypeOK => \A m \in Msgs : Reading(m)
  <1> SUFFICES ASSUME TypeOK, NEW m \in Msgs PROVE Reading(m)
    OBVIOUS
  <1>1. json[m] \in {"absent", "torn", "whole"} /\ eml[m] \in Nat /\ meta[m].attempts \in Nat
    BY DEF TypeOK, SpoolTypeOK, Meta
  <1>2. Whole(m) /\ eml[m] > 0 => Status(m) = "queued"
    BY <1>1 DEF Status, Whole, Torn
  <1>3. Whole(m) /\ eml[m] = 0 => Status(m) = "gone"
    BY <1>1 DEF Status, Whole, Torn
  <1>4. Torn(m) /\ Rewriting(m) => Status(m) = "queued"
    BY <1>1 DEF Status, Whole, Torn
  <1>5. Torn(m) /\ ~ Rewriting(m) /\ meta[m].attempts > 0 => Status(m) = "damaged"
    BY <1>1 DEF Status, Whole, Torn
  <1>6. Torn(m) /\ ~ Rewriting(m) /\ meta[m].attempts = 0 => Status(m) = "new"
    BY <1>1 DEF Status, Whole, Torn
  <1>7. json[m] = "absent" /\ promised[m] # {} /\ meta[m].pending = {} => Status(m) = "gone"
    BY <1>1 DEF Status, Whole, Torn
  <1>8. json[m] = "absent" /\ (promised[m] = {} \/ meta[m].pending # {}) => Status(m) = "new"
    BY <1>1 DEF Status, Whole, Torn
  <1> QED
    BY <1>2, <1>3, <1>4, <1>5, <1>6, <1>7, <1>8 DEF Reading

LEMMA ReadingHoldsNext == (TypeOK => \A m \in Msgs : Reading(m))'
  BY ReadingHolds, PTL

\* What an entry owes as the abstract queue sees it, and the same of them all.
Owing(m) == IF Status(m) = "queued" THEN meta[m].pending ELSE {}

Statuses == [m \in Msgs |-> Status(m)]
Debts == [m \in Msgs |-> Owing(m)]

\* An entry whose files, session and place in the worker's hand stay is the same.
Same(m) ==
  /\ UNCHANGED <<json[m], eml[m], meta[m], promised[m]>>
  /\ Rewriting(m)' <=> Rewriting(m)

LEMMA SameStatus ==
  ASSUME TypeOK, TypeOK', NEW m \in Msgs, Same(m)
  PROVE  Status(m)' = Status(m) /\ Owing(m)' = Owing(m)
  <1>1. Reading(m) /\ Reading(m)'
    BY ReadingHolds, ReadingHoldsNext
  <1>2. json[m] \in {"absent", "torn", "whole"} /\ eml[m] \in Nat /\ meta[m].attempts \in Nat
    BY DEF TypeOK, SpoolTypeOK, Meta
  <1>3. Status(m)' = Status(m)
    BY <1>1, <1>2 DEF Same, Reading, Whole, Torn
  <1> QED
    BY <1>3 DEF Same, Owing

\* The steps of the abstract queue, one entry at a time.
OnlyOne(m) ==
  /\ \A n \in Msgs : n # m => Status(n)' = Status(n) /\ Owing(n)' = Owing(n)
  /\ Status(m) = "queued"

LEMMA OneEntry ==
  ASSUME NEW m \in Msgs,
         \A n \in Msgs : n # m => Status(n)' = Status(n) /\ Owing(n)' = Owing(n)
  PROVE  /\ Statuses' = [Statuses EXCEPT ![m] = Status(m)']
         /\ Debts' = [Debts EXCEPT ![m] = Owing(m)']
  BY DEF Statuses, Debts

LEMMA Stutters ==
  ASSUME \A n \in Msgs : Status(n)' = Status(n) /\ Owing(n)' = Owing(n),
         UNCHANGED <<Handed, waived>>
  PROVE  UNCHANGED Queue!qvars
  <1>1. Statuses' = Statuses /\ Debts' = Debts
    BY DEF Statuses, Debts
  <1> QED
    BY <1>1 DEF Queue!qvars, Statuses, Debts, Owing

LEMMA Accepts ==
  ASSUME NEW m \in Msgs,
         \A n \in Msgs : n # m => Status(n)' = Status(n) /\ Owing(n)' = Owing(n),
         Status(m) = "new", Status(m)' = "queued",
         Owing(m)' \in (SUBSET Targets) \ {{}}, UNCHANGED <<Handed, waived>>
  PROVE  Queue!Next
  <1>1. Statuses' = [Statuses EXCEPT ![m] = "queued"] /\ Statuses[m] = "new"
        /\ Debts' = [Debts EXCEPT ![m] = Owing(m)']
    BY OneEntry DEF Statuses
  <1>2. Queue!Accept(m)
    BY <1>1 DEF Queue!Accept, Statuses, Debts, Owing
  <1> QED
    BY <1>2 DEF Queue!Next

LEMMA Leaves ==
  ASSUME NEW m \in Msgs, OnlyOne(m), Status(m)' \in {"gone", "damaged"},
         Status(m)' = "gone" => \A t \in Owing(m) : t \in Targets /\ Served(m, t),
         UNCHANGED <<Handed, waived>>
  PROVE  Queue!Next
  <1>1. /\ Statuses' = [Statuses EXCEPT ![m] = Status(m)'] /\ Statuses[m] = "queued"
        /\ Debts' = [Debts EXCEPT ![m] = {}] /\ Debts[m] = Owing(m)
    BY OneEntry DEF OnlyOne, Statuses, Debts, Owing
  <1>2. CASE Status(m)' = "gone"
    <2>1. \A t \in Owing(m) : t \in Targets /\ <<m, t>> \in Handed \cup waived
      BY <1>2 DEF Served, Handed
    <2>2. Queue!Leave(m)
      BY <1>1, <1>2, <2>1 DEF Queue!Leave, Queue!Closed, Statuses, Debts, Owing
    <2> QED
      BY <2>2 DEF Queue!Next
  <1>3. CASE Status(m)' = "damaged"
    <2>1. Queue!Damage(m)
      BY <1>1, <1>3 DEF Queue!Damage, Statuses, Debts, Owing
    <2> QED
      BY <2>1 DEF Queue!Next
  <1> QED
    BY <1>2, <1>3

LEMMA Records ==
  ASSUME NEW m \in Msgs, OnlyOne(m), Status(m)' = "queued",
         NEW T \in SUBSET Targets, T = Owing(m)',
         T # {}, T \subseteq Owing(m), Owing(m) \subseteq Targets,
         \A t \in Owing(m) \ T : Served(m, t),
         UNCHANGED <<Handed, waived>>
  PROVE  Queue!Next
  <1>1. /\ Statuses' = Statuses /\ Statuses[m] = "queued"
        /\ Debts' = [Debts EXCEPT ![m] = T] /\ Debts[m] = Owing(m)
    BY OneEntry DEF OnlyOne, Statuses, Debts
  <1>2. \A t \in Owing(m) \ T : <<m, t>> \in Handed \cup waived
    BY DEF Served, Handed
  <1>3. Queue!Record(m, T)
    BY <1>1, <1>2 DEF Queue!Record, Queue!Closed, Statuses, Debts, Owing
  <1> QED
    BY <1>3 DEF Queue!Next

LEMMA HandsOver ==
  ASSUME NEW m \in Msgs, NEW t \in Owing(m), t \in Targets, Status(m) = "queued",
         \A n \in Msgs : Status(n)' = Status(n) /\ Owing(n)' = Owing(n),
         Handed' = Handed \cup {<<m, t>>}, UNCHANGED waived
  PROVE  Queue!Next
  <1>1. Statuses' = Statuses /\ Debts' = Debts /\ Statuses[m] = "queued" /\ Debts[m] = Owing(m)
    BY DEF Statuses, Debts
  <1>2. Queue!Hand(m, t)
    BY <1>1 DEF Queue!Hand, Statuses, Debts, Owing
  <1> QED
    BY <1>2 DEF Queue!Next

LEMMA Waives ==
  ASSUME NEW m \in Msgs, NEW T \in SUBSET Targets, T \subseteq Owing(m), Status(m) = "queued",
         \A n \in Msgs : Status(n)' = Status(n) /\ Owing(n)' = Owing(n),
         waived' = waived \cup ({m} \X T), UNCHANGED Handed
  PROVE  Queue!Next
  <1>1. Statuses' = Statuses /\ Debts' = Debts /\ Statuses[m] = "queued" /\ Debts[m] = Owing(m)
    BY DEF Statuses, Debts
  <1>2. Queue!Waive(m, T)
    BY <1>1 DEF Queue!Waive, Statuses, Debts, Owing
  <1> QED
    BY <1>2 DEF Queue!Next

\* A session takes its message in when it has filled the json, and does nothing
\* to the abstract queue before.
LEMMA SessionRefines ==
  ASSUME IInv, IInv', Addressed, NEW s \in Msgs, SessionStep(s)
  PROVE  [Queue!Next]_(Queue!qvars)
  <1>1. TypeOK /\ TypeOK' /\ SpoolTypeOK /\ SpoolTypeOK' /\ Registers
        /\ SessionFiles(s) /\ EntryInHand
    BY DEF IInv, TypeOK
  <1>2. /\ UNCHANGED <<wpc, cur, got, waived>> /\ Session(s)
        /\ \A n \in Msgs : Rewriting(n)' <=> Rewriting(n)
    BY DEF SessionStep, workerVars, Rewriting
  <1>3. \A n \in Msgs : n # s => Same(n)
    BY <1>1, <1>2 DEF Session, Admit, RefuseFull, Commit, StoreBody, StoreBodyFails, CountBody,
       CreateJson, FillJson, WriteJsonFails, Answer, SpoolTypeOK, Same
  <1>4. \A n \in Msgs : n # s => Status(n)' = Status(n) /\ Owing(n)' = Owing(n)
    BY <1>1, <1>3, SameStatus
  <1>5. UNCHANGED <<Handed, waived>>
    BY <1>2 DEF Handed
  <1>6. Reading(s) /\ Reading(s)'
    BY <1>1, ReadingHolds, ReadingHoldsNext
  <1>7. enq[s] \in InEnqueue => ~ Rewriting(s) /\ promised[s] # {}
    BY <1>1 DEF EntryInHand, Rewriting, InHand, InEnqueue, Settled, Addressed
  <1>8. CASE FillJson(s)
    <2>1. /\ enq[s] = "creating" /\ json[s] = "torn" /\ json'[s] = "whole" /\ eml[s] = Size[s]
          /\ UNCHANGED <<eml, meta, promised>>
          /\ meta[s].pending = promised[s] /\ meta[s].attempts = 0 /\ promised[s] \in SUBSET Targets
      BY <1>1, <1>8 DEF FillJson, At, SessionFiles, InEnqueue, SpoolTypeOK
    <2>2. Size[s] > 0
      BY SpoolAssumption
    <2>3. Status(s) = "new" /\ Status(s)' = "queued"
      BY <1>6, <1>7, <2>1, <2>2 DEF Reading, Whole, Torn, InEnqueue
    <2>4. Owing(s)' \in (SUBSET Targets) \ {{}}
      BY <1>7, <2>1, <2>3 DEF Owing, InEnqueue
    <2> QED
      BY <1>4, <1>5, <2>3, <2>4, Accepts
  <1>9. CASE ~ FillJson(s)
    <2>1. Status(s)' = Status(s) /\ Owing(s)' = Owing(s)
      <3>1. CASE RefuseFull(s) \/ CountBody(s) \/ WriteJsonFails(s) \/ Answer(s)
        <4>1. Same(s)
          BY <1>2, <3>1 DEF RefuseFull, CountBody, WriteJsonFails, Answer, Same
        <4> QED
          BY <1>1, <4>1, SameStatus
      <3>2. CASE Admit(s)
        <4>1. PICK T \in {targets \ {Outbound}, {Outbound}} :
                meta' = [meta EXCEPT ![s] = [pending |-> T, attempts |-> 0,
                                             enqueued |-> now, next |-> now]]
          BY <3>2 DEF Admit
        <4>2. T # {}
          BY <1>1, SpoolAssumption DEF SpoolTypeOK
        <4>3. json[s] = "absent" /\ json'[s] = "absent" /\ promised[s] = {} /\ meta'[s].pending # {}
          BY <1>1, <3>2, <4>1, <4>2 DEF Admit, At, SessionFiles, SpoolTypeOK
        <4>4. Status(s) = "new" /\ Status(s)' = "new"
          BY <1>6, <4>3 DEF Reading
        <4> QED
          BY <4>4 DEF Owing
      <3>3. CASE StoreBody(s) \/ StoreBodyFails(s)
        <4>1. /\ enq[s] = "admitted" /\ json[s] = "absent" /\ json'[s] = "absent"
              /\ meta[s].pending = promised[s] /\ UNCHANGED <<promised, meta>>
          BY <1>1, <3>3 DEF StoreBody, StoreBodyFails, At, SessionFiles, InEnqueue
        <4>2. Status(s) = "new" /\ Status(s)' = "new"
          BY <1>6, <1>7, <4>1 DEF Reading, InEnqueue
        <4> QED
          BY <4>2 DEF Owing
      <3>4. CASE CreateJson(s)
        <4>1. /\ enq[s] = "counted" /\ json[s] = "absent" /\ json'[s] = "torn"
              /\ meta[s].pending = promised[s] /\ meta[s].attempts = 0
              /\ UNCHANGED <<promised, meta>>
          BY <1>1, <3>4 DEF CreateJson, At, SessionFiles, InEnqueue, SpoolTypeOK
        <4>2. Status(s) = "new" /\ Status(s)' = "new"
          BY <1>2, <1>6, <1>7, <4>1 DEF Reading, Torn, InEnqueue
        <4> QED
          BY <4>2 DEF Owing
      <3> QED
        BY <1>2, <1>9, <3>1, <3>2, <3>3, <3>4 DEF Session, Commit
    <2>2. \A n \in Msgs : Status(n)' = Status(n) /\ Owing(n)' = Owing(n)
      BY <1>4, <2>1
    <2> QED
      BY <1>5, <2>2, Stutters
  <1> QED
    BY <1>8, <1>9

\* The entry in hand, as long as its json is whole or being rewritten.
LEMMA InHandQueued ==
  ASSUME IInv, wpc \in {"deliver", "rewrite"}
  PROVE  /\ cur \in Msgs /\ Status(cur) = "queued" /\ Owing(cur) = meta[cur].pending
         /\ Owing(cur) \subseteq Targets
  <1>1. TypeOK /\ cur \in Msgs /\ Size[cur] > 0 /\ meta[cur].pending \subseteq Targets
    BY SpoolAssumption DEF IInv, TypeOK, SpoolTypeOK, Registers, InHand, Meta
  <1>2. Status(cur) = "queued"
    BY <1>1, ReadingHolds DEF IInv, EntryInHand, Reading, Rewriting
  <1> QED
    BY <1>1, <1>2 DEF Owing

\* The steps that neither touch a file's meaning nor open or end a rewrite.
LEMMA QuietRefines ==
  ASSUME IInv, IInv', UNCHANGED <<json, eml, meta, promised>>,
         wpc # "rewrite", wpc' # "rewrite"
  PROVE  \A n \in Msgs : Status(n)' = Status(n) /\ Owing(n)' = Owing(n)
  <1>1. \A n \in Msgs : Same(n)
    BY DEF Same, Rewriting
  <1> QED
    BY <1>1, SameStatus DEF IInv

\* A delivery hands the message over; what is given up is waived.
LEMMA RoundRefines ==
  ASSUME IInv, IInv', \/ \E t \in Targets : Delivered(t) \/ Failed(t) \/ Unconfigured(t)
                      \/ SettleGiveUp
  PROVE  [Queue!Next]_(Queue!qvars)
  <1>1. /\ wpc = "deliver" /\ UNCHANGED <<json, eml, meta, promised>> /\ wpc' # "rewrite"
        /\ got \in [Msgs -> [Targets -> Nat]]
        /\ todo \cup still \subseteq meta[cur].pending
    BY DEF Delivered, Failed, Unconfigured, SettleGiveUp, RoundOver, KeepSpool, spoolVars,
       IInv, TypeOK, EntryInHand
  <1>2. \A n \in Msgs : Status(n)' = Status(n) /\ Owing(n)' = Owing(n)
    BY <1>1, QuietRefines
  <1>3. /\ cur \in Msgs /\ Status(cur) = "queued" /\ Owing(cur) = meta[cur].pending
        /\ Owing(cur) \subseteq Targets
    BY <1>1, InHandQueued
  <1>4. ASSUME NEW t \in Targets, Delivered(t)
        PROVE  Queue!Next
    <2>1. got' = [got EXCEPT ![cur][t] = @ + 1] /\ waived' = waived /\ t \in Owing(cur)
      BY <1>1, <1>3, <1>4 DEF Delivered
    <2>2. \A m \in Msgs, u \in Targets :
            got'[m][u] = IF m = cur /\ u = t THEN got[m][u] + 1 ELSE got[m][u]
      BY <1>1, <1>3, <2>1
    <2>3. \A m \in Msgs, u \in Targets :
            got'[m][u] > 0 <=> got[m][u] > 0 \/ (m = cur /\ u = t)
      <3> SUFFICES ASSUME NEW m \in Msgs, NEW u \in Targets
                   PROVE  got'[m][u] > 0 <=> got[m][u] > 0 \/ (m = cur /\ u = t)
        OBVIOUS
      <3>1. got[m][u] \in Nat
        BY <1>1
      <3> QED
        BY <2>2, <3>1
    <2>4. Handed' = Handed \cup {<<cur, t>>}
      BY <1>3, <2>3 DEF Handed
    <2> QED
      BY <1>2, <1>3, <2>1, <2>4, HandsOver
  <1>5. ASSUME NEW t \in Targets, Unconfigured(t)
        PROVE  Queue!Next
    <2>1. /\ waived' = waived \cup ({cur} \X {t}) /\ got' = got /\ {t} \subseteq Owing(cur)
          /\ {t} \in SUBSET Targets
      BY <1>1, <1>3, <1>5 DEF Unconfigured
    <2>2. Handed' = Handed
      BY <2>1 DEF Handed
    <2> QED
      BY <1>2, <1>3, <2>1, <2>2, Waives
  <1>6. CASE SettleGiveUp
    <2>1. /\ waived' = waived \cup ({cur} \X still) /\ got' = got /\ still \subseteq Owing(cur)
          /\ still \in SUBSET Targets
      BY <1>1, <1>3, <1>6 DEF SettleGiveUp
    <2>2. Handed' = Handed
      BY <2>1 DEF Handed
    <2> QED
      BY <1>2, <1>3, <2>1, <2>2, Waives
  <1>7. ASSUME NEW t \in Targets, Failed(t)
        PROVE  UNCHANGED Queue!qvars
    <2>1. UNCHANGED <<Handed, waived>>
      BY <1>7 DEF Failed, KeepHistory, Handed
    <2> QED
      BY <1>2, <2>1, Stutters
  <1> QED
    BY <1>4, <1>5, <1>6, <1>7

\* The rewrite of the json: begun it records what failed, filled it changes
\* nothing, broken off by an error or a kill it damages the entry.
LEMMA RewriteRefines ==
  ASSUME IInv, IInv', Addressed, SettleRetry \/ Rewritten \/ SettleFails \/ Restart
  PROVE  [Queue!Next]_(Queue!qvars)
  <1>1. TypeOK /\ TypeOK' /\ SpoolTypeOK /\ Registers /\ EntryInHand
    BY DEF IInv, TypeOK
  <1>2. UNCHANGED <<Handed, waived>> /\ UNCHANGED <<eml, promised>>
    BY DEF SettleRetry, StartRewrite, Rewritten, SettleFails, Restart, RestartSpool, KeepHistory,
       Handed
  <1>3. CASE SettleRetry
    <2>1. /\ wpc = "deliver" /\ wpc' = "rewrite" /\ cur' = cur /\ todo = {} /\ still # {}
          /\ json' = [json EXCEPT ![cur] = "torn"]
          /\ \E d \in {wnow + Delay} :
               meta' = [meta EXCEPT ![cur].pending = still, ![cur].attempts = @ + 1,
                                    ![cur].next = d]
      BY <1>3 DEF SettleRetry, StartRewrite, RoundOver
    <2>2. /\ cur \in Msgs /\ Status(cur) = "queued" /\ Owing(cur) = meta[cur].pending
          /\ Owing(cur) \subseteq Targets
      BY <2>1, InHandQueued
    <2>3. \A n \in Msgs : n # cur => Same(n)
      BY <1>1, <1>2, <2>1 DEF SpoolTypeOK, Same, Rewriting
    <2>4. \A n \in Msgs : n # cur => Status(n)' = Status(n) /\ Owing(n)' = Owing(n)
      BY <1>1, <2>3, SameStatus
    <2>5. json'[cur] = "torn" /\ meta'[cur].pending = still
      BY <1>1, <2>1, <2>2 DEF SpoolTypeOK, Meta
    <2>6. Status(cur)' = "queued"
      BY <1>1, <2>1, <2>2, <2>5, ReadingHoldsNext DEF Reading, Torn, Rewriting
    <2>7. still = Owing(cur)'
      BY <2>1, <2>5, <2>6 DEF Owing
    <2>8. still \subseteq Owing(cur) /\ \A t \in Owing(cur) \ still : Served(cur, t)
      BY <1>1, <2>1, <2>2 DEF EntryInHand
    <2> QED
      BY <1>1, <1>2, <2>1, <2>2, <2>4, <2>6, <2>7, <2>8, Records DEF OnlyOne, TypeOK
  <1>4. CASE Rewritten \/ SettleFails \/ Restart
    <2>1. CASE wpc # "rewrite"
      <3>1. UNCHANGED <<json, eml, meta, promised>> /\ wpc' # "rewrite"
        BY <1>4, <2>1 DEF Rewritten, SettleFails, Restart, RestartSpool, EndOfTick
      <3> QED
        BY <1>2, <2>1, <3>1, QuietRefines, Stutters
    <2>2. CASE wpc = "rewrite"
      <3>1. /\ cur \in Msgs /\ Status(cur) = "queued" /\ Owing(cur) = meta[cur].pending
            /\ eml[cur] = Size[cur] /\ Size[cur] > 0 /\ json[cur] = "torn"
            /\ meta[cur].attempts > 0 /\ cur # NoMsg
        BY <1>1, <2>2, InHandQueued, SpoolAssumption, WorkerAssumption
           DEF EntryInHand, Addressed, Torn
      <3> PICK m \in Msgs : m = cur
        BY <3>1
      <3>2. /\ wpc' # "rewrite" /\ cur' = NoMsg /\ meta' = meta
            /\ json' \in {json, [json EXCEPT ![m] = "whole"]}
        BY <1>4, <2>2 DEF Rewritten, SettleFails, Restart, RestartSpool, EndOfTick
      <3>3. \A n \in Msgs : n # m => Same(n)
        BY <1>1, <1>2, <3>2 DEF SpoolTypeOK, Same, Rewriting
      <3>4. \A n \in Msgs : n # m => Status(n)' = Status(n) /\ Owing(n)' = Owing(n)
        BY <1>1, <3>3, SameStatus
      <3>5. Reading(m)' /\ ~ Rewriting(m)'
        BY <1>1, <3>2, ReadingHoldsNext DEF Rewriting
      <3>6. CASE json' = [json EXCEPT ![m] = "whole"]
        <4>1. json'[m] = "whole" /\ eml'[m] > 0
          BY <1>1, <1>2, <3>1, <3>6 DEF SpoolTypeOK
        <4>2. Status(m)' = "queued" /\ Status(m)' = Status(m)
          BY <3>1, <3>5, <4>1 DEF Reading, Whole
        <4>3. Owing(m)' = Owing(m)
          BY <3>1, <3>2, <4>2 DEF Owing
        <4>4. \A n \in Msgs : Status(n)' = Status(n) /\ Owing(n)' = Owing(n)
          BY <3>4, <4>2, <4>3
        <4> QED
          BY <1>2, <4>4, Stutters
      <3>7. CASE json' = json
        <4>1. Status(m)' = "damaged"
          BY <3>1, <3>2, <3>5, <3>7 DEF Reading, Torn
        <4> QED
          BY <1>2, <3>1, <3>4, <4>1, Leaves DEF OnlyOne
      <3> QED
        BY <3>2, <3>6, <3>7
    <2> QED
      BY <2>1, <2>2
  <1> QED
    BY <1>3, <1>4

\* Removal: an entry without its body, or without its json, is gone; by then
\* every target it was accepted for is served.
LEMMA RemovalRefines ==
  ASSUME IInv, IInv', Addressed, UnlinkEml \/ UnlinkJson
  PROVE  [Queue!Next]_(Queue!qvars)
  <1>1. TypeOK /\ TypeOK' /\ SpoolTypeOK /\ Registers /\ EntryInHand /\ EntryFiles(cur)
        /\ cur \in Msgs
    BY DEF IInv, TypeOK, UnlinkEml, UnlinkJson, Registers, InHand
  <1> PICK m \in Msgs : m = cur
    BY <1>1
  <1>2. /\ UNCHANGED <<Handed, waived, promised>> /\ wpc \in Removing
        /\ wpc # "rewrite" /\ wpc' # "rewrite"
    BY DEF UnlinkEml, UnlinkJson, KeepHistory, Handed, Removing
  <1>3. /\ json[m] = "whole" /\ \A t \in promised[m] : Served(m, t)
        /\ meta[m].pending \subseteq promised[m] /\ promised[m] \in SUBSET Targets
        /\ promised[m] # {}
    BY <1>1, <1>2 DEF EntryInHand, EntryFiles, Addressed, Whole, InHand, Removing, SpoolTypeOK
  <1>4. \/ UNCHANGED <<json, eml, meta>>
        \/ eml' = [eml EXCEPT ![m] = 0] /\ UNCHANGED <<json, meta>>
        \/ /\ json' = [json EXCEPT ![m] = "absent"] /\ meta' = [meta EXCEPT ![m] = NoMeta]
           /\ UNCHANGED eml
    BY DEF UnlinkEml, UnlinkJson
  <1>5. CASE UNCHANGED <<json, eml, meta>>
    BY <1>2, <1>5, QuietRefines, Stutters
  <1>6. CASE ~ UNCHANGED <<json, eml, meta>>
    <2>1. \A n \in Msgs : n # m => Same(n)
      BY <1>1, <1>2, <1>4 DEF SpoolTypeOK, Same, Rewriting
    <2>2. \A n \in Msgs : n # m => Status(n)' = Status(n) /\ Owing(n)' = Owing(n)
      BY <1>1, <2>1, SameStatus
    <2>3. Reading(m) /\ Reading(m)' /\ eml[m] \in Nat
      BY <1>1, ReadingHolds, ReadingHoldsNext DEF SpoolTypeOK
    <2>4. \/ json'[m] = "whole" /\ eml'[m] = 0
          \/ json'[m] = "absent" /\ meta'[m].pending = {} /\ promised'[m] # {}
      BY <1>1, <1>2, <1>3, <1>4, <1>6 DEF SpoolTypeOK, NoMeta
    <2>5. Status(m)' = "gone"
      BY <2>3, <2>4 DEF Reading, Whole
    <2>6. Status(m) \in {"queued", "gone"}
      BY <1>3, <2>3 DEF Reading, Whole
    <2>7. CASE Status(m) = "gone"
      <3>1. Status(m)' = Status(m) /\ Owing(m)' = Owing(m)
        BY <2>5, <2>7 DEF Owing
      <3>2. \A n \in Msgs : Status(n)' = Status(n) /\ Owing(n)' = Owing(n)
        BY <2>2, <3>1
      <3> QED
        BY <1>2, <3>2, Stutters
    <2>8. CASE Status(m) = "queued"
      <3>1. \A t \in Owing(m) : t \in Targets /\ Served(m, t)
        BY <1>3, <2>8 DEF Owing
      <3> QED
        BY <1>2, <2>2, <2>5, <2>8, <3>1, Leaves DEF OnlyOne
    <2> QED
      BY <2>6, <2>7, <2>8
  <1> QED
    BY <1>5, <1>6

LEMMA WorkerRefines ==
  ASSUME IInv, IInv', Addressed, [Next]_vars
  PROVE  [Queue!Next]_(Queue!qvars)
  <1>1. CASE \E t \in Targets : Delivered(t) \/ Failed(t) \/ Unconfigured(t)
    BY <1>1, RoundRefines
  <1>2. CASE SettleGiveUp
    BY <1>2, RoundRefines
  <1>3. CASE \/ ListDue \/ IdleTick \/ FinishTick \/ SettleDone \/ FreeBytes
             \/ Clock \/ UNCHANGED vars
             \/ \E m \in Msgs : LoadEntry(m) \/ SkipEntry(m)
    <2>1. /\ UNCHANGED <<json, eml, meta, promised, got, waived>>
          /\ UNCHANGED <<wpc, cur>> \/ (wpc # "rewrite" /\ wpc' # "rewrite")
      BY <1>3 DEF ListDue, IdleTick, FinishTick, SettleDone, RoundOver, FreeBytes, Clock, Passes,
         LoadEntry, SkipEntry, EndOfTick, KeepSpool, KeepHistory, vars, spoolVars, workerVars
    <2>2. \A n \in Msgs : Same(n)
      BY <2>1 DEF Same, Rewriting
    <2>3. \A n \in Msgs : Status(n)' = Status(n) /\ Owing(n)' = Owing(n)
      BY <2>2, SameStatus DEF IInv
    <2>4. UNCHANGED <<Handed, waived>>
      BY <2>1 DEF Handed
    <2> QED
      BY <2>3, <2>4, Stutters
  <1>4. CASE SettleRetry \/ Rewritten \/ SettleFails \/ Restart
    BY <1>4, RewriteRefines
  <1>5. CASE UnlinkEml \/ UnlinkJson
    BY <1>5, RemovalRefines
  <1>6. CASE \E m \in Msgs : SessionStep(m)
    BY <1>6, SessionRefines
  <1> QED
    BY <1>1, <1>2, <1>3, <1>4, <1>5, <1>6 DEF Next, Tick

\* Whatever the files go through, step by step and over any kills and disk
\* errors, the spool and its worker are an at-least-once queue: a target leaves
\* a message's debt only served or waived, a message leaves settled or damaged.
THEOREM WorkerIsQueue == Spec => ImplementsQueue
  <1>1. Init => Queue!Init
    <2> SUFFICES ASSUME Init PROVE Queue!Init
      OBVIOUS
    <2>1. TypeOK
      BY InitTypes
    <2>2. \A m \in Msgs : json[m] = "absent" /\ promised[m] = {}
      BY DEF Init, SpoolInit
    <2>3. \A m \in Msgs : Status(m) = "new" /\ Owing(m) = {}
      BY <2>1, <2>2, ReadingHolds DEF Reading, Owing
    <2>4. Statuses = [m \in Msgs |-> "new"] /\ Debts = [m \in Msgs |-> {}]
      BY <2>3 DEF Statuses, Debts
    <2>5. Handed = {} /\ waived = {}
      BY DEF Init, Handed
    <2> QED
      BY <2>4, <2>5 DEF Queue!Init, Statuses, Debts, Owing
  <1>2. IInv /\ IInv' /\ Addressed /\ [Next]_vars => [Queue!Next]_(Queue!qvars)
    BY WorkerRefines
  <1> QED
    BY <1>1, <1>2, AddressedInit, AddressedStep, Kept_Invariant, PTL
       DEF Spec, ImplementsQueue, Queue!Spec
==============================================================================
