------------------------------- MODULE Worker --------------------------------
(***************************************************************************)
(* The delivery worker of server/worker.rs, running beside the sessions of *)
(* module Spool: every few seconds it lists the entries that are due,      *)
(* loads each, tries every pending target and settles the outcome.  The    *)
(* process may be killed and restarted between any two steps.              *)
(*                                                                         *)
(* What happened to each message is recorded in two history variables:     *)
(* got[m][t] counts the times target t reported m delivered, and waived    *)
(* holds the <<m, t>> the worker has given up on purpose (lifetime spent,  *)
(* or t no longer configured).                                             *)
(***************************************************************************)
EXTENDS Spool

CONSTANTS
  NoMsg,        \* the worker holds no entry
  MaxCrashes    \* bound: times the process is killed

ASSUME WorkerAssumption == NoMsg \notin Msgs /\ MaxCrashes \in Nat

VARIABLES
  wpc,          \* where tick stands
  wnow,         \* the time tick was called with
  batch,        \* the due entries tick has not come to yet
  cur,          \* the entry in hand
  todo,         \* its pending targets not tried yet
  still,        \* its targets that failed in this round (still_pending)
  got,          \* history: deliveries reported by each target
  waived,       \* history: deliveries given up on purpose
  crashes       \* history: times the process was killed

workerVars == <<wpc, wnow, batch, cur, todo, still>>
vars == <<spoolVars, workerVars, got, waived, crashes>>

WorkerPoint == {"idle", "next", "deliver", "rewrite", "free", "unlinkEml", "unlinkJson"}

Init ==
  /\ SpoolInit
  /\ wpc = "idle" /\ wnow = 0 /\ batch = {}
  /\ cur = NoMsg /\ todo = {} /\ still = {}
  /\ got = [m \in Msgs |-> [t \in Targets |-> 0]]
  /\ waived = {}
  /\ crashes = 0

\* Nothing of the queue is touched by the step.
KeepSpool == UNCHANGED spoolVars
KeepHistory == UNCHANGED <<got, waived, crashes>>

Whole(m) == json[m] = "whole"
Torn(m) == json[m] = "torn"

\* The tick ends, whether it ran to its end or an error cut it short.
EndOfTick == wpc' = "idle" /\ batch' = {} /\ cur' = NoMsg /\ todo' = {} /\ still' = {} /\ wnow' = 0

------------------------------------------------------------------------------
\* tick: list_due.  One metadata file that does not parse fails the whole
\* listing, and with it the tick.
ListDue ==
  /\ wpc = "idle"
  /\ \A m \in Msgs : ~ Torn(m)
  /\ LET due == {m \in Msgs : Whole(m) /\ meta[m].next <= now}
     IN  /\ due # {}
         /\ batch' = due
  /\ wpc' = "next"
  /\ wnow' = now
  /\ UNCHANGED <<cur, todo, still>>
  /\ KeepSpool /\ KeepHistory

\* A tick with nothing to do, or whose listing failed: the worker sleeps on.
IdleTick ==
  /\ wpc = "idle"
  /\ \/ \E m \in Msgs : Torn(m)
     \/ \A m \in Msgs : ~ (Whole(m) /\ meta[m].next <= now)
  /\ UNCHANGED vars

LoadEntry(m) ==
  /\ wpc = "next" /\ m \in batch
  /\ Whole(m) /\ eml[m] > 0
  /\ wpc' = "deliver"
  /\ batch' = batch \ {m}
  /\ cur' = m /\ todo' = meta[m].pending /\ still' = {}
  /\ UNCHANGED wnow
  /\ KeepSpool /\ KeepHistory

\* An entry whose body is gone, or whose files cannot be read now, is skipped.
SkipEntry(m) ==
  /\ wpc = "next" /\ m \in batch
  /\ \/ (~ Whole(m) \/ eml[m] = 0) /\ UNCHANGED faults
     \/ Whole(m) /\ eml[m] > 0 /\ Fault
  /\ batch' = batch \ {m}
  /\ UNCHANGED <<wpc, wnow, cur, todo, still>>
  /\ UNCHANGED <<now, targets, eml, json, meta, used, enq, promised>>
  /\ KeepHistory

FinishTick ==
  /\ wpc = "next" /\ batch = {}
  /\ EndOfTick
  /\ KeepSpool /\ KeepHistory

------------------------------------------------------------------------------
\* One pending target of the entry in hand.
Delivered(t) ==
  /\ wpc = "deliver" /\ t \in todo \cap targets
  /\ got' = [got EXCEPT ![cur][t] = @ + 1]
  /\ todo' = todo \ {t}
  /\ UNCHANGED <<wpc, wnow, batch, cur, still, waived, crashes>>
  /\ KeepSpool

Failed(t) ==
  /\ wpc = "deliver" /\ t \in todo \cap targets
  /\ todo' = todo \ {t}
  /\ still' = still \cup {t}
  /\ UNCHANGED <<wpc, wnow, batch, cur>>
  /\ KeepSpool /\ KeepHistory

\* A target that is no longer configured is dropped.
Unconfigured(t) ==
  /\ wpc = "deliver" /\ t \in todo \ targets
  /\ todo' = todo \ {t}
  /\ waived' = waived \cup {<<cur, t>>}
  /\ UNCHANGED <<wpc, wnow, batch, cur, still, got, crashes>>
  /\ KeepSpool

------------------------------------------------------------------------------
\* Variant: targets may be left untried.
RoundCutShort == wpc = "deliver"

RoundOver == wpc = "deliver" /\ todo = {}

\* Saturating: a clock set back makes the wait zero.
Elapsed == IF wnow >= meta[cur].enqueued THEN wnow - meta[cur].enqueued ELSE 0

Delay == NextDelay(meta[cur].attempts + 1, Elapsed)

\* Every target succeeded: settle(id, &[]).
SettleDone ==
  /\ RoundOver /\ still = {}
  /\ wpc' = "free"
  /\ UNCHANGED <<wnow, batch, cur, todo, still>>
  /\ KeepSpool /\ KeepHistory

\* The retry budget is spent: the entry is removed, its failures forgotten.
SettleGiveUp ==
  /\ RoundOver /\ still # {}
  /\ Delay = GiveUp
  /\ wpc' = "free"
  /\ waived' = waived \cup ({cur} \X still)
  /\ still' = {}
  /\ UNCHANGED <<wnow, batch, cur, todo, got, crashes>>
  /\ KeepSpool

\* settle with survivors: read the json, then truncate it to write it anew.
StartRewrite(pending, next) ==
  /\ RoundOver /\ still # {}
  /\ Delay # GiveUp
  /\ json' = [json EXCEPT ![cur] = "torn"]
  /\ meta' = [meta EXCEPT ![cur].pending = pending,
                          ![cur].attempts = @ + 1,
                          ![cur].next = next]
  /\ wpc' = "rewrite"
  /\ UNCHANGED <<wnow, batch, cur, todo, still>>
  /\ UNCHANGED <<now, targets, eml, used, enq, promised, faults>>
  /\ KeepHistory

\* Variant: the targets that succeeded stay pending.
SettleAll == StartRewrite(meta[cur].pending, wnow + Delay)

\* Variant: the time of the next try is left as it was.
SettleAtOnce == StartRewrite(still, meta[cur].next)

\* What failed stays pending; the retry time counts from the start of the tick.
SettleRetry == StartRewrite(still, wnow + Delay)

\* ... and fill it.
Rewritten ==
  /\ wpc = "rewrite"
  /\ json' = [json EXCEPT ![cur] = "whole"]
  /\ wpc' = "next" /\ cur' = NoMsg /\ still' = {}
  /\ UNCHANGED <<wnow, batch, todo>>
  /\ UNCHANGED <<now, targets, eml, meta, used, enq, promised, faults>>
  /\ KeepHistory

\* The json cannot be read or opened (it stays as it was) or cannot be filled
\* (it stays torn); the error ends the tick and the rest of the batch waits.
SettleFails ==
  /\ \/ RoundOver /\ still # {} /\ Delay # GiveUp
     \/ wpc = "rewrite"
  /\ Fault
  /\ EndOfTick
  /\ UNCHANGED <<now, targets, eml, json, meta, used, enq, promised>>
  /\ KeepHistory

\* Removal, first step: give the bytes back, if the body's size can be read.
FreeBytes ==
  /\ wpc = "free"
  /\ \/ /\ used' = IF IsCapped THEN WrapSub(used, eml[cur]) ELSE used
        /\ UNCHANGED faults
     \/ IsCapped /\ UNCHANGED used /\ Fault
  /\ wpc' = "unlinkEml"
  /\ UNCHANGED <<wnow, batch, cur, todo, still>>
  /\ UNCHANGED <<now, targets, eml, json, meta, enq, promised>>
  /\ KeepHistory

\* Then the body goes; a failure to remove it is ignored.
UnlinkEml ==
  /\ wpc = "unlinkEml"
  /\ \/ eml' = [eml EXCEPT ![cur] = 0] /\ UNCHANGED faults
     \/ UNCHANGED eml /\ Fault
  /\ wpc' = "unlinkJson"
  /\ UNCHANGED <<wnow, batch, cur, todo, still>>
  /\ UNCHANGED <<now, targets, json, meta, used, enq, promised>>
  /\ KeepHistory

\* Last the metadata; a failure to remove it is ignored too.
UnlinkJson ==
  /\ wpc = "unlinkJson"
  /\ \/ /\ json' = [json EXCEPT ![cur] = "absent"]
        /\ meta' = [meta EXCEPT ![cur] = NoMeta]
        /\ UNCHANGED faults
     \/ UNCHANGED <<json, meta>> /\ Fault
  /\ wpc' = "next" /\ cur' = NoMsg
  /\ UNCHANGED <<wnow, batch, todo, still>>
  /\ UNCHANGED <<now, targets, eml, used, enq, promised>>
  /\ KeepHistory

------------------------------------------------------------------------------
\* The process is killed at any point and started again.
Restart ==
  /\ crashes < MaxCrashes
  /\ crashes' = crashes + 1
  /\ RestartSpool
  /\ EndOfTick
  /\ UNCHANGED <<got, waived>>

Session(m) == Admit(m) \/ RefuseFull(m) \/ Commit(m)

SessionStep(m) == Session(m) /\ UNCHANGED <<workerVars, got, waived, crashes>>

Clock == Passes /\ UNCHANGED <<workerVars, got, waived, crashes>>

Tick ==
  \/ ListDue \/ IdleTick \/ FinishTick
  \/ \E m \in Msgs : LoadEntry(m) \/ SkipEntry(m)
  \/ \E t \in Targets : Delivered(t) \/ Failed(t) \/ Unconfigured(t)
  \/ SettleDone \/ SettleGiveUp \/ SettleRetry \/ Rewritten \/ SettleFails
  \/ FreeBytes \/ UnlinkEml \/ UnlinkJson

Next ==
  \/ \E m \in Msgs : SessionStep(m)
  \/ Tick
  \/ Clock
  \/ Restart

Spec == Init /\ [][Next]_vars

\* The runtime polls the worker task and every session that is inside commit;
\* time passes.  Clients owe nothing, a disk owes nothing, and a delivery
\* attempt is assumed to return, with whatever outcome.
Fairness ==
  /\ WF_vars(Tick)
  /\ \A m \in Msgs : WF_vars(Commit(m) /\ UNCHANGED <<workerVars, got, waived, crashes>>)
  /\ WF_vars(Clock)

FairSpec == Spec /\ Fairness

------------------------------------------------------------------------------
TypeOK ==
  /\ SpoolTypeOK
  /\ wpc \in WorkerPoint
  /\ wnow \in Nat
  /\ batch \subseteq Msgs
  /\ cur \in Msgs \cup {NoMsg}
  /\ todo \subseteq Targets
  /\ still \subseteq Targets
  /\ got \in [Msgs -> [Targets -> Nat]]
  /\ waived \subseteq Msgs \X Targets
  /\ crashes \in Nat

\* The queue has done its duty to t: t reported m delivered, or was given up.
Served(m, t) == got[m][t] > 0 \/ <<m, t>> \in waived

\* m is on disk, readable, and still due for t.
Kept(m, t) == Whole(m) /\ t \in meta[m].pending /\ eml[m] = Size[m]

Rewriting(m) == wpc = "rewrite" /\ cur = m

\* "Once a message is accepted we own it": every target a message was accepted
\* for is served or still owed on disk, whatever is killed or fails.  The one
\* exception is settle's rewrite of the json in place: while the worker is in
\* it, or after a crash or a disk error inside it, the json is torn; even then
\* the body is whole.
AcceptedIsKept ==
  \A m \in Msgs : enq[m] = "accepted" =>
    \A t \in promised[m] :
      \/ Served(m, t)
      \/ Kept(m, t)
      \/ Torn(m) /\ eml[m] = Size[m] /\ (Rewriting(m) \/ crashes + faults > 0)

\* Delivery is at least once: a target sees a message a second time only when
\* a kill or a disk error fell between its success and the settle that records
\* it, and each such event costs at most one repetition.
RedeliveryBounded ==
  \A m \in Msgs, t \in Targets : got[m][t] <= 1 + crashes + faults

\* A message reaches no target it was not accepted for: what a logged-in client
\* submits is never filed locally, what comes in is never relayed, under any
\* restart into another configuration.
NeverMisrouted ==
  \A m \in Msgs, t \in Targets : got[m][t] > 0 => t \in promised[m]

\* A message the session answered with 451 is never delivered, whatever enqueue
\* left on disk: the client keeps it and will submit it again.
RefusedIsNotSent ==
  \A m \in Msgs : enq[m] = "refused" => \A t \in Targets : got[m][t] = 0

ShortestDelay == IF FirstDelay <= DelayCap THEN FirstDelay ELSE DelayCap

\* However late the ticks come, each failed round has put the next one off by
\* at least the shortest delay of the schedule.
RetriesSpaced ==
  \A m \in Msgs : meta[m].attempts > 0 =>
    meta[m].enqueued + meta[m].attempts * ShortestDelay <= meta[m].next

\* No retry is ever put off past the lifetime by more than the longest delay.
RetryHorizon ==
  \A m \in Msgs : meta[m].attempts > 0 =>
    meta[m].next < meta[m].enqueued + Lifetime + DelayCap

SizeOfAll(S) == SumFunctionOnSet(Size, S)

\* While no file operation has failed, Spool.used is exactly the bytes on disk,
\* less the bodies a session has written and not counted yet and the one body
\* the worker has given back and not removed yet; restarts included.
UsedIsExact ==
  IsCapped /\ faults = 0 =>
    used + SizeOfAll({m \in Msgs : enq[m] = "stored"})
         + (IF wpc = "unlinkEml" THEN eml[cur] ELSE 0) = SpooledBytes

Largest == CHOOSE n \in {Size[m] : m \in Msgs} : \A m \in Msgs : Size[m] <= n

\* The cap is soft, but not unboundedly so: the disk exceeds it by at most one
\* body per session that passed the check before the others were counted and,
\* per failed file operation, one body that is no longer counted.
SoftCap ==
  IsCapped => SpooledBytes <= MaxBytes + (MaxSessions + faults) * Largest

\* An entry is out of the queue: no json, or a json without a body.
Gone(m) == json[m] = "absent" \/ (Whole(m) /\ eml[m] = 0)

\* Every accepted message leaves the queue, by delivery or by the lifetime,
\* unless some json stays torn for good and with it every later listing fails.
AcceptedLeaves ==
  \/ \A m \in Msgs : (enq[m] = "accepted") ~> Gone(m)
  \/ <>[](\E m \in Msgs : Torn(m))
==============================================================================
