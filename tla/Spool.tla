-------------------------------- MODULE Spool --------------------------------
(***************************************************************************)
(* The durable queue of server/spool.rs and the sessions that put mail     *)
(* into it (server/serve.rs, SpoolCommit::commit).                         *)
(*                                                                         *)
(* An entry is two files.  <id>.eml holds the body, <id>.json the envelope *)
(* and the delivery state.  Neither is written atomically: fs::write       *)
(* truncates (or creates) the file and then fills it, so a reader, a crash *)
(* or a disk error may meet a json that exists but does not parse.  A      *)
(* session checks the byte cap, writes the body, counts it, creates the    *)
(* json and fills it, each in a step of its own, while other sessions and  *)
(* the worker (module Worker) run.                                         *)
(*                                                                         *)
(* A message is identified with its spool id: every call of enqueue draws  *)
(* a fresh one.                                                            *)
(***************************************************************************)
EXTENDS Retry, FiniteSets, Functions

CONSTANTS
  Msgs,          \* the messages clients submit, one enqueue call each
  Targets,       \* names of delivery targets
  Outbound,      \* the target authenticated submissions are routed to
  Configs,       \* the sets of targets a process may be started with
  Size,          \* Size[m]: bytes of m's body, at least one
  MaxBytes,      \* spool_max_bytes; 0 is unlimited
  WordSize,      \* the byte counter is a machine word: 0 .. WordSize - 1
  MaxTime,       \* bound: the clock stops here
  AcceptUntil,   \* bound: no message is submitted after this time
  MaxSessions,   \* bound: sessions inside enqueue at the same time
  MaxFaults      \* bound: file operations that fail

ASSUME SpoolAssumption ==
  /\ IsFiniteSet(Msgs)
  /\ Outbound \in Targets
  /\ Configs \subseteq SUBSET Targets
  /\ \A c \in Configs : Outbound \in c /\ c # {Outbound}
  /\ Size \in [Msgs -> Nat \ {0}]
  /\ MaxBytes \in Nat
  /\ WordSize \in Nat /\ MaxBytes < WordSize /\ \A m \in Msgs : Size[m] < WordSize
  /\ MaxTime \in Nat /\ AcceptUntil \in Nat /\ MaxSessions \in Nat /\ MaxFaults \in Nat

VARIABLES
  now,           \* unix time
  targets,       \* names of the targets this process was started with
  eml,           \* eml[m]: bytes of <m>.eml on disk; 0 when absent or empty
  json,          \* json[m]: is <m>.json absent, torn (does not parse) or whole
  meta,          \* meta[m]: what <m>.json holds when whole, and what is being
                 \*   written to it when not
  used,          \* Spool.used, the in-memory count of live body bytes
  enq,           \* enq[m]: where the session committing m stands
  promised,      \* history: the targets m was accepted for
  faults         \* history: file operations that have failed so far

spoolVars == <<now, targets, eml, json, meta, used, enq, promised, faults>>

Meta == [pending : SUBSET Targets, attempts : Nat, enqueued : Nat, next : Nat]

NoMeta == [pending |-> {}, attempts |-> 0, enqueued |-> 0, next |-> 0]

\* "admitted" .. "creating" are the points inside enqueue; "spooled" is enqueue
\* returned Ok and the 250 not yet sent; "cut" is a session that died.
InEnqueue == {"admitted", "stored", "counted", "creating"}

EnqState == InEnqueue \cup {"new", "spooled", "accepted", "refused", "cut"}

SpoolInit ==
  /\ now = 0
  /\ targets \in Configs
  /\ eml = [m \in Msgs |-> 0]
  /\ json = [m \in Msgs |-> "absent"]
  /\ meta = [m \in Msgs |-> NoMeta]
  /\ used = 0
  /\ enq = [m \in Msgs |-> "new"]
  /\ promised = [m \in Msgs |-> {}]
  /\ faults = 0

\* AtomicU64::fetch_add and fetch_sub wrap around.
WrapAdd(a, b) == IF a + b < WordSize THEN a + b ELSE a + b - WordSize
WrapSub(a, b) == IF a >= b THEN a - b ELSE a - b + WordSize

IsCapped == MaxBytes > 0

\* What scan_used_bytes returns: every .eml on disk, whether or not a json
\* makes it an entry.
SpooledBytes == SumFunctionOnSet(eml, Msgs)

\* A disk operation fails; the bound keeps the number of failures finite.
Fault == faults < MaxFaults /\ faults' = faults + 1

At(m, point) == enq[m] = point
Goto(m, point) == enq' = [enq EXCEPT ![m] = point]

------------------------------------------------------------------------------
\* Variant: the byte cap is not checked.
AdmitUnchecked(m) ==
  /\ At(m, "new")
  /\ now <= AcceptUntil
  /\ Cardinality({n \in Msgs : enq[n] \in InEnqueue}) < MaxSessions
  /\ promised' = [promised EXCEPT ![m] = {Outbound}]
  /\ meta' = [meta EXCEPT ![m] = [pending |-> {Outbound}, attempts |-> 0,
                                  enqueued |-> now, next |-> now]]
  /\ Goto(m, "admitted")
  /\ UNCHANGED <<now, targets, eml, json, used, faults>>

\* SpoolCommit::commit up to enqueue's cap check.  Incoming mail is due for
\* every target but the outbound relay, an authenticated submission for the
\* relay alone.  The check reads `used` and acts on it later: it reserves
\* nothing.
Admit(m) ==
  /\ At(m, "new")
  /\ now <= AcceptUntil
  /\ Cardinality({n \in Msgs : enq[n] \in InEnqueue}) < MaxSessions
  /\ ~ (IsCapped /\ WrapAdd(used, Size[m]) > MaxBytes)
  /\ \E T \in {targets \ {Outbound}, {Outbound}} :
       /\ promised' = [promised EXCEPT ![m] = T]
       /\ meta' = [meta EXCEPT ![m] =
                     [pending |-> T, attempts |-> 0, enqueued |-> now, next |-> now]]
  /\ Goto(m, "admitted")
  /\ UNCHANGED <<now, targets, eml, json, used, faults>>

\* SpoolError::Full: the session answers 451.
RefuseFull(m) ==
  /\ At(m, "new")
  /\ now <= AcceptUntil
  /\ IsCapped /\ WrapAdd(used, Size[m]) > MaxBytes
  /\ Goto(m, "refused")
  /\ UNCHANGED <<now, targets, eml, json, meta, used, promised, faults>>

StoreBody(m) ==
  /\ At(m, "admitted")
  /\ eml' = [eml EXCEPT ![m] = Size[m]]
  /\ Goto(m, "stored")
  /\ UNCHANGED <<now, targets, json, meta, used, promised, faults>>

\* The write fails and leaves any proper prefix of the body behind; 451.
StoreBodyFails(m) ==
  /\ At(m, "admitted")
  /\ Fault
  /\ \E n \in 0 .. Size[m] - 1 : eml' = [eml EXCEPT ![m] = n]
  /\ Goto(m, "refused")
  /\ UNCHANGED <<now, targets, json, meta, used, promised>>

CountBody(m) ==
  /\ At(m, "stored")
  /\ used' = IF IsCapped THEN WrapAdd(used, Size[m]) ELSE used
  /\ Goto(m, "counted")
  /\ UNCHANGED <<now, targets, eml, json, meta, promised, faults>>

\* Variant: the json parses before enqueue knows that it could be written.
CreateJsonReadable(m) ==
  /\ At(m, "counted")
  /\ json' = [json EXCEPT ![m] = "whole"]
  /\ Goto(m, "creating")
  /\ UNCHANGED <<now, targets, eml, meta, used, promised, faults>>

\* fs::write(<id>.json), first half: the file exists and is empty.
CreateJson(m) ==
  /\ At(m, "counted")
  /\ json' = [json EXCEPT ![m] = "torn"]
  /\ Goto(m, "creating")
  /\ UNCHANGED <<now, targets, eml, meta, used, promised, faults>>

FillJson(m) ==
  /\ At(m, "creating")
  /\ json' = [json EXCEPT ![m] = "whole"]
  /\ Goto(m, "spooled")
  /\ UNCHANGED <<now, targets, eml, meta, used, promised, faults>>

\* Variant: the error is not looked at.
WriteJsonIgnored(m) ==
  /\ enq[m] \in {"counted", "creating"}
  /\ Fault
  /\ Goto(m, "spooled")
  /\ UNCHANGED <<now, targets, eml, json, meta, used, promised>>

\* The json cannot be created, or cannot be filled: enqueue returns the error,
\* the session answers 451, and nothing is undone.
WriteJsonFails(m) ==
  /\ enq[m] \in {"counted", "creating"}
  /\ Fault
  /\ Goto(m, "refused")
  /\ UNCHANGED <<now, targets, eml, json, meta, used, promised>>

\* The session answers 250, or finds the connection gone.
Answer(m) ==
  /\ At(m, "spooled")
  /\ \E point \in {"accepted", "cut"} : Goto(m, point)
  /\ UNCHANGED <<now, targets, eml, json, meta, used, promised, faults>>

Commit(m) ==
  \/ StoreBody(m) \/ StoreBodyFails(m) \/ CountBody(m)
  \/ CreateJson(m) \/ FillJson(m) \/ WriteJsonFails(m) \/ Answer(m)

Passes ==
  /\ now < MaxTime
  /\ now' = now + 1
  /\ UNCHANGED <<targets, eml, json, meta, used, enq, promised, faults>>

\* Variant: the byte count starts at zero again.
RestartUncounted ==
  /\ enq' = [m \in Msgs |-> IF enq[m] \in InEnqueue \cup {"spooled"}
                              THEN "cut" ELSE enq[m]]
  /\ used' = 0
  /\ targets' \in Configs
  /\ UNCHANGED <<now, eml, json, meta, promised, faults>>

\* The process dies and is started again: every session is cut, the byte
\* count is seeded from the disk (Spool::with_cap), and the targets are those
\* of the configuration it now finds.
RestartSpool ==
  /\ enq' = [m \in Msgs |-> IF enq[m] \in InEnqueue \cup {"spooled"}
                              THEN "cut" ELSE enq[m]]
  /\ used' = IF IsCapped THEN SpooledBytes ELSE 0
  /\ used' \in 0 .. WordSize - 1
  /\ targets' \in Configs
  /\ UNCHANGED <<now, eml, json, meta, promised, faults>>

------------------------------------------------------------------------------
SpoolTypeOK ==
  /\ now \in Nat
  /\ targets \in Configs
  /\ eml \in [Msgs -> Nat] /\ \A m \in Msgs : eml[m] <= Size[m]
  /\ json \in [Msgs -> {"absent", "torn", "whole"}]
  /\ meta \in [Msgs -> Meta]
  /\ used \in 0 .. WordSize - 1
  /\ enq \in [Msgs -> EnqState]
  /\ promised \in [Msgs -> SUBSET Targets]
  /\ faults \in Nat
==============================================================================
