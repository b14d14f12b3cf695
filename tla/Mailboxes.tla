------------------------------ MODULE Mailboxes ------------------------------
(***************************************************************************)
(* Local delivery: the quota check at the door (server/serve.rs,           *)
(* SpoolCommit::commit), the mailbox target (server/route.rs) and the      *)
(* Maildir it writes into (server/store.rs), with readers that fetch and   *)
(* expunge.                                                                *)
(*                                                                         *)
(* A session counts the files of each recipient's new/ and cur/, one       *)
(* directory after the other, and hands the message to the spool, which is *)
(* module Spool's and one step here.  The worker stores it for one         *)
(* recipient after the other: create the file in tmp/, fill it, rename it  *)
(* into new/.  One failure fails the whole message, and the next round     *)
(* starts from the first recipient again.  A mailbox is the recipient as   *)
(* the client spelled it.                                                  *)
(***************************************************************************)
EXTENDS Integers, Sequences, FiniteSets, FiniteSetsExt

CONSTANTS
  Msgs,          \* the messages clients submit, one commit each
  Boxes,         \* recipients the door accepts
  Safe,          \* those whose spelling safe_mailbox allows
  Envelopes,     \* recipient lists clients give
  Size,          \* Size[m]: bytes of m
  Quotas,        \* what mailbox_quota_bytes may be; 0 is unlimited
  MaxTries,      \* rounds the retry policy allows a message
  NoMsg,         \* the worker holds no message
  MaxMishaps     \* bound: file operations that fail and kills, together

ASSUME MailboxesAssumption ==
  /\ IsFiniteSet(Msgs) /\ NoMsg \notin Msgs
  /\ Safe \subseteq Boxes
  /\ Envelopes \subseteq Seq(Boxes) \ {<<>>}
  /\ Size \in [Msgs -> Nat \ {0}]
  /\ Quotas \subseteq Nat /\ MaxTries \in Nat \ {0}
  /\ MaxMishaps \in Nat

VARIABLES
  rcpts,         \* rcpts[m]: the envelope of m, in the client's order
  at,            \* at[m]: how far m has come
  check,         \* check[m]: the recipient and directory commit counts next,
                 \*   and the bytes counted so far
  files,         \* the Maildir
  quota,         \* mailbox_quota_bytes
  job,           \* the message the worker delivers, or NoMsg
  pos,           \* the recipient it stores for
  part,          \* how far Maildir::store has come for that recipient
  mine,          \* the file this call of store writes
  tries,         \* tries[m]: rounds that failed
  got,           \* history: copies of m that reached b's new/
  crowded,       \* history: mailboxes where the check could not know what was
                 \*   still to come
  faults, kills  \* history: operations failed, processes killed

doorVars == <<rcpts, at, check>>
workVars == <<job, pos, part, mine>>
vars == <<rcpts, at, check, files, quota, job, pos, part, mine, tries, got, crowded, faults, kills>>

Stage == {"offered", "checking", "passed", "refused", "cut", "relayed",
          "queued", "stored", "dropped"}

Fresh == [rcpt |-> 1, dir |-> "new", total |-> 0]

Init ==
  /\ rcpts \in [Msgs -> Envelopes]
  /\ at = [m \in Msgs |-> "offered"]
  /\ check = [m \in Msgs |-> Fresh]
  /\ files = {}
  /\ quota \in Quotas
  /\ job = NoMsg /\ pos = 1 /\ part = "next" /\ mine = 0
  /\ tries = [m \in Msgs |-> 0]
  /\ got = [m \in Msgs |-> [b \in Boxes |-> 0]]
  /\ crowded = {}
  /\ faults = 0 /\ kills = 0

Fault == faults + kills < MaxMishaps /\ faults' = faults + 1

Goto(m, stage) == at' = [at EXCEPT ![m] = stage]

Bytes(S) == SumFunctionOnSet([f \in S |-> Size[f.of]], S)
In(b, dirs) == {f \in files : f.box = b /\ f.dir \in dirs}

\* What a reader, and a quota, sees of a mailbox.
Held(b) == Bytes(In(b, {"new", "cur"}))

Repeated(m, b) == \E i, j \in 1 .. Len(rcpts[m]) : i # j /\ rcpts[m][i] = b /\ rcpts[m][j] = b

UnderWay(b) ==
  {n \in Msgs : at[n] \in {"checking", "passed", "queued"} /\ \E i \in 1 .. Len(rcpts[n]) : rcpts[n][i] = b}

\* Bytes for b are promised that the check of m cannot see.
NoteCrowd(m, b) ==
  crowded' = IF UnderWay(b) \ {m} # {} \/ Repeated(m, b) THEN crowded \cup {b} ELSE crowded

------------------------------------------------------------------------------
\* SpoolCommit::commit.

\* A logged-in client's mail goes to the outbound relay, whoever it is for.
Submit(m) ==
  /\ at[m] = "offered"
  /\ Goto(m, "relayed")
  /\ UNCHANGED <<rcpts, check, files, quota, workVars, tries, got, crowded, faults, kills>>

Unlimited(m) ==
  /\ at[m] = "offered" /\ quota = 0
  /\ Goto(m, "passed")
  /\ UNCHANGED <<rcpts, check, files, quota, workVars, tries, got, crowded, faults, kills>>

StartCheck(m) ==
  /\ at[m] = "offered" /\ quota > 0
  /\ Goto(m, "checking")
  /\ NoteCrowd(m, rcpts[m][1])
  /\ UNCHANGED <<rcpts, check, files, quota, workVars, tries, got, faults, kills>>

Counted(m) == check[m].total + Bytes(In(rcpts[m][check[m].rcpt], {check[m].dir}))

\* Maildir::size, first half.
CountNew(m) ==
  /\ at[m] = "checking" /\ check[m].dir = "new"
  /\ check' = [check EXCEPT ![m].dir = "cur", ![m].total = Counted(m)]
  /\ UNCHANGED <<rcpts, at, files, quota, workVars, tries, got, crowded, faults, kills>>

\* Second half, and the mailbox would exceed the quota: 452.
RefuseFull(m) ==
  /\ at[m] = "checking" /\ check[m].dir = "cur"
  /\ Counted(m) + Size[m] > quota
  /\ Goto(m, "refused")
  /\ check' = [check EXCEPT ![m] = Fresh]
  /\ UNCHANGED <<rcpts, files, quota, workVars, tries, got, crowded, faults, kills>>

\* Variant: the message itself is not counted in.
HasRoomForNone(m) ==
  /\ at[m] = "checking" /\ check[m].dir = "cur"
  /\ Counted(m) <= quota
  /\ LET next == check[m].rcpt + 1
     IN  IF next <= Len(rcpts[m])
           THEN /\ check' = [check EXCEPT ![m] = [Fresh EXCEPT !.rcpt = next]]
                /\ NoteCrowd(m, rcpts[m][next])
                /\ UNCHANGED at
           ELSE check' = [check EXCEPT ![m] = Fresh] /\ Goto(m, "passed") /\ UNCHANGED crowded
  /\ UNCHANGED <<rcpts, files, quota, workVars, tries, got, faults, kills>>

\* Second half, and it would not: on to the next recipient, or to the spool.
HasRoom(m) ==
  /\ at[m] = "checking" /\ check[m].dir = "cur"
  /\ Counted(m) + Size[m] <= quota
  /\ LET next == check[m].rcpt + 1
     IN  IF next <= Len(rcpts[m])
           THEN /\ check' = [check EXCEPT ![m] = [Fresh EXCEPT !.rcpt = next]]
                /\ NoteCrowd(m, rcpts[m][next])
                /\ UNCHANGED at
           ELSE check' = [check EXCEPT ![m] = Fresh] /\ Goto(m, "passed") /\ UNCHANGED crowded
  /\ UNCHANGED <<rcpts, files, quota, workVars, tries, got, faults, kills>>

\* enqueue succeeds and the message is due for the mailbox, or fails with 451.
Spool(m) ==
  /\ at[m] = "passed"
  /\ \/ Goto(m, "queued") /\ UNCHANGED faults
     \/ Goto(m, "refused") /\ Fault
  /\ UNCHANGED <<rcpts, check, files, quota, workVars, tries, got, crowded, kills>>

Session(m) ==
  \/ Submit(m) \/ Unlimited(m) \/ StartCheck(m) \/ CountNew(m) \/ RefuseFull(m) \/ HasRoom(m)
  \/ Spool(m)

------------------------------------------------------------------------------
\* The worker and MailboxTarget::deliver.

Begin(m) ==
  /\ job = NoMsg /\ at[m] = "queued"
  /\ job' = m /\ pos' = 1 /\ part' = "next" /\ mine' = 0
  /\ UNCHANGED <<doorVars, files, quota, tries, got, crowded, faults, kills>>

ThisBox == rcpts[job][pos]

Busy(where) == job # NoMsg /\ pos <= Len(rcpts[job]) /\ part = where

\* The target answered Failed: the worker tries again later, or gives up.
RoundFails ==
  /\ tries' = [tries EXCEPT ![job] = @ + 1]
  /\ IF tries[job] + 1 < MaxTries THEN UNCHANGED at ELSE Goto(job, "dropped")
  /\ job' = NoMsg /\ pos' = 1 /\ part' = "next" /\ mine' = 0
  /\ UNCHANGED <<rcpts, check, files, quota, got, crowded, kills>>

\* safe_mailbox refuses the name, in every round.
UnsafeName ==
  /\ Busy("next") /\ ThisBox \notin Safe
  /\ RoundFails /\ UNCHANGED faults

\* unique_name draws a name no file has had; here it is the least number no
\* file has.
FreeName == CHOOSE n \in 0 .. Cardinality(files) : \A f \in files : f.name # n

Created(dir) == [box |-> ThisBox, of |-> job, name |-> FreeName, dir |-> dir, whole |-> FALSE]

\* Variant: the file is created where readers look.
CreateInNew ==
  /\ Busy("next") /\ ThisBox \in Safe
  /\ files' = files \cup {Created("new")} /\ mine' = FreeName
  /\ part' = "writing"
  /\ UNCHANGED <<doorVars, quota, job, pos, tries, got, crowded, faults, kills>>

CreateTmp ==
  /\ Busy("next") /\ ThisBox \in Safe
  /\ files' = files \cup {Created("tmp")} /\ mine' = FreeName
  /\ part' = "writing"
  /\ UNCHANGED <<doorVars, quota, job, pos, tries, got, crowded, faults, kills>>

FillTmp ==
  /\ Busy("writing")
  /\ files' = {IF f.name = mine THEN [f EXCEPT !.whole = TRUE] ELSE f : f \in files}
  /\ part' = "written"
  /\ UNCHANGED <<doorVars, quota, job, pos, mine, tries, got, crowded, faults, kills>>

Publish ==
  /\ Busy("written")
  /\ files' = {IF f.name = mine THEN [f EXCEPT !.dir = "new"] ELSE f : f \in files}
  /\ got' = [got EXCEPT ![job][ThisBox] = @ + 1]
  /\ crowded' = IF got[job][ThisBox] > 0 THEN crowded \cup {ThisBox} ELSE crowded
  /\ pos' = pos + 1 /\ part' = "next" /\ mine' = 0
  /\ UNCHANGED <<doorVars, quota, job, tries, faults, kills>>

\* Variant: the other recipients are stored for all the same.
StoreSkips ==
  /\ \E where \in {"next", "writing", "written"} : Busy(where)
  /\ ThisBox \in Safe
  /\ Fault
  /\ pos' = pos + 1 /\ part' = "next" /\ mine' = 0
  /\ UNCHANGED <<doorVars, files, quota, job, tries, got, crowded, kills>>

\* A directory cannot be made, the file not written or not renamed; what is in
\* tmp/ stays there.
StoreFails ==
  /\ \E where \in {"next", "writing", "written"} : Busy(where)
  /\ ThisBox \in Safe
  /\ Fault
  /\ RoundFails

\* Delivered, and settled.
Report ==
  /\ job # NoMsg /\ pos > Len(rcpts[job])
  /\ Goto(job, "stored")
  /\ job' = NoMsg /\ pos' = 1 /\ part' = "next" /\ mine' = 0
  /\ UNCHANGED <<rcpts, check, files, quota, tries, got, crowded, faults, kills>>

Worker ==
  \/ \E m \in Msgs : Begin(m)
  \/ UnsafeName \/ CreateTmp \/ FillTmp \/ Publish \/ StoreFails \/ Report

------------------------------------------------------------------------------
\* The process is killed and started again: sessions are cut, the message in
\* hand is due as before.
Kill ==
  /\ faults + kills < MaxMishaps /\ kills' = kills + 1
  /\ at' = [m \in Msgs |-> IF at[m] \in {"checking", "passed"} THEN "cut" ELSE at[m]]
  /\ check' = [m \in Msgs |-> Fresh]
  /\ job' = NoMsg /\ pos' = 1 /\ part' = "next" /\ mine' = 0
  /\ UNCHANGED <<rcpts, files, quota, tries, got, crowded, faults>>

\* A Maildir reader takes a message out of new/, and removes it in the end.
Read(f) ==
  /\ f \in files
  /\ \/ f.dir = "new" /\ files' = (files \ {f}) \cup {[f EXCEPT !.dir = "cur"]}
     \/ f.dir = "cur" /\ files' = files \ {f}
  /\ UNCHANGED <<doorVars, quota, workVars, tries, got, crowded, faults, kills>>

Next ==
  \/ \E m \in Msgs : Session(m)
  \/ Worker
  \/ Kill
  \/ \E f \in files : Read(f)

Spec == Init /\ [][Next]_vars

------------------------------------------------------------------------------
Count(totals) == [rcpt : Nat \ {0}, dir : {"new", "cur"}, total : totals]

File == [box : Boxes, of : Msgs, name : Nat, dir : {"tmp", "new", "cur"}, whole : BOOLEAN]

TypeOK ==
  /\ rcpts \in [Msgs -> Envelopes]
  /\ at \in [Msgs -> Stage]
  /\ check \in [Msgs -> Count({check[m].total : m \in Msgs})]
  /\ \A m \in Msgs : check[m].rcpt <= Len(rcpts[m])
  /\ files \subseteq File /\ IsFiniteSet(files) /\ mine \in Nat /\ quota \in Quotas
  /\ job \in Msgs \cup {NoMsg}
  /\ pos \in Nat \ {0} /\ (job # NoMsg => pos <= Len(rcpts[job]) + 1)
  /\ part \in {"next", "writing", "written"}
  /\ tries \in [Msgs -> 0 .. MaxTries]
  /\ got \in [Msgs -> [Boxes -> Nat]]
  /\ crowded \subseteq Boxes
  /\ faults \in Nat /\ kills \in Nat

\* "a reader never sees a half-written message" (store.rs): whatever fails or is
\* killed, a file in new/ or cur/ is whole, is one the mailbox was meant to get,
\* and no two files share a name.
ReaderSeesWhole ==
  /\ \A f \in files : f.dir # "tmp" =>
       f.whole /\ f.box \in Safe /\ \E i \in 1 .. Len(rcpts[f.of]) : rcpts[f.of][i] = f.box
  /\ \A f, g \in files : f.name = g.name => f = g

\* A message the mailbox target reported delivered has reached every recipient
\* of its envelope, through all the rounds, kills and errors before.
StoredMeansAll ==
  \A m \in Msgs : at[m] = "stored" =>
    \A i \in 1 .. Len(rcpts[m]) : got[m][rcpts[m][i]] > 0

Times(m, b) == Cardinality({i \in 1 .. Len(rcpts[m]) : rcpts[m][i] = b})

Rounds(m) == tries[m] + kills + (IF job = m \/ at[m] = "stored" THEN 1 ELSE 0)

\* A recipient gets at most one copy per round begun and mention in the
\* envelope, and never more than one mentioned before: who comes behind a
\* recipient that fails waits for it.
CopiesInOrder ==
  \A m \in Msgs :
    /\ \A b \in Boxes : got[m][b] <= Times(m, b) * Rounds(m)
    /\ \A i, j \in 1 .. Len(rcpts[m]) :
         i < j /\ ~ Repeated(m, rcpts[m][j]) => got[m][rcpts[m][i]] >= got[m][rcpts[m][j]]

\* A mailbox exceeds its quota only where the door could not know: while it
\* counted, another message for the mailbox was between its own check and its
\* delivery, the envelope named the mailbox twice, or a round was repeated.
\* Readers that move files while they are counted are no excuse.
QuotaHolds ==
  quota > 0 => \A b \in Boxes : Held(b) > quota => b \in crowded
==============================================================================
