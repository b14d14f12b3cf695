---------------------------- MODULE MailboxesProofs ---------------------------
(***************************************************************************)
(* Theorems of module Mailboxes, for any messages, envelopes, quotas and   *)
(* mishaps: what a reader finds, what "delivered" means, how many copies   *)
(* there are, and how far a quota holds.                                   *)
(***************************************************************************)
EXTENDS Mailboxes, Sums, FiniteSetTheorems, TLAPS

\* A name no file has is always to be found.
LEMMA FreeNameIsFree ==
  ASSUME IsFiniteSet(files)
  PROVE  FreeName \in Nat /\ \A f \in files : f.name # FreeName
  <1>1. Cardinality(files) \in Nat
    BY FS_CardinalityType
  <1>2. \E n \in 0 .. Cardinality(files) : \A f \in files : f.name # n
    <2> SUFFICES ASSUME \A n \in 0 .. Cardinality(files) : \E f \in files : f.name = n
                 PROVE  FALSE
      OBVIOUS
    <2> DEFINE Names == {f.name : f \in files}
    <2>1. IsFiniteSet(Names) /\ Cardinality(Names) <= Cardinality(files)
      <3>1. [f \in files |-> f.name] \in Surjection(files, Names)
        BY DEF Surjection
      <3> QED
        BY <3>1, FS_Surjection
    <2>2. 0 .. Cardinality(files) \subseteq Names
      OBVIOUS
    <2>3. Cardinality(0 .. Cardinality(files)) = Cardinality(files) + 1
      BY <1>1, FS_Interval
    <2>4. Cardinality(0 .. Cardinality(files)) <= Cardinality(Names)
      BY <2>1, <2>2, FS_Subset
    <2> QED
      BY <1>1, <2>1, <2>3, <2>4, FS_CardinalityType
  <1> QED
    BY <1>1, <1>2 DEF FreeName

\* What becomes of files one by one is as finite as they were.
LEMMA ImageIsFinite ==
  ASSUME NEW S, IsFiniteSet(S), NEW g
  PROVE  IsFiniteSet({g[f] : f \in S})
  <1>1. [f \in S |-> g[f]] \in Surjection(S, {g[f] : f \in S})
    BY DEF Surjection
  <1> QED
    BY <1>1, FS_Surjection

------------------------------------------------------------------------------
\* A message on its way has rounds left.
HasRounds == \A m \in Msgs : at[m] \in {"offered", "checking", "passed", "queued"} => tries[m] < MaxTries

HeldIsDue == job # NoMsg => at[job] = "queued"

\* Whatever file there is, in tmp/ too, is meant for the mailbox.
FilesMeant ==
  \A f \in files :
    /\ f.box \in Safe
    /\ \E i \in 1 .. Len(rcpts[f.of]) : rcpts[f.of][i] = f.box
    /\ f.dir # "tmp" => f.whole

NamesDiffer == \A f, g \in files : f.name = g.name => f = g

\* What is about to be renamed is whole.
WrittenIsWhole == job # NoMsg /\ part = "written" => \A f \in files : f.name = mine => f.whole

\* The recipients before the one at hand have their copy.
ServedBefore == job # NoMsg => \A i \in 1 .. (pos - 1) : got[job][rcpts[job][i]] > 0

\* They are a copy ahead of those still to come.
AheadOfRest ==
  job # NoMsg =>
    \A i, j \in 1 .. Len(rcpts[job]) :
      i < pos /\ pos <= j /\ ~ Repeated(job, rcpts[job][j]) =>
        got[job][rcpts[job][i]] > got[job][rcpts[job][j]]

InOrder ==
  \A m \in Msgs : \A i, j \in 1 .. Len(rcpts[m]) :
    i < j /\ ~ Repeated(m, rcpts[m][j]) => got[m][rcpts[m][i]] >= got[m][rcpts[m][j]]

\* Mentions of b among the first k recipients of m.
UpTo(m, b, k) == Cardinality({i \in 1 .. k : rcpts[m][i] = b})

\* Before the round at hand, and with it.
Past(m) == tries[m] + kills + (IF at[m] = "stored" THEN 1 ELSE 0)

Copies ==
  \A m \in Msgs, b \in Boxes :
    got[m][b] <= Times(m, b) * Past(m) + (IF job = m THEN UpTo(m, b, pos - 1) ELSE 0)

MInv ==
  /\ TypeOK /\ HasRounds /\ HeldIsDue
  /\ FilesMeant /\ NamesDiffer /\ WrittenIsWhole
  /\ ServedBefore /\ StoredMeansAll
  /\ AheadOfRest /\ InOrder /\ Copies

\* What the types say, element by element.
LEMMA Numbers ==
  ASSUME MInv
  PROVE  /\ \A m \in Msgs : Len(rcpts[m]) \in Nat \ {0} /\ tries[m] \in 0 .. MaxTries /\ tries[m] \in Nat
         /\ \A m \in Msgs, b \in Boxes : got[m][b] \in Nat
         /\ \A m \in Msgs : check[m].rcpt \in Nat \ {0} /\ check[m].rcpt <= Len(rcpts[m])
         /\ pos \in Nat \ {0} /\ kills \in Nat /\ faults \in Nat /\ MaxTries \in Nat \ {0}
  <1>1. \A m \in Msgs : Len(rcpts[m]) \in Nat \ {0}
    BY MailboxesAssumption DEF MInv, TypeOK
  <1>2. \A m \in Msgs : tries[m] \in 0 .. MaxTries /\ tries[m] \in Nat
    BY MailboxesAssumption DEF MInv, TypeOK
  <1>3. \A m \in Msgs, b \in Boxes : got[m][b] \in Nat
    BY DEF MInv, TypeOK
  <1>4. \A m \in Msgs : check[m].rcpt \in Nat \ {0}
    BY DEF MInv, TypeOK, Count
  <1> QED
    BY <1>1, <1>2, <1>3, <1>4, MailboxesAssumption DEF MInv, TypeOK

LEMMA Mentions ==
  ASSUME MInv, NEW m \in Msgs, NEW b \in Boxes
  PROVE  /\ Times(m, b) \in Nat
         /\ \A k \in 0 .. Len(rcpts[m]) : UpTo(m, b, k) \in Nat /\ UpTo(m, b, k) <= Times(m, b)
         /\ \A k \in 1 .. Len(rcpts[m]) :
              UpTo(m, b, k) = UpTo(m, b, k - 1) + (IF rcpts[m][k] = b THEN 1 ELSE 0)
  <1> USE MailboxesAssumption DEF Times, UpTo
  <1>0. rcpts[m] \in Seq(Boxes) /\ Len(rcpts[m]) \in Nat
    BY DEF MInv, TypeOK
  <1>1. \A k \in 0 .. Len(rcpts[m]) : IsFiniteSet({i \in 1 .. k : rcpts[m][i] = b})
    <2> TAKE k \in 0 .. Len(rcpts[m])
    <2>1. IsFiniteSet(1 .. k)
      BY <1>0, FS_Interval
    <2> QED
      BY <2>1, FS_Subset
  <1>2. Times(m, b) \in Nat
    BY <1>0, <1>1, FS_CardinalityType
  <1>3. ASSUME NEW k \in 0 .. Len(rcpts[m])
        PROVE  UpTo(m, b, k) \in Nat /\ UpTo(m, b, k) <= Times(m, b)
    <2>1. {i \in 1 .. k : rcpts[m][i] = b} \in SUBSET {i \in 1 .. Len(rcpts[m]) : rcpts[m][i] = b}
      BY <1>0
    <2>2. IsFiniteSet({i \in 1 .. Len(rcpts[m]) : rcpts[m][i] = b})
      BY <1>0, <1>1, SMTT(30)
    <2> QED
      BY <1>1, <2>1, <2>2, FS_Subset, FS_CardinalityType
  <1>4. ASSUME NEW k \in 1 .. Len(rcpts[m])
        PROVE  UpTo(m, b, k) = UpTo(m, b, k - 1) + (IF rcpts[m][k] = b THEN 1 ELSE 0)
    <2> DEFINE Before == {i \in 1 .. (k - 1) : rcpts[m][i] = b}
    <2>1. k - 1 \in 0 .. Len(rcpts[m])
      BY <1>0
    <2>2. IsFiniteSet(Before) /\ Cardinality(Before) \in Nat
      BY <1>1, <2>1, FS_CardinalityType
    <2>3. CASE rcpts[m][k] = b
      <3>1. {i \in 1 .. k : rcpts[m][i] = b} = Before \cup {k} /\ k \notin Before
        BY <1>0, <2>3
      <3> QED
        BY <2>2, <2>3, <3>1, FS_AddElement
    <2>4. CASE rcpts[m][k] # b
      <3>1. {i \in 1 .. k : rcpts[m][i] = b} = Before
        BY <1>0, <2>4
      <3>2. UpTo(m, b, k) = Cardinality(Before) /\ UpTo(m, b, k - 1) = Cardinality(Before)
        BY <3>1
      <3> QED
        BY <2>2, <2>4, <3>2
    <2> QED
      BY <2>3, <2>4
  <1> QED
    BY <1>2, <1>3, <1>4

LEMMA InitMailboxes == Init => MInv
  <1> SUFFICES ASSUME Init PROVE MInv
    OBVIOUS
  <1> USE MailboxesAssumption DEF Init
  <1>1. TypeOK
    BY FS_EmptySet DEF TypeOK, Count, Fresh, Stage
  <1>2. \A m \in Msgs, b \in Boxes : Times(m, b) \in Nat /\ Past(m) \in Nat
    <2> SUFFICES ASSUME NEW m \in Msgs, NEW b \in Boxes
                 PROVE  Times(m, b) \in Nat /\ Past(m) \in Nat
      OBVIOUS
    <2>1. IsFiniteSet(1 .. Len(rcpts[m]))
      BY FS_Interval
    <2> QED
      BY <2>1, FS_Subset, FS_CardinalityType DEF Times, Past
  <1>3. Copies
    <2> SUFFICES ASSUME NEW m \in Msgs, NEW b \in Boxes
                 PROVE  got[m][b] <= Times(m, b) * Past(m) + (IF job = m THEN UpTo(m, b, pos - 1) ELSE 0)
      BY DEF Copies
    <2>1. got[m][b] = 0 /\ job # m /\ Past(m) = 0
      BY DEF Past
    <2> QED
      BY <1>2, <2>1
  <1>4. InOrder
    BY DEF InOrder, TypeOK
  <1>5. FilesMeant /\ NamesDiffer /\ WrittenIsWhole /\ ServedBefore /\ StoredMeansAll /\ AheadOfRest
        /\ HasRounds /\ HeldIsDue
    BY DEF FilesMeant, NamesDiffer, WrittenIsWhole, ServedBefore, StoredMeansAll, AheadOfRest,
       HasRounds, HeldIsDue
  <1> QED
    BY <1>1, <1>3, <1>4, <1>5 DEF MInv

------------------------------------------------------------------------------
\* A step that leaves the worker, the files and the copies alone, as those of a
\* session do: what it may do to `at` keeps the message short of "stored".
Elsewhere(m) ==
  /\ m \in Msgs
  /\ \E stage \in Stage :
       /\ at' = [at EXCEPT ![m] = stage]
       /\ stage # "stored"
       /\ at[m] \notin {"stored", "queued"}
       /\ stage \in {"checking", "passed", "queued"} => at[m] \in {"offered", "checking", "passed"}
       /\ stage # "offered"
  /\ UNCHANGED <<rcpts, files, quota, workVars, tries, got, kills>>

LEMMA ElsewhereKeeps ==
  ASSUME MInv, TypeOK', NEW m \in Msgs, Elsewhere(m)
  PROVE  MInv'
  <1> USE DEF Elsewhere, workVars
  <1>1. PICK stage \in Stage :
          /\ at' = [at EXCEPT ![m] = stage]
          /\ stage # "stored"
          /\ at[m] \notin {"stored", "queued"}
          /\ stage \in {"checking", "passed", "queued"} => at[m] \in {"offered", "checking", "passed"}
          /\ stage # "offered"
    OBVIOUS
  <1>2. /\ \A n \in Msgs : at'[n] = IF n = m THEN stage ELSE at[n]
        /\ \A n \in Msgs : at'[n] = "stored" <=> at[n] = "stored"
    BY <1>1 DEF MInv, TypeOK
  <1>3. HasRounds'
    BY <1>1, <1>2 DEF HasRounds, MInv
  <1>4. HeldIsDue'
    BY <1>1, <1>2 DEF HeldIsDue, MInv, TypeOK
  <1>5. FilesMeant' /\ NamesDiffer' /\ WrittenIsWhole' /\ ServedBefore'
    BY DEF MInv, FilesMeant, NamesDiffer, WrittenIsWhole, ServedBefore
  <1>6. AheadOfRest'
    BY DEF MInv, AheadOfRest, Repeated
  <1>7. InOrder'
    BY DEF MInv, InOrder, Repeated
  <1>8. StoredMeansAll'
    BY <1>2 DEF MInv, StoredMeansAll
  <1>9. Copies'
    <2>1. \A n \in Msgs : Past(n)' = Past(n)
      BY <1>2 DEF Past
    <2>2. \A n \in Msgs, b \in Boxes : Times(n, b)' = Times(n, b) /\ UpTo(n, b, pos - 1)' = UpTo(n, b, pos - 1)
      BY DEF Times, UpTo
    <2> QED
      BY <2>1, <2>2 DEF MInv, Copies
  <1> QED
    BY <1>3, <1>4, <1>5, <1>6, <1>7, <1>8, <1>9 DEF MInv

\* The bytes counted so far are whatever the sums make them.
LEMMA CheckType ==
  ASSUME NEW totals, check' \in [Msgs -> Count(totals)]
  PROVE  check' \in [Msgs -> Count({check'[m].total : m \in Msgs})]
  BY DEF Count

LEMMA SessionTypes ==
  ASSUME MInv, NEW m \in Msgs, Session(m)
  PROVE  TypeOK'
  <1> DEFINE Totals == {check[n].total : n \in Msgs}
  <1>0. /\ rcpts[m] \in Seq(Boxes) /\ Len(rcpts[m]) \in Nat \ {0}
        /\ \A i \in 1 .. Len(rcpts[m]) : rcpts[m][i] \in Boxes
    BY MailboxesAssumption DEF MInv, TypeOK
  <1>1. check \in [Msgs -> Count(Totals)] /\ \A n \in Msgs : check[n].rcpt \in 1 .. Len(rcpts[n])
    <2>1. check \in [Msgs -> Count(Totals)]
      BY DEF MInv, TypeOK
    <2>2. \A n \in Msgs : check[n].rcpt <= Len(rcpts[n]) /\ check[n].rcpt \in Nat \ {0}
      BY <2>1 DEF MInv, TypeOK, Count
    <2>3. \A n \in Msgs : Len(rcpts[n]) \in Nat
      BY MailboxesAssumption DEF MInv, TypeOK
    <2> QED
      BY <2>1, <2>2, <2>3
  <1>2. UNCHANGED <<rcpts, files, quota, workVars, tries, got, kills>>
    BY DEF Session, Submit, Unlimited, StartCheck, CountNew, RefuseFull, HasRoom, Spool, workVars
  <1>3. at' \in [Msgs -> Stage]
    BY DEF Session, Submit, Unlimited, StartCheck, CountNew, RefuseFull, HasRoom, Spool, Goto, MInv, TypeOK, Stage
  <1>4. faults' \in Nat
    BY DEF Session, Submit, Unlimited, StartCheck, CountNew, RefuseFull, HasRoom, Spool, Fault, MInv, TypeOK
  <1>5. crowded' \subseteq Boxes
    BY <1>0, <1>1 DEF Session, Submit, Unlimited, StartCheck, CountNew, RefuseFull, HasRoom, Spool,
       NoteCrowd, MInv, TypeOK
  <1>6. /\ \E totals : check' \in [Msgs -> Count(totals)]
        /\ \A n \in Msgs : check'[n].rcpt <= Len(rcpts[n])
    <2>1. CASE UNCHANGED check
      <3>1. check' \in [Msgs -> Count(Totals)]
        BY <1>1, <2>1
      <3>2. \A n \in Msgs : check'[n].rcpt = check[n].rcpt /\ Len(rcpts[n]) \in Nat
        BY <2>1, MailboxesAssumption DEF MInv, TypeOK
      <3>3. \A n \in Msgs : check'[n].rcpt <= Len(rcpts[n])
        BY <3>2, Numbers
      <3> QED
        BY <3>1, <3>3
    <2>2. CASE check' = [check EXCEPT ![m] = Fresh]
      <3>1. check' \in [Msgs -> Count(Totals \cup {0})]
        BY <1>1, <2>2 DEF Count, Fresh
      <3> QED
        BY <1>0, <1>1, <2>2, <3>1 DEF Fresh
    <2>3. CASE CountNew(m)
      <3>1. check' \in [Msgs -> Count(Totals \cup {Counted(m)})]
        BY <1>1, <2>3 DEF Count, CountNew
      <3>2. \A n \in Msgs : check'[n].rcpt = check[n].rcpt
        BY <1>1, <2>3 DEF Count, CountNew
      <3>3. \A n \in Msgs : check'[n].rcpt <= Len(rcpts[n])
        BY <3>2, Numbers
      <3> QED
        BY <3>1, <3>3
    <2>4. CASE /\ check' = [check EXCEPT ![m] = [Fresh EXCEPT !.rcpt = check[m].rcpt + 1]]
               /\ check[m].rcpt + 1 <= Len(rcpts[m])
      <3>1. check' \in [Msgs -> Count(Totals \cup {0})]
        BY <1>1, <2>4 DEF Count, Fresh
      <3> QED
        BY <1>1, <2>4, <3>1 DEF Fresh
    <2> QED
      BY <2>1, <2>2, <2>3, <2>4 DEF Session, Submit, Unlimited, StartCheck, RefuseFull, HasRoom, Spool
  <1>7. check' \in [Msgs -> Count({check'[n].total : n \in Msgs})]
    BY <1>6, CheckType
  <1> QED
    BY <1>2, <1>3, <1>4, <1>5, <1>6, <1>7 DEF MInv, TypeOK, workVars

LEMMA SessionKeeps ==
  ASSUME MInv, NEW m \in Msgs, Session(m)
  PROVE  MInv'
  <1>1. UNCHANGED <<rcpts, files, quota, workVars, tries, got, kills>>
    BY DEF Session, Submit, Unlimited, StartCheck, CountNew, RefuseFull, HasRoom, Spool, workVars
  <1>2. \E stage \in Stage :
          /\ at' = [at EXCEPT ![m] = stage]
          /\ stage # "stored"
          /\ at[m] \notin {"stored", "queued"}
          /\ stage \in {"checking", "passed", "queued"} => at[m] \in {"offered", "checking", "passed"}
          /\ stage # "offered"
    <2> USE DEF Goto, Stage
    <2>1. CASE Submit(m)
      BY <2>1 DEF Submit
    <2>2. CASE Unlimited(m)
      BY <2>2 DEF Unlimited
    <2>3. CASE StartCheck(m)
      BY <2>3 DEF StartCheck
    <2>4. CASE CountNew(m)
      BY <2>4 DEF CountNew, MInv, TypeOK
    <2>5. CASE RefuseFull(m)
      BY <2>5 DEF RefuseFull
    <2>6. CASE HasRoom(m)
      BY <2>6 DEF HasRoom, MInv, TypeOK
    <2>7. CASE Spool(m)
      BY <2>7 DEF Spool
    <2> QED
      BY <2>1, <2>2, <2>3, <2>4, <2>5, <2>6, <2>7 DEF Session
  <1> QED
    BY <1>1, <1>2, SessionTypes, ElsewhereKeeps DEF Elsewhere

\* The reader's step: a file keeps everything but its directory.
LEMMA ReadKeeps ==
  ASSUME MInv, NEW f \in files, Read(f)
  PROVE  MInv'
  <1> DEFINE read == [f EXCEPT !.dir = "cur"]
  <1>0. /\ UNCHANGED <<rcpts, at, check, quota, job, pos, part, mine, tries, got, crowded, faults, kills>>
        /\ files \subseteq File /\ IsFiniteSet(files) /\ f \in File
    BY DEF MInv, TypeOK, Read, workVars, doorVars
  <1>1. files' \subseteq (files \ {f}) \cup {read} /\ (read \in files' => f.dir # "tmp" \/ read \in files \ {f})
    BY DEF Read
  <1>2. IsFiniteSet(files')
    <2>1. IsFiniteSet(files \ {f}) /\ IsFiniteSet({read})
      BY <1>0, FS_RemoveElement, FS_Singleton
    <2>2. IsFiniteSet((files \ {f}) \cup {read})
      BY <2>1, FS_Union
    <2> QED
      BY <1>1, <2>2, FS_Subset
  <1>3. read \in File /\ read.name = f.name /\ read.box = f.box /\ read.of = f.of /\ read.whole = f.whole
    BY <1>0 DEF File
  <1>4. \A g \in files' : \E h \in files :
          /\ g.name = h.name /\ g.box = h.box /\ g.of = h.of
          /\ g.whole = h.whole
          /\ g.dir # "tmp" => h.dir # "tmp"
    BY <1>1, <1>3
  <1>5. TypeOK'
    <2>1. files' \subseteq File
      BY <1>0, <1>1, <1>3
    <2> QED
      BY <1>0, <1>2, <2>1 DEF MInv, TypeOK
  <1>6. FilesMeant'
    BY <1>0, <1>4 DEF MInv, FilesMeant
  <1>7. WrittenIsWhole'
    BY <1>0, <1>4 DEF MInv, WrittenIsWhole
  <1>8. NamesDiffer'
    BY <1>1, <1>3 DEF MInv, NamesDiffer
  <1>9. HasRounds' /\ HeldIsDue' /\ ServedBefore' /\ StoredMeansAll'
    BY <1>0 DEF MInv, HasRounds, HeldIsDue, ServedBefore, StoredMeansAll
  <1>10. AheadOfRest' /\ InOrder'
    BY <1>0 DEF MInv, AheadOfRest, InOrder, Repeated
  <1>11. Copies'
    BY <1>0 DEF MInv, Copies, Past, Times, UpTo
  <1> QED
    BY <1>5, <1>6, <1>7, <1>8, <1>9, <1>10, <1>11 DEF MInv

------------------------------------------------------------------------------
\* The worker between two rounds.
Rests ==
  /\ job' = NoMsg /\ pos' = 1 /\ part' = "next" /\ mine' = 0
  /\ UNCHANGED <<rcpts, files, quota, got, crowded>>

\* Begin, and what ends a round: failure, report and kill.
LEMMA RoundKeeps ==
  ASSUME MInv, UnsafeName \/ StoreFails \/ Report \/ Kill \/ \E m \in Msgs : Begin(m)
  PROVE  MInv'
  <1> USE MailboxesAssumption DEF workVars, doorVars
  <1>0. /\ rcpts' = rcpts /\ files' = files /\ got' = got /\ quota' = quota /\ crowded' = crowded
        /\ pos' = 1 /\ part' = "next" /\ mine' = 0 /\ kills' \in {kills, kills + 1} /\ faults' \in {faults, faults + 1}
        /\ check' \in {check, [m \in Msgs |-> Fresh]}
    BY DEF UnsafeName, StoreFails, Report, Kill, Begin, RoundFails, Fault
  <1>1. /\ at' \in [Msgs -> Stage]
        /\ tries' \in [Msgs -> 0 .. MaxTries]
        /\ job' \in Msgs \cup {NoMsg}
        /\ \A m \in Msgs : tries'[m] >= tries[m]
        /\ HasRounds' /\ HeldIsDue'
    <2>1. CASE UnsafeName \/ StoreFails
      <3>1. job \in Msgs /\ at[job] = "queued" /\ tries[job] < MaxTries
        BY <2>1 DEF UnsafeName, StoreFails, Busy, MInv, TypeOK, HeldIsDue, HasRounds
      <3>2. /\ tries' = [tries EXCEPT ![job] = @ + 1] /\ job' = NoMsg
            /\ at' = IF tries[job] + 1 < MaxTries THEN at ELSE [at EXCEPT ![job] = "dropped"]
        BY <2>1 DEF UnsafeName, StoreFails, RoundFails, Goto
      <3>3. tries[job] + 1 \in 0 .. MaxTries
        BY <3>1, Numbers
      <3>4. at' \in [Msgs -> Stage] /\ tries' \in [Msgs -> 0 .. MaxTries]
        BY <3>1, <3>2, <3>3 DEF MInv, TypeOK, Stage
      <3>5. \A m \in Msgs : tries'[m] = IF m = job THEN tries[m] + 1 ELSE tries[m]
        BY <3>2 DEF MInv, TypeOK
      <3>6. HasRounds'
        BY <3>1, <3>2, <3>3, <3>5 DEF MInv, TypeOK, HasRounds
      <3> QED
        BY <3>2, <3>4, <3>5, <3>6, Numbers DEF HeldIsDue
    <2>2. CASE Report
      BY <2>2 DEF Report, Goto, MInv, TypeOK, HasRounds, HeldIsDue, Stage
    <2>3. CASE Kill
      BY <2>3 DEF Kill, MInv, TypeOK, HasRounds, HeldIsDue, Stage
    <2>4. CASE \E m \in Msgs : Begin(m)
      BY <2>4 DEF Begin, MInv, TypeOK, HasRounds, HeldIsDue, Stage
    <2> QED
      BY <2>1, <2>2, <2>3, <2>4
  <1>2. \A m \in Msgs : Len(rcpts[m]) \in Nat \ {0}
    BY Numbers
  <1>3. TypeOK'
    <2>1. check' \in [Msgs -> Count({check'[m].total : m \in Msgs})]
      <3>1. CASE check' = check
        <4>1. check \in [Msgs -> Count({check[m].total : m \in Msgs})]
          BY DEF MInv, TypeOK
        <4> QED
          BY <3>1, <4>1
      <3>2. CASE check' = [m \in Msgs |-> Fresh]
        BY <3>2 DEF Count, Fresh
      <3> QED
        BY <1>0, <3>1, <3>2
    <2>2. \A m \in Msgs : check'[m].rcpt <= Len(rcpts[m])
      BY <1>0, <1>2, Numbers DEF Fresh
    <2>3. kills' \in Nat /\ faults' \in Nat
      BY <1>0 DEF MInv, TypeOK
    <2> QED
      <3>1. job' # NoMsg => pos' <= Len(rcpts'[job']) + 1
        BY <1>0, <1>1, <1>2
      <3>2. rcpts' \in [Msgs -> Envelopes] /\ files' \subseteq File /\ IsFiniteSet(files') /\ quota' \in Quotas
            /\ got' \in [Msgs -> [Boxes -> Nat]] /\ crowded' \subseteq Boxes
        BY <1>0 DEF MInv, TypeOK
      <3>3. mine' \in Nat /\ pos' \in Nat \ {0} /\ part' \in {"next", "writing", "written"}
        BY <1>0
      <3>4. \A m \in Msgs : check'[m].rcpt <= Len(rcpts'[m])
        BY <1>0, <2>2
      <3> QED
        BY <1>1, <2>1, <2>3, <3>1, <3>2, <3>3, <3>4 DEF TypeOK
  <1>4. FilesMeant' /\ NamesDiffer' /\ WrittenIsWhole' /\ ServedBefore'
    BY <1>0 DEF MInv, FilesMeant, NamesDiffer, WrittenIsWhole, ServedBefore
  <1>5. AheadOfRest'
    BY <1>0, <1>2 DEF AheadOfRest
  <1>6. InOrder'
    BY <1>0 DEF MInv, InOrder, Repeated
  <1>7. StoredMeansAll'
    <2>1. CASE Report
      <3>1. job \in Msgs /\ pos > Len(rcpts[job]) /\ at' = [at EXCEPT ![job] = "stored"] /\ pos \in Nat
        BY <2>1 DEF Report, Goto, MInv, TypeOK
      <3>2. \A i \in 1 .. Len(rcpts[job]) : got[job][rcpts[job][i]] > 0
        BY <1>2, <3>1 DEF MInv, ServedBefore
      <3> QED
        BY <1>0, <3>1, <3>2 DEF MInv, TypeOK, StoredMeansAll
    <2>2. CASE ~ Report
      <3>1. \A m \in Msgs : at'[m] = "stored" => at[m] = "stored"
        BY <2>2 DEF UnsafeName, StoreFails, Kill, Begin, RoundFails, Goto, MInv, TypeOK
      <3> QED
        BY <1>0, <3>1 DEF MInv, StoredMeansAll
    <2> QED
      BY <2>1, <2>2
  <1>8. Copies'
    <2> SUFFICES ASSUME NEW m \in Msgs, NEW b \in Boxes
                 PROVE  got[m][b] <= Times(m, b) * Past(m)' + (IF job' = m THEN UpTo(m, b, 0) ELSE 0)
      BY <1>0 DEF Copies, Times, UpTo
    <2>1. /\ Times(m, b) \in Nat /\ UpTo(m, b, 0) \in Nat /\ UpTo(m, b, 0) <= Times(m, b)
          /\ job = m => UpTo(m, b, pos - 1) \in Nat /\ UpTo(m, b, pos - 1) <= Times(m, b)
      <3>1. 0 \in 0 .. Len(rcpts[m]) /\ (job = m => pos - 1 \in 0 .. Len(rcpts[m]))
        BY <1>2 DEF MInv, TypeOK
      <3> QED
        BY <3>1, Mentions
    <2>2. got[m][b] <= Times(m, b) * Past(m) + (IF job = m THEN UpTo(m, b, pos - 1) ELSE 0)
      BY DEF MInv, Copies
    <2>3. Past(m) \in Nat /\ Past(m)' \in Nat /\ got[m][b] \in Nat
      <3>1. tries'[m] \in Nat /\ kills' \in Nat
        BY <1>0, <1>1, Numbers
      <3> QED
        BY <3>1, Numbers, SMTT(30) DEF Past
    <2>4. Past(m)' >= Past(m) + (IF job = m THEN 1 ELSE 0)
      <3>0. tries[m] \in Nat /\ kills \in Nat /\ (job = m => at[m] = "queued")
        BY Numbers, Zenon DEF MInv, HeldIsDue
      <3>1. CASE UnsafeName \/ StoreFails
        <4>1. /\ job \in Msgs /\ tries' = [tries EXCEPT ![job] = @ + 1] /\ kills' = kills
              /\ at' = at \/ at' = [at EXCEPT ![job] = "dropped"]
          BY <3>1 DEF UnsafeName, StoreFails, Busy, RoundFails, Goto, MInv, TypeOK
        <4>2. tries'[m] = IF m = job THEN tries[m] + 1 ELSE tries[m]
          BY <4>1 DEF MInv, TypeOK
        <4>3. m # job => at'[m] = at[m]
          BY <4>1 DEF MInv, TypeOK
        <4> QED
          BY <3>0, <4>1, <4>2, <4>3 DEF Past
      <3>2. CASE Report
        <4>1. job \in Msgs /\ at'[m] = IF m = job THEN "stored" ELSE at[m]
          BY <3>2 DEF Report, Goto, MInv, TypeOK
        <4>2. tries' = tries /\ kills' = kills
          BY <3>2 DEF Report
        <4> QED
          BY <3>0, <4>1, <4>2 DEF Past
      <3>3. CASE Kill
        BY <3>3 DEF Kill, Past, MInv, TypeOK
      <3>4. CASE \E n \in Msgs : Begin(n)
        <4>1. job # m /\ tries' = tries /\ kills' = kills /\ at' = at
          BY <3>4, MailboxesAssumption DEF Begin, doorVars
        <4> QED
          BY <3>0, <4>1 DEF Past
      <3> QED
        BY <3>1, <3>2, <3>3, <3>4
    <2>5. Times(m, b) * Past(m)' >= Times(m, b) * (Past(m) + (IF job = m THEN 1 ELSE 0))
      BY <2>1, <2>3, <2>4
    <2>6. Times(m, b) * (Past(m) + 1) = Times(m, b) * Past(m) + Times(m, b)
      BY <2>1, <2>3
    <2> HIDE DEF Times, Past, UpTo
    <2>7. Times(m, b) * Past(m) \in Nat /\ Times(m, b) * Past(m)' \in Nat
      BY <2>1, <2>3
    <2>8. CASE job = m
      <3>1. Times(m, b) * Past(m)' >= Times(m, b) * Past(m) + Times(m, b)
        BY <2>5, <2>6, <2>8
      <3>2. got[m][b] <= Times(m, b) * Past(m) + UpTo(m, b, pos - 1)
        BY <2>2, <2>8
      <3>3. UpTo(m, b, pos - 1) \in Nat /\ UpTo(m, b, pos - 1) <= Times(m, b) /\ UpTo(m, b, 0) \in Nat
        BY <2>1, <2>8
      <3>4. got[m][b] <= Times(m, b) * Past(m)'
        BY <2>1, <2>3, <2>7, <3>1, <3>2, <3>3, SMTT(30)
      <3> QED
        BY <2>3, <2>7, <3>3, <3>4
    <2>9. CASE job # m
      BY <2>1, <2>2, <2>3, <2>5, <2>7, <2>9
    <2> QED
      BY <2>8, <2>9
  <1> QED
    BY <1>1, <1>3, <1>4, <1>5, <1>6, <1>7, <1>8 DEF MInv

------------------------------------------------------------------------------
\* CreateTmp, FillTmp and Publish: the message and its recipient at hand.
LEMMA AtHand ==
  ASSUME MInv, NEW where, Busy(where)
  PROVE  /\ job \in Msgs /\ ThisBox \in Boxes
         /\ pos \in 1 .. Len(rcpts[job]) /\ pos - 1 \in 0 .. Len(rcpts[job])
         /\ rcpts[job] \in Seq(Boxes) /\ Len(rcpts[job]) \in Nat
  <1>1. job \in Msgs
    BY DEF Busy, MInv, TypeOK
  <1>2. rcpts[job] \in Seq(Boxes) /\ Len(rcpts[job]) \in Nat
    BY <1>1, MailboxesAssumption DEF MInv, TypeOK
  <1>3. pos \in 1 .. Len(rcpts[job]) /\ pos - 1 \in 0 .. Len(rcpts[job])
    BY <1>2, Numbers DEF Busy
  <1> QED
    BY <1>1, <1>2, <1>3 DEF ThisBox

\* A step that leaves everything but files, part and mine alone.
LEMMA StandingKeeps ==
  ASSUME MInv, UNCHANGED <<rcpts, at, check, quota, job, pos, tries, got, kills>>
  PROVE  HasRounds' /\ HeldIsDue' /\ ServedBefore' /\ StoredMeansAll' /\ AheadOfRest' /\ InOrder' /\ Copies'
  <1>1. HasRounds' /\ HeldIsDue' /\ ServedBefore' /\ StoredMeansAll'
    BY DEF MInv, HasRounds, HeldIsDue, ServedBefore, StoredMeansAll
  <1>2. AheadOfRest' /\ InOrder'
    BY DEF MInv, AheadOfRest, InOrder, Repeated
  <1>3. Copies'
    BY DEF MInv, Copies, Past, Times, UpTo
  <1> QED
    BY <1>1, <1>2, <1>3

LEMMA CreateKeeps ==
  ASSUME MInv, CreateTmp
  PROVE  MInv'
  <1> DEFINE new == Created("tmp")
  <1>0. /\ Busy("next") /\ ThisBox \in Safe /\ files' = files \cup {new} /\ mine' = FreeName /\ part' = "writing"
        /\ UNCHANGED <<rcpts, at, check, quota, job, pos, tries, got, crowded, faults, kills>>
    BY DEF CreateTmp, doorVars
  <1>1. FreeName \in Nat /\ \A f \in files : f.name # FreeName
    BY FreeNameIsFree DEF MInv, TypeOK
  <1>2. job \in Msgs /\ ThisBox \in Boxes /\ pos \in 1 .. Len(rcpts[job])
    BY <1>0, AtHand
  <1>3. new \in File /\ new.name = FreeName /\ new.dir = "tmp" /\ new.box = ThisBox /\ new.of = job
    BY <1>1, <1>2 DEF Created, File
  <1>4. TypeOK'
    <2>1. files' \subseteq File /\ IsFiniteSet(files')
      BY <1>0, <1>3, FS_AddElement DEF MInv, TypeOK
    <2> QED
      BY <1>0, <1>1, <2>1 DEF MInv, TypeOK
  <1>5. FilesMeant'
    BY <1>0, <1>2, <1>3 DEF MInv, FilesMeant, ThisBox
  <1>6. NamesDiffer' /\ WrittenIsWhole'
    BY <1>0, <1>1, <1>3 DEF MInv, NamesDiffer, WrittenIsWhole
  <1> QED
    BY <1>0, <1>4, <1>5, <1>6, StandingKeeps DEF MInv

\* Files change one by one, and none changes its name, its message or its box.
LEMMA Changed ==
  ASSUME MInv, NEW g, files' = {g[f] : f \in files},
         \A f \in files : /\ g[f] \in File
                          /\ g[f].name = f.name /\ g[f].box = f.box /\ g[f].of = f.of
                          /\ f.whole => g[f].whole
         , rcpts' = rcpts
  PROVE  /\ files' \subseteq File /\ IsFiniteSet(files')
         /\ NamesDiffer'
         /\ (\A f \in files : g[f].dir # "tmp" => g[f].whole) => FilesMeant'
  <1>1. files' \subseteq File /\ IsFiniteSet(files')
    <2>1. IsFiniteSet({g[f] : f \in files})
      BY ImageIsFinite DEF MInv, TypeOK
    <2> QED
      BY <2>1
  <1>2. NamesDiffer'
    BY DEF MInv, NamesDiffer
  <1>3. ASSUME \A f \in files : g[f].dir # "tmp" => g[f].whole
        PROVE  FilesMeant'
    <2> SUFFICES ASSUME NEW f \in files
                 PROVE  /\ g[f].box \in Safe
                        /\ \E i \in 1 .. Len(rcpts[g[f].of]) : rcpts[g[f].of][i] = g[f].box
                        /\ g[f].dir # "tmp" => g[f].whole
      BY DEF FilesMeant
    <2> QED
      BY <1>3 DEF MInv, FilesMeant
  <1> QED
    BY <1>1, <1>2, <1>3

LEMMA FillKeeps ==
  ASSUME MInv, FillTmp
  PROVE  MInv'
  <1> DEFINE g == [f \in files |-> IF f.name = mine THEN [f EXCEPT !.whole = TRUE] ELSE f]
  <1>0. /\ Busy("writing") /\ part' = "written"
        /\ UNCHANGED <<rcpts, at, check, quota, job, pos, mine, tries, got, crowded, faults, kills>>
    BY DEF FillTmp, doorVars
  <1>1. files' = {g[f] : f \in files}
    BY DEF FillTmp
  <1>2. \A f \in files : /\ g[f] \in File
                         /\ g[f].name = f.name /\ g[f].box = f.box /\ g[f].of = f.of /\ g[f].dir = f.dir
                         /\ f.whole => g[f].whole
                         /\ f.name = mine => g[f].whole
    BY DEF MInv, TypeOK, File
  <1>3. \A f \in files : g[f].dir # "tmp" => g[f].whole
    BY <1>2 DEF MInv, FilesMeant
  <1> HIDE DEF g
  <1>4. files' \subseteq File /\ IsFiniteSet(files') /\ NamesDiffer' /\ FilesMeant'
    BY <1>0, <1>1, <1>2, <1>3, Changed
  <1>5. TypeOK'
    BY <1>0, <1>4 DEF MInv, TypeOK
  <1>6. WrittenIsWhole'
    BY <1>0, <1>1, <1>2 DEF WrittenIsWhole
  <1> QED
    BY <1>0, <1>4, <1>5, <1>6, StandingKeeps DEF MInv

LEMMA PublishKeeps ==
  ASSUME MInv, Publish
  PROVE  MInv'
  <1> DEFINE g == [f \in files |-> IF f.name = mine THEN [f EXCEPT !.dir = "new"] ELSE f]
  <1>0. /\ Busy("written") /\ pos' = pos + 1 /\ part' = "next" /\ mine' = 0
        /\ got' = [got EXCEPT ![job][ThisBox] = @ + 1]
        /\ crowded' \in {crowded, crowded \cup {ThisBox}}
        /\ UNCHANGED <<rcpts, at, check, quota, job, tries, faults, kills>>
    BY DEF Publish, doorVars
  <1>1. /\ job \in Msgs /\ ThisBox \in Boxes /\ ThisBox = rcpts[job][pos]
        /\ pos \in 1 .. Len(rcpts[job]) /\ rcpts[job] \in Seq(Boxes) /\ Len(rcpts[job]) \in Nat
    BY <1>0, AtHand DEF ThisBox
  <1>2. \A f \in files : /\ g[f] \in File
                         /\ g[f].name = f.name /\ g[f].box = f.box /\ g[f].of = f.of /\ g[f].whole = f.whole
                         /\ g[f].dir # "tmp" => f.dir # "tmp" \/ f.name = mine
    BY ZenonT(30) DEF MInv, TypeOK, File
  <1>3. \A f \in files : g[f].dir # "tmp" => g[f].whole
    BY <1>0, <1>2 DEF MInv, FilesMeant, WrittenIsWhole, Busy
  <1>4. files' = {g[f] : f \in files}
    BY DEF Publish
  <1> HIDE DEF g
  <1>5. files' \subseteq File /\ IsFiniteSet(files') /\ NamesDiffer' /\ FilesMeant'
    BY <1>0, <1>2, <1>3, <1>4, Changed
  <1>6. /\ \A m \in Msgs, b \in Boxes :
             got'[m][b] = IF m = job /\ b = ThisBox THEN got[m][b] + 1 ELSE got[m][b]
        /\ got' \in [Msgs -> [Boxes -> Nat]]
    BY <1>0, <1>1 DEF MInv, TypeOK
  <1>6a. \A m \in Msgs, b \in Boxes :
           got[m][b] \in Nat /\ got'[m][b] \in Nat /\ got'[m][b] >= got[m][b]
    <2> SUFFICES ASSUME NEW m \in Msgs, NEW b \in Boxes
                 PROVE  got[m][b] \in Nat /\ got'[m][b] \in Nat /\ got'[m][b] >= got[m][b]
      OBVIOUS
    <2>1. got[m][b] \in Nat
      BY Numbers
    <2>2. got'[m][b] = got[m][b] + 1 \/ got'[m][b] = got[m][b]
      BY <1>6
    <2> QED
      BY <2>1, <2>2
  <1>7. TypeOK'
    <2>1. pos' \in Nat \ {0} /\ pos' <= Len(rcpts'[job']) + 1
      BY <1>0, <1>1
    <2>2. crowded' \subseteq Boxes
      BY <1>0, <1>1 DEF MInv, TypeOK
    <2>3. check' \in [Msgs -> Count({check'[m].total : m \in Msgs})]
      BY <1>0 DEF MInv, TypeOK
    <2>4. /\ rcpts' \in [Msgs -> Envelopes] /\ at' \in [Msgs -> Stage]
          /\ \A m \in Msgs : check'[m].rcpt <= Len(rcpts'[m])
          /\ mine' \in Nat /\ quota' \in Quotas
          /\ job' \in Msgs \cup {NoMsg} /\ part' \in {"next", "writing", "written"}
          /\ tries' \in [Msgs -> 0 .. MaxTries]
          /\ faults' \in Nat /\ kills' \in Nat
      BY <1>0 DEF MInv, TypeOK
    <2> QED
      BY <1>5, <1>6, <2>1, <2>2, <2>3, <2>4 DEF TypeOK
  <1>8. HasRounds' /\ HeldIsDue' /\ WrittenIsWhole'
    BY <1>0 DEF MInv, HasRounds, HeldIsDue, WrittenIsWhole
  <1>9. \A m \in Msgs : \A i \in 1 .. Len(rcpts[m]) : rcpts[m][i] \in Boxes
    BY MailboxesAssumption DEF MInv, TypeOK
  <1>10. ServedBefore'
    <2> SUFFICES ASSUME NEW i \in 1 .. pos PROVE got'[job][rcpts[job][i]] > 0
      BY <1>0, <1>1 DEF ServedBefore
    <2>1. got[job][rcpts[job][i]] \in Nat /\ rcpts[job][i] \in Boxes
      BY <1>1, <1>9, Numbers
    <2>2. CASE i = pos
      BY <1>1, <1>6, <2>1, <2>2
    <2>3. CASE i # pos
      <3>1. i \in 1 .. (pos - 1)
        BY <1>1, <2>3
      <3>2. got[job][rcpts[job][i]] > 0
        BY <1>0, <3>1 DEF MInv, ServedBefore, Busy
      <3>3. /\ got'[job][rcpts[job][i]] \in Nat
            /\ got'[job][rcpts[job][i]] >= got[job][rcpts[job][i]]
        BY <1>1, <1>6a, <2>1
      <3> QED
        BY <2>1, <3>2, <3>3
    <2> QED
      BY <2>2, <2>3
  <1>11. StoredMeansAll'
    BY <1>0, <1>6a, <1>9 DEF MInv, StoredMeansAll
  <1>12. ASSUME NEW j \in 1 .. Len(rcpts[job]), ~ Repeated(job, rcpts[job][j]), j # pos
         PROVE  got'[job][rcpts[job][j]] = got[job][rcpts[job][j]]
    BY <1>1, <1>6, <1>9, <1>12 DEF Repeated
  <1>13. ASSUME NEW i \in 1 .. Len(rcpts[job])
         PROVE  /\ got'[job][rcpts[job][i]] >= got[job][rcpts[job][i]]
                /\ got[job][rcpts[job][i]] \in Nat /\ got'[job][rcpts[job][i]] \in Nat
                /\ i = pos => got'[job][rcpts[job][i]] = got[job][rcpts[job][i]] + 1
    <2>1. rcpts[job][i] \in Boxes /\ got[job][rcpts[job][i]] \in Nat
      BY <1>1, <1>9, Numbers
    <2>2. i = pos => rcpts[job][i] = ThisBox
      BY <1>1
    <2>3. CASE rcpts[job][i] = ThisBox
      <3>1. got'[job][rcpts[job][i]] = got[job][rcpts[job][i]] + 1
        BY <1>1, <1>6, <2>1, <2>3
      <3> QED
        BY <2>1, <3>1
    <2>4. CASE rcpts[job][i] # ThisBox
      <3>1. got'[job][rcpts[job][i]] = got[job][rcpts[job][i]]
        BY <1>1, <1>6, <2>1, <2>4
      <3> QED
        BY <2>1, <2>2, <2>4, <3>1
    <2> QED
      BY <2>3, <2>4
  <1>14. AheadOfRest'
    <2> SUFFICES ASSUME NEW i \in 1 .. Len(rcpts[job]), NEW j \in 1 .. Len(rcpts[job]),
                        i < pos + 1, pos + 1 <= j, ~ Repeated(job, rcpts[job][j])
                 PROVE  got'[job][rcpts[job][i]] > got'[job][rcpts[job][j]]
      BY <1>0 DEF AheadOfRest, Repeated
    <2>1. got'[job][rcpts[job][j]] = got[job][rcpts[job][j]] /\ got[job][rcpts[job][j]] \in Nat
      BY <1>1, <1>12, <1>13
    <2>2. CASE i = pos
      <3>1. got[job][rcpts[job][i]] >= got[job][rcpts[job][j]]
        BY <1>1, <2>2 DEF MInv, InOrder
      <3> QED
        BY <1>13, <2>1, <2>2, <3>1, SMTT(30)
    <2>3. CASE i < pos
      <3>1. got[job][rcpts[job][i]] > got[job][rcpts[job][j]]
        BY <1>0, <1>1, <2>3 DEF MInv, AheadOfRest, Busy
      <3> QED
        BY <1>13, <2>1, <3>1
    <2> QED
      BY <1>1, <2>2, <2>3
  <1>15. InOrder'
    <2> SUFFICES ASSUME NEW m \in Msgs, NEW i \in 1 .. Len(rcpts[m]), NEW j \in 1 .. Len(rcpts[m]),
                        i < j, ~ Repeated(m, rcpts[m][j])
                 PROVE  got'[m][rcpts[m][i]] >= got'[m][rcpts[m][j]]
      BY <1>0 DEF InOrder, Repeated
    <2>1. got[m][rcpts[m][i]] >= got[m][rcpts[m][j]]
      BY DEF MInv, InOrder
    <2>2. CASE m # job
      BY <1>6, <1>9, <2>1, <2>2
    <2>3. CASE m = job /\ j = pos
      <3>1. got[job][rcpts[job][i]] > got[job][rcpts[job][j]]
        BY <1>0, <1>1, <2>3 DEF MInv, AheadOfRest, Busy
      <3> QED
        BY <1>13, <2>3, <3>1, SMTT(30)
    <2>4. CASE m = job /\ j # pos
      BY <1>12, <1>13, <2>1, <2>4, SMTT(30)
    <2> QED
      BY <2>2, <2>3, <2>4
  <1>16. Copies'
    <2> SUFFICES ASSUME NEW m \in Msgs, NEW b \in Boxes
                 PROVE  got'[m][b] <= Times(m, b) * Past(m) + (IF job = m THEN UpTo(m, b, pos) ELSE 0)
      <3>1. /\ \A m \in Msgs : Past(m)' = Past(m)
            /\ \A m \in Msgs, b \in Boxes : Times(m, b)' = Times(m, b) /\ UpTo(m, b, pos - 1)' = UpTo(m, b, pos)
        <4>1. \A m \in Msgs : Past(m)' = Past(m)
          BY <1>0 DEF Past
        <4>2. pos' - 1 = pos
          BY <1>0, <1>1
        <4> QED
          BY <1>0, <4>1, <4>2 DEF Times, UpTo
      <3> QED
        BY <1>0, <3>1 DEF Copies
    <2>1. got[m][b] <= Times(m, b) * Past(m) + (IF job = m THEN UpTo(m, b, pos - 1) ELSE 0)
      BY DEF MInv, Copies
    <2>2. job = m => /\ UpTo(m, b, pos) \in Nat /\ UpTo(m, b, pos - 1) \in Nat
                     /\ UpTo(m, b, pos) = UpTo(m, b, pos - 1) + (IF ThisBox = b THEN 1 ELSE 0)
      <3>1. pos \in 0 .. Len(rcpts[job]) /\ pos - 1 \in 0 .. Len(rcpts[job])
        BY <1>1
      <3> QED
        BY <1>1, <3>1, Mentions, SMTT(30)
    <2>3. Times(m, b) * Past(m) \in Nat /\ got[m][b] \in Nat
      <3>1. Past(m) \in Nat
        BY Numbers DEF Past
      <3> QED
        BY <3>1, Mentions, Numbers
    <2> DEFINE past == Times(m, b) * Past(m)
    <2> HIDE DEF past
    <2>4. got[m][b] <= past + (IF job = m THEN UpTo(m, b, pos - 1) ELSE 0) /\ past \in Nat
      BY <2>1, <2>3 DEF past
    <2>5. got'[m][b] <= past + (IF job = m THEN UpTo(m, b, pos) ELSE 0)
      BY <1>6, <2>2, <2>3, <2>4
    <2> QED
      BY <2>5 DEF past
  <1> QED
    BY <1>5, <1>7, <1>8, <1>10, <1>11, <1>14, <1>15, <1>16 DEF MInv

------------------------------------------------------------------------------
\* Every step of a session, the worker, a reader or a kill keeps the invariant.
THEOREM Mailboxes_Invariant == Spec => []MInv
  <1>1. MInv /\ [Next]_vars => MInv'
    <2> SUFFICES ASSUME MInv, [Next]_vars PROVE MInv'
      OBVIOUS
    <2>1. CASE \E m \in Msgs : Session(m)
      BY <2>1, SessionKeeps
    <2>2. CASE UnsafeName \/ StoreFails \/ Report \/ Kill \/ \E m \in Msgs : Begin(m)
      BY <2>2, RoundKeeps
    <2>3. CASE CreateTmp
      BY <2>3, CreateKeeps
    <2>4. CASE FillTmp
      BY <2>4, FillKeeps
    <2>5. CASE Publish
      BY <2>5, PublishKeeps
    <2>6. CASE \E f \in files : Read(f)
      BY <2>6, ReadKeeps
    <2>7. CASE UNCHANGED vars
      <3> USE <2>7 DEF MInv, vars, workVars, doorVars
      <3>1. TypeOK'
        BY DEF TypeOK
      <3>2. FilesMeant' /\ NamesDiffer' /\ WrittenIsWhole'
        BY DEF FilesMeant, NamesDiffer, WrittenIsWhole
      <3> QED
        BY <3>1, <3>2, StandingKeeps
    <2> QED
      BY <2>1, <2>2, <2>3, <2>4, <2>5, <2>6, <2>7 DEF Next, Worker
  <1> QED
    BY <1>1, InitMailboxes, PTL DEF Spec

\* The variables keep their types.
THEOREM MailboxesTypes == Spec => []TypeOK
  <1>1. MInv => TypeOK
    BY DEF MInv
  <1> QED
    BY <1>1, Mailboxes_Invariant, PTL

\* Whatever fails or is killed, a reader finds whole messages, each meant for
\* the mailbox it lies in, and no two files of one name.
THEOREM ReadersSeeWhole == Spec => []ReaderSeesWhole
  <1>1. MInv => ReaderSeesWhole
    BY DEF MInv, ReaderSeesWhole, FilesMeant, NamesDiffer
  <1> QED
    BY <1>1, Mailboxes_Invariant, PTL

\* What the mailbox target reports delivered has reached every recipient.
THEOREM StoredReachedAll == Spec => []StoredMeansAll
  <1>1. MInv => StoredMeansAll
    BY DEF MInv
  <1> QED
    BY <1>1, Mailboxes_Invariant, PTL

\* There are no more copies than rounds and mentions account for, and who comes
\* first in the envelope has never fewer than who comes later.
THEOREM CopiesAreAccounted == Spec => []CopiesInOrder
  <1>1. MInv => CopiesInOrder
    <2> SUFFICES ASSUME MInv PROVE CopiesInOrder
      OBVIOUS
    <2>1. InOrder
      BY DEF MInv
    <2>2. ASSUME NEW m \in Msgs, NEW b \in Boxes
          PROVE  got[m][b] <= Times(m, b) * Rounds(m)
      <3>1. Past(m) \in Nat /\ Times(m, b) \in Nat
        BY Numbers, Mentions DEF Past
      <3>2. got[m][b] \in Nat /\ got[m][b] <= Times(m, b) * Past(m) + (IF job = m THEN UpTo(m, b, pos - 1) ELSE 0)
        BY Numbers DEF MInv, Copies
      <3>3. CASE job # m
        <4>1. Rounds(m) = Past(m)
          BY <3>3 DEF Rounds, Past
        <4> QED
          BY <3>1, <3>2, <3>3, <4>1
      <3>4. CASE job = m
        <4>1. job # NoMsg /\ at[m] = "queued"
          BY <3>4, MailboxesAssumption DEF MInv, HeldIsDue
        <4>2. Rounds(m) = Past(m) + 1
          BY <3>4, <4>1, Numbers DEF Rounds, Past
        <4>3. Times(m, b) * (Past(m) + 1) = Times(m, b) * Past(m) + Times(m, b)
          BY <3>1
        <4>4. pos - 1 \in 0 .. Len(rcpts[m])
          BY <3>4, <4>1, Numbers DEF MInv, TypeOK
        <4>5. UpTo(m, b, pos - 1) \in Nat /\ UpTo(m, b, pos - 1) <= Times(m, b)
          BY <4>4, Mentions
        <4>6. got[m][b] <= Times(m, b) * Past(m) + UpTo(m, b, pos - 1)
          BY <3>2, <3>4
        <4>7. Times(m, b) * Past(m) \in Nat
          BY <3>1
        <4>8. got[m][b] <= Times(m, b) * Past(m) + Times(m, b)
          BY <3>1, <3>2, <4>5, <4>6, <4>7
        <4> QED
          BY <4>2, <4>3, <4>8
      <3> QED
        BY <3>3, <3>4
    <2> QED
      BY <2>1, <2>2 DEF CopiesInOrder, InOrder
  <1> QED
    BY <1>1, Mailboxes_Invariant, PTL

------------------------------------------------------------------------------
(***************************************************************************)
(* Quotas.  The invariant follows one message through the door's check of  *)
(* a mailbox and on to its delivery there.                                 *)
(***************************************************************************)

Mentioned(m, b, k) == \E i \in 1 .. k : rcpts[m][i] = b

\* The check of m has come to mailbox b, or is past it.
Noted(b) ==
  {m \in Msgs : \/ at[m] = "checking" /\ Mentioned(m, b, check[m].rcpt)
                \/ at[m] \in {"passed", "queued"} /\ Mentioned(m, b, Len(rcpts[m]))}

\* It is past it: the mailbox had room for m.
Cleared(b) ==
  {m \in Msgs : \/ at[m] = "checking" /\ Mentioned(m, b, check[m].rcpt - 1)
                \/ at[m] \in {"passed", "queued"} /\ Mentioned(m, b, Len(rcpts[m]))}

\* It is between the two directories of b.
HalfCounted(b) ==
  {m \in Msgs : at[m] = "checking" /\ rcpts[m][check[m].rcpt] = b /\ check[m].dir = "cur"}

\* A mailbox that is not crowded is checked for one message at a time, which
\* finds room there that nobody else can take; of what the check has counted
\* nothing that is still in the mailbox was left out.
Watched(b) ==
  /\ Held(b) <= quota
  /\ \A m, n \in Noted(b) : m = n
  /\ \A m \in Noted(b) : ~ Repeated(m, b)
  /\ \A m \in Cleared(b) : got[m][b] = 0 => Held(b) + Size[m] <= quota
  /\ \A m \in HalfCounted(b) : Bytes(In(b, {"new"})) <= check[m].total

\* The file in the making is the one the worker writes, and no reader's yet.
MineIsMine ==
  job # NoMsg /\ part # "next" =>
    \A f \in files : f.name = mine => f.of = job /\ f.box = ThisBox /\ f.dir = "tmp"

Quotaed ==
  /\ \A m \in Msgs : check[m].total \in Nat
  /\ \A m \in Msgs : at[m] = "offered" => check[m] = Fresh
  /\ MineIsMine
  /\ quota > 0 => \A b \in Boxes \ crowded : Watched(b)

LEMMA BytesIs ==
  ASSUME NEW T \in SUBSET File, IsFiniteSet(T)
  PROVE  LET w == [f \in T |-> Size[f.of]]
         IN  /\ \A f \in T : w[f] \in Nat /\ w[f] = Size[f.of]
             /\ \A S \in SUBSET T : Bytes(S) = SumFunctionOnSet(w, S)
  <1> DEFINE w == [f \in T |-> Size[f.of]]
  <1>1. \A f \in T : w[f] \in Nat /\ w[f] = Size[f.of]
    BY MailboxesAssumption DEF File
  <1>2. ASSUME NEW S \in SUBSET T
        PROVE  Bytes(S) = SumFunctionOnSet(w, S)
    <2> DEFINE v == [f \in S |-> Size[f.of]]
    <2>1. IsFiniteSet(S) /\ \A f \in S : v[f] = w[f]
      BY FS_Subset
    <2> HIDE DEF v, w
    <2>2. SumFunctionOnSet(v, S) = SumFunctionOnSet(w, S)
      BY <2>1, SumAgrees
    <2> QED
      BY <2>2 DEF Bytes, v
  <1> QED
    BY <1>1, <1>2

LEMMA BytesOfPart ==
  ASSUME NEW T \in SUBSET File, IsFiniteSet(T)
  PROVE  \A S \in SUBSET T : Bytes(S) \in Nat /\ Bytes(S) <= Bytes(T)
  <1> DEFINE w == [f \in T |-> Size[f.of]]
  <1>1. /\ \A f \in T : w[f] \in Nat
        /\ \A S \in SUBSET T : Bytes(S) = SumFunctionOnSet(w, S)
    BY BytesIs
  <1> HIDE DEF w
  <1>2. \A S \in SUBSET T : IsFiniteSet(S) /\ \A f \in S : w[f] \in Nat
    BY <1>1, FS_Subset
  <1>3. \A S \in SUBSET T : SumFunctionOnSet(w, S) \in Nat
    BY <1>2, SumType
  <1>4. \A S \in SUBSET T : SumFunctionOnSet(w, S) <= SumFunctionOnSet(w, T)
    BY <1>1, SumOfPart
  <1> QED
    BY <1>1, <1>3, <1>4

LEMMA BytesOfBoth ==
  ASSUME NEW A \in SUBSET File, NEW B \in SUBSET File, IsFiniteSet(A), IsFiniteSet(B), A \cap B = {}
  PROVE  Bytes(A \cup B) = Bytes(A) + Bytes(B)
  <1> DEFINE T == A \cup B
             w == [f \in T |-> Size[f.of]]
  <1>1. T \in SUBSET File /\ IsFiniteSet(T) /\ A \in SUBSET T /\ B \in SUBSET T
    BY FS_Union
  <1>2. /\ \A f \in T : w[f] \in Nat
        /\ \A S \in SUBSET T : Bytes(S) = SumFunctionOnSet(w, S)
    <2> HIDE DEF T
    <2> QED
      BY <1>1, BytesIs
  <1> HIDE DEF w
  <1>3. SumFunctionOnSet(w, A \cup B) = SumFunctionOnSet(w, A) + SumFunctionOnSet(w, B)
    BY <1>1, <1>2, SumOfBoth
  <1> QED
    BY <1>1, <1>2, <1>3

LEMMA BytesOfOne == ASSUME NEW f \in File PROVE Bytes({f}) = Size[f.of]
  <1> DEFINE T == {f}
             w == [g \in T |-> Size[g.of]]
  <1>1. T \in SUBSET File /\ IsFiniteSet(T) /\ f \in T /\ T \ {f} = {}
    BY FS_Singleton
  <1>2. \A g \in T : w[g] \in Nat /\ w[g] = Size[g.of]
    BY MailboxesAssumption DEF File
  <1>3. Bytes(T) = SumFunctionOnSet(w, T)
    BY DEF Bytes
  <1> HIDE DEF T, w
  <1>4. SumFunctionOnSet(w, T) = w[f] + SumFunctionOnSet(w, {})
    BY <1>1, <1>2, SumSplit
  <1>5. SumFunctionOnSet(w, {}) = 0
    BY SumOfNone
  <1>6. Bytes(T) = Size[f.of]
    BY <1>1, <1>2, <1>3, <1>4, <1>5
  <1> QED
    BY <1>6 DEF T

\* What is in a mailbox is in new/ or in cur/.
LEMMA HeldIs ==
  ASSUME TypeOK, NEW b \in Boxes
  PROVE  /\ Held(b) \in Nat /\ Bytes(In(b, {"new"})) \in Nat /\ Bytes(In(b, {"cur"})) \in Nat
         /\ Held(b) = Bytes(In(b, {"new"})) + Bytes(In(b, {"cur"}))
  <1> DEFINE N == In(b, {"new"})
             C == In(b, {"cur"})
  <1>1. N \in SUBSET File /\ C \in SUBSET File /\ N \cap C = {} /\ In(b, {"new", "cur"}) = N \cup C
    BY DEF In, TypeOK
  <1>2. IsFiniteSet(N) /\ IsFiniteSet(C)
    BY FS_Subset DEF In, TypeOK
  <1> HIDE DEF N, C
  <1>3. Bytes(N) \in Nat /\ Bytes(C) \in Nat /\ Bytes(N \cup C) = Bytes(N) + Bytes(C)
    BY <1>1, <1>2, BytesOfPart, BytesOfBoth
  <1>4. Held(b) = Bytes(N \cup C)
    BY <1>1 DEF Held
  <1>5. Held(b) \in Nat /\ Held(b) = Bytes(N) + Bytes(C)
    BY <1>3, <1>4
  <1> QED
    BY <1>3, <1>5 DEF N, C

LEMMA HeldTypes == MInv => \A b \in Boxes : Held(b) \in Nat /\ Bytes(In(b, {"new"})) \in Nat
  BY HeldIs DEF MInv

LEMMA HeldTypesNext ==
  (MInv => \A b \in Boxes : Held(b) \in Nat /\ Bytes(In(b, {"new"})) \in Nat)'
  BY HeldTypes, PTL

\* A step that notes and clears nobody, and puts nothing into the mailbox.
LEMMA Relaxes ==
  ASSUME MInv, NEW b \in Boxes, Watched(b), UNCHANGED <<rcpts, quota>>,
         Held(b)' \in Nat, Held(b)' <= Held(b),
         Bytes(In(b, {"new"}))' \in Nat, Bytes(In(b, {"new"}))' <= Bytes(In(b, {"new"})),
         Noted(b)' \subseteq Noted(b), Cleared(b)' \subseteq Cleared(b),
         \A m \in HalfCounted(b)' : m \in HalfCounted(b) /\ check'[m].total = check[m].total
                                     /\ check[m].total \in Nat,
         \A m \in Msgs : got'[m][b] = 0 => got[m][b] = 0
  PROVE  Watched(b)'
  <1>0. Held(b) \in Nat /\ Bytes(In(b, {"new"})) \in Nat /\ quota \in Nat
        /\ \A m \in Msgs : Size[m] \in Nat
    BY HeldTypes, MailboxesAssumption DEF MInv, TypeOK
  <1>1. Held(b)' <= quota'
    BY <1>0 DEF Watched
  <1>2. \A m, n \in Noted(b)' : m = n
    BY DEF Watched
  <1>3. \A m \in Noted(b)' : ~ Repeated(m, b)'
    BY DEF Watched, Repeated
  <1>4. ASSUME NEW m \in Cleared(b)', got'[m][b] = 0
        PROVE  Held(b)' + Size[m] <= quota'
    <2>1. m \in Msgs /\ m \in Cleared(b)
      BY DEF Cleared
    <2>2. Held(b) + Size[m] <= quota
      BY <1>4, <2>1 DEF Watched
    <2>3. PICK h \in Nat : h = Held(b)'
      OBVIOUS
    <2> QED
      BY <1>0, <2>1, <2>2, <2>3
  <1>5. ASSUME NEW m \in HalfCounted(b)'
        PROVE  Bytes(In(b, {"new"}))' <= check'[m].total
    <2>1. Bytes(In(b, {"new"})) <= check[m].total /\ check[m].total \in Nat /\ check'[m].total = check[m].total
      BY DEF Watched
    <2>2. PICK h \in Nat : h = Bytes(In(b, {"new"}))'
      OBVIOUS
    <2> QED
      BY <1>0, <2>1, <2>2
  <1> QED
    BY <1>1, <1>2, <1>3, <1>4, <1>5 DEF Watched

\* The files stay what they are.
LEMMA HeldStays ==
  ASSUME MInv, UNCHANGED files, NEW b \in Boxes
  PROVE  /\ Held(b)' = Held(b) /\ Bytes(In(b, {"new"}))' = Bytes(In(b, {"new"}))
         /\ Held(b) \in Nat /\ Bytes(In(b, {"new"})) \in Nat
  <1>1. In(b, {"new", "cur"})' = In(b, {"new", "cur"}) /\ In(b, {"new"})' = In(b, {"new"})
    BY DEF In
  <1> QED
    BY <1>1, HeldTypes DEF Held

\* A step of one session, which may come to the mailbox, or be past it.
LEMMA SessionWatched ==
  ASSUME MInv, NEW b \in Boxes, Watched(b), NEW m \in Msgs,
         UNCHANGED <<rcpts, quota, files, got>>,
         \A n \in Msgs \ {m} : check'[n] = check[n] /\ at'[n] = at[n],
         m \in Noted(b)' => m \in Noted(b) \/ (UnderWay(b) \ {m} = {} /\ ~ Repeated(m, b)),
         m \in Cleared(b)' => m \in Cleared(b) \/ Held(b) + Size[m] <= quota,
         m \in HalfCounted(b)' => Bytes(In(b, {"new"})) <= check'[m].total
  PROVE  Watched(b)'
  <1>0. Held(b)' = Held(b) /\ Bytes(In(b, {"new"}))' = Bytes(In(b, {"new"}))
    BY HeldStays
  <1>1. \A n \in Msgs \ {m} : /\ n \in Noted(b)' <=> n \in Noted(b)
                              /\ n \in Cleared(b)' <=> n \in Cleared(b)
                              /\ n \in HalfCounted(b)' <=> n \in HalfCounted(b)
    BY DEF Noted, Cleared, HalfCounted, Mentioned
  <1>2. Noted(b) \subseteq UnderWay(b)
    <2>1. ASSUME NEW n \in Msgs, at[n] = "checking", Mentioned(n, b, check[n].rcpt)
          PROVE  n \in UnderWay(b)
      <3>1. check[n].rcpt \in Nat /\ check[n].rcpt <= Len(rcpts[n]) /\ Len(rcpts[n]) \in Nat
        BY Numbers
      <3> QED
        BY <2>1, <3>1 DEF Mentioned, UnderWay
    <2>2. ASSUME NEW n \in Msgs, at[n] \in {"passed", "queued"}, Mentioned(n, b, Len(rcpts[n]))
          PROVE  n \in UnderWay(b)
      BY <2>2 DEF Mentioned, UnderWay
    <2> QED
      BY <2>1, <2>2 DEF Noted
  <1>3. \A n \in Noted(b)' : n \in Msgs
    BY DEF Noted
  <1>4. \A n, k \in Noted(b)' : n = k
    BY <1>1, <1>2, <1>3 DEF Watched
  <1>5. \A n \in Noted(b)' : ~ Repeated(n, b)'
    BY <1>1, <1>3 DEF Watched, Repeated
  <1>6. \A n \in Cleared(b)' : got'[n][b] = 0 => Held(b)' + Size[n] <= quota'
    <2>1. \A n \in Cleared(b)' : n \in Msgs
      BY DEF Cleared
    <2> QED
      BY <1>0, <1>1, <2>1 DEF Watched
  <1>7. \A n \in HalfCounted(b)' : Bytes(In(b, {"new"}))' <= check'[n].total
    <2>1. \A n \in HalfCounted(b)' : n \in Msgs
      BY DEF HalfCounted
    <2> QED
      BY <1>0, <1>1, <2>1 DEF Watched
  <1> QED
    BY <1>0, <1>4, <1>5, <1>6, <1>7 DEF Watched

LEMMA SessionQuotas ==
  ASSUME MInv, MInv', Quotaed, NEW m \in Msgs, Session(m)
  PROVE  Quotaed'
  <1>0. /\ UNCHANGED <<rcpts, files, quota, job, pos, part, mine, got>>
        /\ crowded \subseteq crowded'
        /\ \A n \in Msgs \ {m} : check'[n] = check[n] /\ at'[n] = at[n]
    BY DEF Session, Submit, Unlimited, StartCheck, CountNew, RefuseFull, HasRoom, Spool, Goto,
       NoteCrowd, workVars, MInv, TypeOK
  <1>1. /\ check[m].rcpt \in Nat \ {0} /\ check[m].rcpt <= Len(rcpts[m]) /\ Len(rcpts[m]) \in Nat
        /\ check[m].total \in Nat /\ rcpts[m] \in Seq(Boxes) /\ Size[m] \in Nat
    BY Numbers, MailboxesAssumption DEF Quotaed, MInv, TypeOK
  <1>2. MineIsMine'
    BY <1>0 DEF Quotaed, MineIsMine, ThisBox
  <1>3. ASSUME \A n \in Msgs : check'[n].total \in Nat, at'[m] # "offered",
               quota > 0 => \A b \in Boxes \ crowded' : Watched(b) => Watched(b)'
        PROVE  Quotaed'
    <2>1. \A n \in Msgs : at'[n] = "offered" => check'[n] = Fresh
      BY <1>0, <1>3 DEF Quotaed
    <2>2. quota' > 0 => \A b \in Boxes \ crowded' : Watched(b)'
      BY <1>0, <1>3 DEF Quotaed
    <2> QED
      BY <1>2, <1>3, <2>1, <2>2 DEF Quotaed
  <1>4. ASSUME NEW b \in Boxes, Watched(b),
               m \in Noted(b)' => m \in Noted(b) \/ (UnderWay(b) \ {m} = {} /\ ~ Repeated(m, b)),
               m \in Cleared(b)' => m \in Cleared(b) \/ Held(b) + Size[m] <= quota,
               m \in HalfCounted(b)' => Bytes(In(b, {"new"})) <= check'[m].total
        PROVE  Watched(b)'
    BY <1>0, <1>4, SessionWatched
  <1>5. ASSUME at'[m] \in {"relayed", "refused"}, \A n \in Msgs : check'[n].total \in Nat
        PROVE  Quotaed'
    <2>1. \A b \in Boxes : m \notin Noted(b)' /\ m \notin Cleared(b)' /\ m \notin HalfCounted(b)'
      BY <1>5 DEF Noted, Cleared, HalfCounted
    <2> QED
      BY <1>3, <1>4, <1>5, <2>1
  <1>6. Fresh.total = 0 /\ Fresh.rcpt = 1 /\ Fresh.dir = "new"
    BY DEF Fresh
  <1>7. \A n \in Msgs : check[n].total \in Nat /\ check[n] \in [rcpt : Nat \ {0}, dir : {"new", "cur"}, total : Nat]
    BY DEF Quotaed, MInv, TypeOK, Count
  <1>8. CASE Submit(m) \/ RefuseFull(m)
    <2>1. at'[m] \in {"relayed", "refused"}
      BY <1>8 DEF Submit, RefuseFull, Goto, MInv, TypeOK
    <2>2. \A n \in Msgs : check'[n].total \in Nat
      <3>1. Submit(m) => \A n \in Msgs : check'[n] = check[n]
        BY DEF Submit
      <3>2. RefuseFull(m) => check'[m] = Fresh
        BY DEF RefuseFull, MInv, TypeOK
      <3> QED
        BY <1>0, <1>6, <1>7, <1>8, <3>1, <3>2
    <2> QED
      BY <1>5, <2>1, <2>2
  <1>9. CASE Unlimited(m)
    BY <1>3, <1>7, <1>9 DEF Unlimited, Goto, MInv, TypeOK
  <1>10. CASE Spool(m)
    <2>1. check' = check /\ at[m] = "passed" /\ at'[m] \in {"queued", "refused"}
      BY <1>10 DEF Spool, Goto, MInv, TypeOK
    <2>2. \A b \in Boxes : /\ m \in Noted(b)' => m \in Noted(b)
                           /\ m \in Cleared(b)' => m \in Cleared(b)
                           /\ m \notin HalfCounted(b)'
      BY <1>0, <2>1 DEF Noted, Cleared, HalfCounted, Mentioned
    <2> QED
      BY <1>3, <1>4, <1>7, <2>1, <2>2
  <1>11. CASE StartCheck(m)
    <2>1. check' = check /\ at'[m] = "checking" /\ check[m] = Fresh
      BY <1>11 DEF StartCheck, Goto, MInv, TypeOK, Quotaed
    <2>2. ASSUME NEW b \in Boxes \ crowded'
          PROVE  /\ m \in Noted(b)' => UnderWay(b) \ {m} = {} /\ ~ Repeated(m, b)
                 /\ m \notin Cleared(b)' /\ m \notin HalfCounted(b)'
      <3>1. m \in Noted(b)' => rcpts[m][1] = b
        BY <1>0, <1>6, <2>1 DEF Noted, Mentioned
      <3>2. m \notin Cleared(b)'
        BY <1>0, <1>6, <2>1 DEF Cleared, Mentioned
      <3>3. m \notin HalfCounted(b)'
        BY <1>6, <2>1 DEF HalfCounted
      <3>4. rcpts[m][1] = b => UnderWay(b) \ {m} = {} /\ ~ Repeated(m, b)
        BY <1>11, <2>2 DEF StartCheck, NoteCrowd
      <3> QED
        BY <3>1, <3>2, <3>3, <3>4
    <2> QED
      BY <1>3, <1>4, <1>7, <2>1, <2>2
  <1>12. CASE CountNew(m)
    <2>1. /\ at' = at /\ at[m] = "checking" /\ check[m].dir = "new"
          /\ check'[m].rcpt = check[m].rcpt /\ check'[m].total = Counted(m)
      BY <1>7, <1>12 DEF CountNew, MInv, TypeOK
    <2>2. /\ rcpts[m][check[m].rcpt] \in Boxes
          /\ Counted(m) = check[m].total + Bytes(In(rcpts[m][check[m].rcpt], {"new"}))
      BY <1>1, <2>1 DEF Counted
    <2>3. Bytes(In(rcpts[m][check[m].rcpt], {"new"})) \in Nat
      BY <2>2, HeldTypes
    <2>4. Counted(m) \in Nat /\ Bytes(In(rcpts[m][check[m].rcpt], {"new"})) <= Counted(m)
      BY <1>1, <2>2, <2>3
    <2>5. \A n \in Msgs : check'[n].total \in Nat
      BY <1>0, <1>7, <2>1, <2>4
    <2>6. ASSUME NEW b \in Boxes
          PROVE  /\ m \in Noted(b)' => m \in Noted(b)
                 /\ m \in Cleared(b)' => m \in Cleared(b)
                 /\ m \in HalfCounted(b)' => Bytes(In(b, {"new"})) <= check'[m].total
      BY <1>0, <2>1, <2>4 DEF Noted, Cleared, HalfCounted, Mentioned
    <2> QED
      BY <1>3, <1>4, <2>1, <2>5, <2>6
  <1>13. CASE HasRoom(m)
    <2> DEFINE k == check[m].rcpt
    <2>1. /\ at[m] = "checking" /\ check[m].dir = "cur" /\ Counted(m) + Size[m] <= quota
          /\ rcpts[m][k] \in Boxes
          /\ Counted(m) = check[m].total + Bytes(In(rcpts[m][k], {"cur"}))
      BY <1>1, <1>13 DEF HasRoom, Counted
    <2>2. ASSUME NEW b \in Boxes, Watched(b), rcpts[m][k] = b
          PROVE  Held(b) + Size[m] <= quota
      <3>1. Bytes(In(b, {"new"})) <= check[m].total
        BY <2>1, <2>2 DEF Watched, HalfCounted
      <3>2. /\ Held(b) = Bytes(In(b, {"new"})) + Bytes(In(b, {"cur"}))
            /\ Bytes(In(b, {"new"})) \in Nat /\ Bytes(In(b, {"cur"})) \in Nat
        BY HeldIs DEF MInv
      <3>3. quota \in Nat
        BY MailboxesAssumption DEF MInv, TypeOK
      <3> QED
        BY <1>1, <2>1, <2>2, <3>1, <3>2, <3>3
    <2>3. CASE k + 1 <= Len(rcpts[m])
      <3>1. /\ at' = at /\ check'[m].rcpt = k + 1 /\ check'[m].dir = "new" /\ check'[m].total = 0
            /\ NoteCrowd(m, rcpts[m][k + 1])
        BY <1>13, <2>3 DEF HasRoom, Fresh, MInv, TypeOK
      <3>2. \A n \in Msgs : check'[n].total \in Nat
        BY <1>0, <1>7, <3>1
      <3>3. ASSUME NEW b \in Boxes \ crowded', Watched(b)
            PROVE  Watched(b)'
        <4>1. m \in Noted(b)' => m \in Noted(b) \/ rcpts[m][k + 1] = b
          BY <1>0, <1>1, <2>1, <3>1 DEF Noted, Mentioned
        <4>2. rcpts[m][k + 1] = b => UnderWay(b) \ {m} = {} /\ ~ Repeated(m, b)
          BY <3>1, <3>3 DEF NoteCrowd
        <4>3. m \in Cleared(b)' => m \in Cleared(b) \/ rcpts[m][k] = b
          BY <1>0, <1>1, <2>1, <3>1, SMTT(30) DEF Cleared, Mentioned
        <4>4. m \notin HalfCounted(b)'
          BY <3>1 DEF HalfCounted
        <4> QED
          BY <1>4, <2>2, <3>3, <4>1, <4>2, <4>3, <4>4
      <3> QED
        BY <1>3, <2>1, <3>1, <3>2, <3>3
    <2>4. CASE ~ (k + 1 <= Len(rcpts[m]))
      <3>1. at'[m] = "passed" /\ check'[m] = Fresh /\ k = Len(rcpts[m])
        BY <1>1, <1>13, <2>4 DEF HasRoom, Goto, MInv, TypeOK
      <3>2. \A n \in Msgs : check'[n].total \in Nat
        BY <1>0, <1>6, <1>7, <3>1
      <3>3. ASSUME NEW b \in Boxes \ crowded', Watched(b)
            PROVE  Watched(b)'
        <4>1. m \in Noted(b)' => m \in Noted(b)
          BY <1>0, <2>1, <3>1 DEF Noted, Mentioned
        <4>2. m \in Cleared(b)' => m \in Cleared(b) \/ rcpts[m][k] = b
          BY <1>0, <1>1, <2>1, <3>1 DEF Cleared, Mentioned
        <4>3. m \notin HalfCounted(b)'
          BY <3>1 DEF HalfCounted
        <4> QED
          BY <1>4, <2>2, <3>3, <4>1, <4>2, <4>3
      <3> QED
        BY <1>3, <3>1, <3>2, <3>3
    <2> QED
      BY <2>3, <2>4
  <1> QED
    BY <1>8, <1>9, <1>10, <1>11, <1>12, <1>13 DEF Session

\* Rounds that begin and end leave the mailboxes alone.
LEMMA RoundQuotas ==
  ASSUME MInv, MInv', Quotaed,
         UnsafeName \/ StoreFails \/ Report \/ Kill \/ UNCHANGED vars \/ \E m \in Msgs : Begin(m)
  PROVE  Quotaed'
  <1> USE DEF doorVars, workVars, vars
  <1>1. /\ UNCHANGED <<rcpts, files, quota, got, crowded>>
        /\ part' = "next" \/ UNCHANGED <<job, pos, part, mine>>
        /\ check' = check \/ check' = [m \in Msgs |-> Fresh]
    BY DEF UnsafeName, StoreFails, RoundFails, Report, Kill, Begin
  <1>2. /\ \A m \in Msgs : at'[m] \in {"offered", "checking", "passed", "queued"} => at'[m] = at[m]
        /\ (\A m \in Msgs : at'[m] # "checking") \/ check' = check
    <2> USE DEF MInv, TypeOK, Goto
    <2>1. CASE Kill
      BY <2>1 DEF Kill
    <2>2. CASE UnsafeName \/ StoreFails
      <3>1. RoundFails /\ job \in Msgs
        BY <2>2 DEF UnsafeName, StoreFails, Busy
      <3> QED
        BY <3>1 DEF RoundFails
    <2>3. CASE Report
      BY <2>3 DEF Report
    <2>4. CASE UNCHANGED vars \/ \E m \in Msgs : Begin(m)
      BY <2>4 DEF Begin
    <2> QED
      BY <2>1, <2>2, <2>3, <2>4
  <1>3. /\ \A m \in Msgs : check'[m].total \in Nat
        /\ \A m \in Msgs : at'[m] = "offered" => check'[m] = Fresh
    BY <1>1, <1>2 DEF Quotaed, Fresh
  <1>4. MineIsMine'
    BY <1>1 DEF Quotaed, MineIsMine, ThisBox
  <1>5. ASSUME NEW b \in Boxes, Watched(b)
        PROVE  Watched(b)'
    <2>1. /\ Held(b)' = Held(b) /\ Bytes(In(b, {"new"}))' = Bytes(In(b, {"new"}))
          /\ Held(b) \in Nat /\ Bytes(In(b, {"new"})) \in Nat
      BY <1>1, HeldStays
    <2>2. /\ Noted(b)' \subseteq Noted(b) /\ Cleared(b)' \subseteq Cleared(b)
      BY <1>1, <1>2 DEF Noted, Cleared, Mentioned
    <2>3. \A m \in HalfCounted(b)' : m \in HalfCounted(b) /\ check'[m].total = check[m].total
                                      /\ check[m].total \in Nat
      BY <1>1, <1>2 DEF HalfCounted, Quotaed
    <2>4. Held(b)' \in Nat /\ Held(b)' <= Held(b)
          /\ Bytes(In(b, {"new"}))' \in Nat /\ Bytes(In(b, {"new"}))' <= Bytes(In(b, {"new"}))
      BY <2>1
    <2> QED
      BY <1>1, <1>5, <2>2, <2>3, <2>4, Relaxes
  <1> QED
    BY <1>1, <1>3, <1>4, <1>5 DEF Quotaed

\* The files of a mailbox that is none of the step's lose nothing they should
\* keep: a step on files outside of it, or one that takes some away.
LEMMA FilesWatched ==
  ASSUME MInv, MInv', Quotaed, NEW b \in Boxes, Watched(b), UNCHANGED <<doorVars, quota>>,
         In(b, {"new"})' \subseteq In(b, {"new"}),
         Held(b)' <= Held(b),
         \A m \in Msgs : got'[m][b] = 0 => got[m][b] = 0
  PROVE  Watched(b)'
  <1>1. /\ Held(b)' \in Nat /\ Bytes(In(b, {"new"}))' \in Nat
    BY HeldTypesNext
  <1>2. Bytes(In(b, {"new"}))' <= Bytes(In(b, {"new"}))
    <2>1. In(b, {"new"}) \in SUBSET File /\ IsFiniteSet(In(b, {"new"}))
      BY FS_Subset DEF In, MInv, TypeOK
    <2>2. PICK S : S = In(b, {"new"})'
      OBVIOUS
    <2>3. Bytes(S) <= Bytes(In(b, {"new"}))
      BY <2>1, <2>2, BytesOfPart
    <2> QED
      BY <2>2, <2>3
  <1>3. /\ Noted(b)' = Noted(b) /\ Cleared(b)' = Cleared(b) /\ HalfCounted(b)' = HalfCounted(b)
        /\ UNCHANGED <<rcpts, check>>
    BY DEF Noted, Cleared, HalfCounted, Mentioned, doorVars
  <1>4. \A m \in HalfCounted(b) : check[m].total \in Nat
    BY DEF HalfCounted, Quotaed
  <1> QED
    BY <1>1, <1>2, <1>3, <1>4, Relaxes

LEMMA TmpQuotas ==
  ASSUME MInv, MInv', Quotaed, CreateTmp \/ FillTmp
  PROVE  Quotaed'
  <1>1. /\ UNCHANGED <<doorVars, quota, job, pos, got, crowded>> /\ job \in Msgs /\ part' # "next"
    BY DEF CreateTmp, FillTmp, Busy, MInv, TypeOK
  <1>2. MineIsMine'
    <2>1. CASE CreateTmp
      <3>1. \A f \in files : f.name # FreeName
        BY FreeNameIsFree DEF MInv, TypeOK
      <3>2. Created("tmp").of = job /\ Created("tmp").box = ThisBox /\ Created("tmp").dir = "tmp"
        BY DEF Created
      <3>3. files' = files \cup {Created("tmp")} /\ mine' = FreeName /\ ThisBox' = ThisBox /\ job' = job
        BY <1>1, <2>1 DEF CreateTmp, ThisBox, doorVars
      <3> QED
        BY <3>1, <3>2, <3>3 DEF MineIsMine
    <2>2. CASE FillTmp
      <3>1. /\ files' = {IF f.name = mine THEN [f EXCEPT !.whole = TRUE] ELSE f : f \in files}
            /\ mine' = mine /\ job' = job /\ ThisBox' = ThisBox /\ part # "next" /\ job # NoMsg
        BY <1>1, <2>2 DEF FillTmp, Busy, ThisBox, doorVars
      <3>2. \A f \in files : LET g == [f EXCEPT !.whole = TRUE]
                             IN  g.name = f.name /\ g.of = f.of /\ g.box = f.box /\ g.dir = f.dir
        BY DEF MInv, TypeOK, File
      <3> QED
        BY <3>1, <3>2, ZenonT(30) DEF Quotaed, MineIsMine
    <2> QED
      BY <2>1, <2>2
  <1>3. ASSUME NEW b \in Boxes
        PROVE  In(b, {"new"})' = In(b, {"new"}) /\ In(b, {"new", "cur"})' = In(b, {"new", "cur"})
    <2>1. CASE CreateTmp
      <3>1. files' = files \cup {Created("tmp")} /\ Created("tmp").dir = "tmp"
        BY <2>1 DEF CreateTmp, Created
      <3> QED
        BY <3>1 DEF In
    <2>2. CASE FillTmp
      <3>1. /\ files' = {IF f.name = mine THEN [f EXCEPT !.whole = TRUE] ELSE f : f \in files}
            /\ \A f \in files : f.name = mine => f.dir = "tmp" /\ [f EXCEPT !.whole = TRUE].dir = "tmp"
        BY <2>2 DEF FillTmp, Busy, Quotaed, MineIsMine, MInv, TypeOK, File
      <3> QED
        BY <3>1 DEF In
    <2> QED
      BY <2>1, <2>2
  <1>4. ASSUME NEW b \in Boxes, Watched(b)
        PROVE  Watched(b)'
    <2>1. Held(b)' = Held(b) /\ Held(b) \in Nat
      BY <1>3, HeldTypes DEF Held
    <2>2. Held(b)' <= Held(b)
      BY <2>1
    <2> QED
      BY <1>1, <1>3, <1>4, <2>2, FilesWatched
  <1> QED
    BY <1>1, <1>2, <1>4 DEF Quotaed, doorVars

\* Readers move files on, and take them out.
LEMMA ReadQuotas ==
  ASSUME MInv, MInv', Quotaed, NEW f \in files, Read(f)
  PROVE  Quotaed'
  <1> DEFINE g == [f EXCEPT !.dir = "cur"]
  <1>1. /\ UNCHANGED <<doorVars, quota, job, pos, part, mine, got, crowded>> /\ ThisBox' = ThisBox
    BY DEF Read, workVars, doorVars, ThisBox
  <1>2. g \in File /\ g.name = f.name /\ g.box = f.box /\ g.of = f.of /\ g.dir = "cur" /\ f \in File
    BY DEF MInv, TypeOK, File
  <1>3. MineIsMine'
    <2>1. \A h \in files' : h \in files \/ (h = g /\ f.dir = "new")
      BY DEF Read
    <2> QED
      BY <1>1, <1>2, <2>1 DEF Quotaed, MineIsMine
  <1>4. ASSUME NEW b \in Boxes, Watched(b)
        PROVE  Watched(b)'
    <2>1. In(b, {"new"})' \subseteq In(b, {"new"})
      BY <1>2 DEF Read, In
    <2>2. Held(b)' <= Held(b)
      <3> DEFINE A == In(b, {"new", "cur"})
                 R == A \ {f}
      <3>1. A \in SUBSET File /\ IsFiniteSet(A) /\ R \in SUBSET A /\ Held(b) = Bytes(A)
        BY FS_Subset DEF In, MInv, TypeOK, Held
      <3>2. PICK S : S = In(b, {"new", "cur"})'
        OBVIOUS
      <3>3. Held(b)' = Bytes(S)
        BY <3>2 DEF Held
      <3>4. CASE S \in SUBSET A
        BY <3>1, <3>3, <3>4, BytesOfPart
      <3>5. CASE S \notin SUBSET A
        <4>1. /\ f.dir = "new" /\ files' = (files \ {f}) \cup {g} /\ f.box = b
              /\ f \in A /\ S = R \cup {g} /\ g \notin files
          <5>1. f.dir = "new" /\ files' = (files \ {f}) \cup {g} /\ f.box = b
            BY <1>2, <3>2, <3>5 DEF Read, In
          <5>2. S = R \cup {g} /\ f \in A
            BY <1>2, <3>2, <5>1 DEF In
          <5>3. g \notin files
            BY <1>2, <5>1 DEF MInv, NamesDiffer
          <5> QED
            BY <5>1, <5>2, <5>3
        <4> HIDE DEF g
        <4>2. R \in SUBSET File /\ IsFiniteSet(R) /\ R \cap {g} = {} /\ R \cap {f} = {} /\ A = R \cup {f}
          BY <3>1, <4>1, FS_Subset DEF In
        <4>3. IsFiniteSet({f}) /\ IsFiniteSet({g}) /\ {f} \in SUBSET File /\ {g} \in SUBSET File
          BY <1>2, FS_Singleton
        <4> HIDE DEF A, R
        <4>4. Bytes(S) = Bytes(R) + Bytes({g}) /\ Bytes(A) = Bytes(R) + Bytes({f})
          BY <4>1, <4>2, <4>3, BytesOfBoth
        <4>5. Bytes({g}) = Bytes({f})
          BY <1>2, BytesOfOne
        <4>6. Bytes(A) \in Nat
          BY <3>1, BytesOfPart
        <4> QED
          BY <3>1, <3>3, <4>4, <4>5, <4>6
      <3> QED
        BY <3>4, <3>5
    <2> QED
      BY <1>1, <1>4, <2>1, <2>2, FilesWatched
  <1> QED
    BY <1>1, <1>3, <1>4 DEF Quotaed, doorVars

\* The worker's file comes into the mailbox it is for.
LEMMA PublishQuotas ==
  ASSUME MInv, MInv', Quotaed, Publish
  PROVE  Quotaed'
  <1> DEFINE box == ThisBox
             g == [f \in files |-> IF f.name = mine THEN [f EXCEPT !.dir = "new"] ELSE f]
  <1>1. /\ UNCHANGED <<doorVars, quota, job>> /\ job \in Msgs /\ job # NoMsg /\ part' = "next"
        /\ part = "written" /\ pos \in 1 .. Len(rcpts[job]) /\ box \in Boxes
        /\ crowded' = IF got[job][box] > 0 THEN crowded \cup {box} ELSE crowded
        /\ got' = [got EXCEPT ![job][box] = @ + 1] /\ files' = {g[f] : f \in files}
    <2>1. job \in Msgs /\ pos \in Nat \ {0} /\ Len(rcpts[job]) \in Nat /\ rcpts[job] \in Seq(Boxes)
      BY Numbers, MailboxesAssumption DEF Publish, Busy, MInv, TypeOK
    <2> QED
      BY <2>1 DEF Publish, Busy, ThisBox
  <1>2. \A f \in files : f.name = mine => f.of = job /\ f.box = box /\ f.dir = "tmp"
    BY <1>1 DEF Quotaed, MineIsMine
  <1>3. \A f \in files : /\ f \in File
                         /\ g[f].name = f.name /\ g[f].box = f.box /\ g[f].of = f.of
                         /\ f.name = mine => g[f].dir = "new"
                         /\ f.name # mine => g[f] = f
    BY DEF MInv, TypeOK, File
  <1> HIDE DEF g, box
  <1>4. MineIsMine'
    BY <1>1 DEF MineIsMine
  <1>5. \A m \in Msgs, b \in Boxes : got[m][b] \in Nat
    BY Numbers
  <1>6. ASSUME NEW b \in Boxes, Watched(b), b # box
        PROVE  Watched(b)'
    <2>1. In(b, {"new"})' = In(b, {"new"}) /\ In(b, {"new", "cur"})' = In(b, {"new", "cur"})
      BY <1>1, <1>2, <1>3, <1>6 DEF In
    <2>2. Held(b)' = Held(b) /\ Held(b) \in Nat
      BY <2>1, HeldTypes DEF Held
    <2>3. \A m \in Msgs : got'[m][b] = 0 => got[m][b] = 0
      BY <1>1, <1>6 DEF MInv, TypeOK
    <2>4. Held(b)' <= Held(b)
      BY <2>2
    <2> QED
      BY <1>1, <1>6, <2>1, <2>3, <2>4, FilesWatched
  <1>7. ASSUME NEW b \in Boxes \ crowded', Watched(b), b = box
        PROVE  Watched(b)'
    <2>1. got[job][b] = 0 /\ got'[job][b] = 1
      BY <1>1, <1>5, <1>7, SMTT(30) DEF MInv, TypeOK
    <2>2. job \in Noted(b) /\ job \in Cleared(b) /\ at[job] = "queued"
      BY <1>1, <1>7 DEF MInv, HeldIsDue, Noted, Cleared, Mentioned, ThisBox, box
    <2>3. Held(b) + Size[job] <= quota
      BY <1>7, <2>1, <2>2 DEF Watched
    <2>4. /\ Noted(b)' = Noted(b) /\ Cleared(b)' = Cleared(b) /\ HalfCounted(b)' = HalfCounted(b)
          /\ UNCHANGED <<rcpts, at, check>>
      BY <1>1 DEF Noted, Cleared, HalfCounted, Mentioned, doorVars
    <2>5. \A m \in Noted(b) : m = job
      BY <1>7, <2>2 DEF Watched
    <2>6. Cleared(b) \subseteq Noted(b) /\ HalfCounted(b) \subseteq Noted(b) /\ job \notin HalfCounted(b)
      <3>1. \A m \in Msgs : check[m].rcpt \in Nat \ {0}
        BY Numbers
      <3> QED
        BY <2>2, <3>1 DEF Cleared, HalfCounted, Noted, Mentioned
    <2>7. Held(b)' <= quota'
      <3> DEFINE A == In(b, {"new", "cur"})
      <3>1. A \in SUBSET File /\ IsFiniteSet(A) /\ Held(b) = Bytes(A)
        BY FS_Subset DEF In, MInv, TypeOK, Held
      <3>2. PICK S : S = In(b, {"new", "cur"})'
        OBVIOUS
      <3>3. Held(b)' = Bytes(S) /\ Held(b)' \in Nat /\ Held(b) \in Nat
        BY <3>2, HeldTypes, HeldTypesNext DEF Held
      <3>4. quota' = quota /\ quota \in Nat /\ Size[job] \in Nat
        BY <1>1, MailboxesAssumption DEF MInv, TypeOK
      <3>5. CASE \E f \in files : f.name = mine
        <4>1. PICK f \in files : f.name = mine
          BY <3>5
        <4>2. \A h \in files : h.name = mine => h = f
          BY <4>1 DEF MInv, NamesDiffer
        <4>3. S = A \cup {g[f]} /\ f \notin A
          BY <1>1, <1>2, <1>3, <1>7, <3>2, <4>1, <4>2 DEF In
        <4>4. g[f] \in File /\ g[f].of = job /\ A \cap {g[f]} = {}
          <5>1. g[f].name = mine /\ g[f].of = job /\ \A h \in A : h.name # mine
            BY <1>2, <1>3, <4>1, <4>2 DEF In
          <5>2. g[f] \in files'
            BY <1>1
          <5> QED
            BY <5>1, <5>2 DEF MInv, TypeOK
        <4>5. IsFiniteSet({g[f]}) /\ {g[f]} \in SUBSET File
          BY <4>4, FS_Singleton
        <4> HIDE DEF A
        <4>6. Bytes(S) = Bytes(A) + Bytes({g[f]})
          BY <3>1, <4>3, <4>4, <4>5, BytesOfBoth
        <4>7. Bytes({g[f]}) = Size[job]
          BY <4>4, BytesOfOne
        <4>8. Bytes(S) <= quota
          BY <2>3, <3>1, <4>6, <4>7
        <4> QED
          BY <3>3, <3>4, <4>8
      <3>6. CASE ~ \E f \in files : f.name = mine
        <4>1. S = A
          BY <1>1, <1>3, <3>2, <3>6 DEF In
        <4> QED
          BY <2>3, <3>1, <3>3, <3>4, <4>1
      <3> QED
        BY <3>5, <3>6
    <2>8. \A m, n \in Noted(b)' : m = n
      BY <2>4, <2>5
    <2>9. \A m \in Noted(b)' : ~ Repeated(m, b)'
      BY <1>7, <2>4 DEF Watched, Repeated
    <2>10. \A m \in Cleared(b)' : got'[m][b] # 0
      BY <2>1, <2>4, <2>5, <2>6
    <2>11. HalfCounted(b)' = {}
      BY <2>4, <2>5, <2>6
    <2> QED
      BY <2>7, <2>8, <2>9, <2>10, <2>11 DEF Watched
  <1> QED
    BY <1>1, <1>4, <1>6, <1>7 DEF Quotaed, doorVars

\* Before anything is delivered every mailbox is empty, and nobody is noted.
LEMMA InitQuotas == Init => Quotaed
  <1> SUFFICES ASSUME Init PROVE Quotaed
    OBVIOUS
  <1>1. \A m \in Msgs : check[m] = Fresh /\ check[m].total = 0 /\ at[m] = "offered"
    BY DEF Init, Fresh
  <1>2. ASSUME NEW b \in Boxes
        PROVE  Watched(b)
    <2>1. Noted(b) = {} /\ Cleared(b) = {} /\ HalfCounted(b) = {}
      BY <1>1 DEF Noted, Cleared, HalfCounted
    <2>2. Held(b) = 0
      <3>1. In(b, {"new", "cur"}) = {}
        BY DEF Init, In
      <3> QED
        BY <3>1, SumOfNone DEF Held, Bytes
    <2>3. quota \in Nat
      BY MailboxesAssumption DEF Init
    <2> QED
      BY <2>1, <2>2, <2>3 DEF Watched
  <1>3. MineIsMine
    BY DEF Init, MineIsMine
  <1> QED
    BY <1>1, <1>2, <1>3 DEF Quotaed

\* The door's check (SpoolCommit::commit, Maildir::size), the target's rounds
\* (MailboxTarget::deliver) and the readers leave a mailbox within its quota,
\* unless bytes were promised to it that the check could not see.
THEOREM QuotasHold == Spec => []QuotaHolds
  <1>1. MInv /\ MInv' /\ Quotaed /\ [Next]_vars => Quotaed'
    <2> SUFFICES ASSUME MInv, MInv', Quotaed, [Next]_vars PROVE Quotaed'
      OBVIOUS
    <2>1. CASE \E m \in Msgs : Session(m)
      BY <2>1, SessionQuotas
    <2>2. CASE UnsafeName \/ StoreFails \/ Report \/ Kill \/ UNCHANGED vars \/ \E m \in Msgs : Begin(m)
      BY <2>2, RoundQuotas
    <2>3. CASE CreateTmp \/ FillTmp
      BY <2>3, TmpQuotas
    <2>4. CASE Publish
      BY <2>4, PublishQuotas
    <2>5. CASE \E f \in files : Read(f)
      BY <2>5, ReadQuotas
    <2> QED
      BY <2>1, <2>2, <2>3, <2>4, <2>5 DEF Next, Worker
  <1>2. MInv /\ Quotaed => QuotaHolds
    <2> SUFFICES ASSUME MInv, Quotaed, quota > 0, NEW b \in Boxes, Held(b) > quota, b \notin crowded
                 PROVE  FALSE
      BY DEF QuotaHolds
    <2>1. Held(b) <= quota
      BY DEF Quotaed, Watched
    <2>2. Held(b) \in Nat /\ quota \in Nat
      BY HeldTypes, MailboxesAssumption DEF MInv, TypeOK
    <2> QED
      BY <2>1, <2>2
  <1> QED
    BY <1>1, <1>2, InitQuotas, Mailboxes_Invariant, PTL DEF Spec
==============================================================================
