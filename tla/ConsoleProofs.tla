----------------------------- MODULE ConsoleProofs -----------------------------
(***************************************************************************)
(* Theorems of module Registry, for any number of processes, domains and   *)
(* commands, and whatever dies; and of module Console over it, for any     *)
(* records of other providers, any number of domains and of commands       *)
(* beside: that "all sorted" is true, and what becomes of the zone when a  *)
(* sheet is followed.                                                      *)
(***************************************************************************)
EXTENDS Console, FiniteSetTheorems, WellFoundedInduction, TLAPS

------------------------------------------------------------------------------
(***************************************************************************)
(* Module Registry: what overlapping and dying commands leave behind.      *)
(***************************************************************************)

\* A command that mints has its key from "read" on.
HasMinted ==
  \A p \in Procs :
    /\ pc[p] \in {"mint", "minting"} => Mints(cmd[p])
    /\ Mints(cmd[p]) /\ pc[p] \in {"read", "write", "fill"} =>
         made[p] > 0 /\ key[cmd[p].name] > 0

\* No text, on disk or about to be, names a domain without a key.
KeysFirst ==
  /\ KeyIsThere
  /\ \A p \in Procs : pc[p] \in {"write", "fill"} =>
       \A d \in Domains : text[p][d] # None => key[d] > 0

Alone == ~ raced => \A p, q \in Procs : pc[p] # "idle" /\ pc[q] # "idle" => p = q

\* Without overlap and cut, the file is the sum of the commands that
\* succeeded, and what is about to be written is that with one command more.
Summed ==
  ~ raced /\ ~ cut =>
    /\ (\A p \in Procs : pc[p] # "fill") => file = expect
    /\ \A p \in Procs : pc[p] \in {"write", "fill"} => text[p] \in Edits(expect, cmd[p])

\* A text's domain d has a whole key of which the operator was told.
Told(t, d) ==
  t[d] # None /\ d \notin orphan =>
    d \notin torn /\ key[d] > 0 /\ <<t[d].sel, key[d]>> \in announced[d]

\* Whoever minted a key has made an orphan of the domain until it ends well.
Minting(p) ==
  Mints(cmd[p]) =>
    /\ pc[p] \in {"minting", "read", "write", "fill"} => cmd[p].name \in orphan
    /\ pc[p] \in {"read", "write", "fill"} =>
         cmd[p].name \notin torn /\ key[cmd[p].name] = made[p]
    /\ pc[p] \in {"write", "fill"} =>
         text[p][cmd[p].name] # None /\ text[p][cmd[p].name].sel = cmd[p].sel

ToldAll ==
  ~ raced =>
    /\ \A d \in Domains : Told(file, d)
    /\ \A p \in Procs :
         Minting(p) /\ (pc[p] \in {"write", "fill"} => \A d \in Domains : Told(text[p], d))

RInv == TypeOK /\ HasMinted /\ KeysFirst /\ Alone /\ Summed /\ ToldAll

------------------------------------------------------------------------------
LEMMA Domain_Names ==
  /\ Domains \subseteq Names /\ Server \in Names /\ Server \notin Domains
  /\ None \notin Entry /\ None \notin Selectors
  /\ Empty \in Text /\ Fresh \in Text
  /\ \A d \in Domains : Empty[d] = None /\ Fresh[d] = None
  <1> USE RegistryAssumption DEF Names
  <1>1. None \notin Entry /\ None \notin Selectors
    BY DEF Entry
  <1>2. Empty \in Text
    BY DEF Empty, Text
  <1>3. [sel |-> None, val |-> Default] \in Entry
    BY DEF Entry
  <1>4. Fresh \in Text /\ \A d \in Domains : Empty[d] = None /\ Fresh[d] = None
    BY <1>2, <1>3 DEF Fresh, Empty, Text
  <1> QED
    BY <1>1, <1>2, <1>4

LEMMA CommandShape ==
  ASSUME NEW c \in Command
  PROVE  /\ c.name \in Names /\ c.val \in Values /\ c.sel \in Selectors \cup {None}
         /\ c.verb \in {"add", "rekey", "set", "remove", "firstRun"}
         /\ Mints(c) => c.name \in Domains /\ c.sel \in Selectors
         /\ c.verb = "firstRun" => c.name = Server
         /\ c.verb = "add" => c.name \in Domains \/ c.name \in Others
  BY RegistryAssumption DEF Command, Mints, Names

LEMMA IdleIsCommand == Idle \in Command /\ ~ Mints(Idle)
  <1>1. (CHOOSE n \in Domains : TRUE) \in Names \ {Server}
    BY RegistryAssumption DEF Names
  <1> QED
    BY <1>1, RegistryAssumption DEF Idle, Command, Mints

\* What an edit may do to a text.
LEMMA EditsShape ==
  ASSUME NEW t \in Text, NEW c \in Command, NEW u \in Edits(t, c)
  PROVE  /\ u \in Text
         /\ c.verb = "firstRun" => u = Fresh
         /\ c.verb # "firstRun" => \A n \in Names \ {c.name} : u[n] = t[n]
         /\ Mints(c) => u[c.name] # None /\ u[c.name].sel = c.sel
         /\ ~ Mints(c) /\ c.verb # "firstRun" =>
              \A d \in Domains : u[d] # None => t[d] # None /\ u[d].sel = t[d].sel
  <1> USE CommandShape, Domain_Names
  <1>1. [sel |-> c.sel, val |-> c.val] \in Entry
    BY DEF Entry
  <1>2. CASE c.verb = "firstRun"
    BY <1>2 DEF Edits, Mints
  <1>3. CASE c.verb = "add"
    BY <1>1, <1>3, RegistryAssumption DEF Edits, Added, Mints, Text
  <1>4. CASE c.verb = "remove"
    BY <1>4 DEF Edits, Changed, Mints, Text
  <1>5. CASE c.verb = "set"
    <2>1. t[c.name] # None /\ u = [t EXCEPT ![c.name].val = c.val]
      BY <1>5 DEF Edits, Changed
    <2>2. t[c.name] \in Entry
      BY <2>1 DEF Text
    <2>3. [t[c.name] EXCEPT !.val = c.val] \in Entry
          /\ [t[c.name] EXCEPT !.val = c.val].sel = t[c.name].sel
      BY <2>2 DEF Entry
    <2> QED
      BY <1>5, <2>1, <2>2, <2>3 DEF Mints, Text
  <1>6. CASE c.verb = "rekey"
    <2>1. t[c.name] # None /\ u = [t EXCEPT ![c.name].sel = c.sel]
      BY <1>6 DEF Edits, Changed
    <2>2. t[c.name] \in Entry
      BY <2>1 DEF Text
    <2>3. [t[c.name] EXCEPT !.sel = c.sel] \in Entry
          /\ [t[c.name] EXCEPT !.sel = c.sel].sel = c.sel
      BY <2>2 DEF Entry
    <2> QED
      BY <1>6, <2>1, <2>2, <2>3 DEF Mints, Text
  <1> QED
    BY <1>2, <1>3, <1>4, <1>5, <1>6

LEMMA InitRegistry == Init => RInv
  <1> SUFFICES ASSUME Init PROVE RInv
    OBVIOUS
  <1> USE RegistryAssumption, Domain_Names, IdleIsCommand DEF Init
  <1>1. TypeOK
    <2>1. garbled \in BOOLEAN /\ cut \in BOOLEAN /\ raced \in BOOLEAN
      BY Zenon
    <2> QED
      BY <2>1 DEF TypeOK
  <1>2. HasMinted /\ KeysFirst /\ Alone /\ Summed /\ ToldAll
    BY DEF HasMinted, KeysFirst, KeyIsThere, Alone, Summed, ToldAll, Told, Minting
  <1> QED
    BY <1>1, <1>2 DEF RInv

\* The process at hand moves to `point`, the others stand still.
Moves(p, point) ==
  /\ pc' \in [Procs -> {"idle", "mint", "minting", "read", "write", "fill"}]
  /\ pc'[p] = point /\ \A q \in Procs \ {p} : pc'[q] = pc[q]

LEMMA GotoMoves ==
  ASSUME TypeOK, NEW p \in Procs,
         NEW point \in {"idle", "mint", "minting", "read", "write", "fill"}, Goto(p, point)
  PROVE  Moves(p, point)
  BY DEF TypeOK, Goto, Moves

LEMMA ExitTypes ==
  ASSUME TypeOK, NEW p \in Procs, Exit(p)
  PROVE  /\ Moves(p, "idle")
         /\ cmd' \in [Procs -> Command] /\ text' \in [Procs -> Text]
         /\ made' \in [Procs -> 0 .. mints]
         /\ ~ Mints(cmd'[p])
         /\ \A q \in Procs \ {p} : cmd'[q] = cmd[q] /\ text'[q] = text[q] /\ made'[q] = made[q]
  BY IdleIsCommand, Domain_Names, GotoMoves DEF TypeOK, Exit

\* Once a step is alone, it stays alone as long as nobody starts.
LEMMA AloneStays ==
  ASSUME Alone, raced' = raced, \A q \in Procs : pc'[q] # "idle" => pc[q] # "idle"
  PROVE  Alone'
  BY DEF Alone

LEMMA MintKeeps ==
  ASSUME RInv, NEW p \in Procs, Mint(p)
  PROVE  RInv'
  <1> USE DEF RInv, Mint
  <1>1. Moves(p, "minting") /\ pc[p] = "mint"
    BY GotoMoves
  <1>2. cmd[p] \in Command /\ Mints(cmd[p]) /\ cmd[p].name \in Domains
    BY CommandShape DEF TypeOK, HasMinted
  <1>3. TypeOK'
    BY <1>1, <1>2 DEF TypeOK, Moves
  <1>4. HasMinted' /\ KeysFirst'
    BY <1>1, <1>2 DEF HasMinted, KeysFirst, KeyIsThere, Moves
  <1>5. Alone'
    BY <1>1, AloneStays DEF Moves
  <1>6. Summed'
    BY <1>1 DEF Summed, Moves
  <1>7. ToldAll'
    BY <1>1, <1>2 DEF ToldAll, Told, Minting, Moves, Alone
  <1> QED
    BY <1>3, <1>4, <1>5, <1>6, <1>7

LEMMA MintedKeeps ==
  ASSUME RInv, NEW p \in Procs, Minted(p)
  PROVE  RInv'
  <1> USE DEF RInv, Minted, histVars
  <1>1. Moves(p, "read") /\ pc[p] = "minting"
    BY GotoMoves
  <1>2. cmd[p] \in Command /\ Mints(cmd[p]) /\ cmd[p].name \in Domains /\ mints \in Nat
    BY CommandShape DEF TypeOK, HasMinted
  <1>3. /\ made' \in [Procs -> 0 .. mints'] /\ made'[p] = mints + 1
        /\ \A q \in Procs \ {p} : made'[q] = made[q]
    BY <1>2 DEF TypeOK
  <1>4. /\ key' \in [Domains -> 0 .. mints'] /\ key'[cmd[p].name] = mints + 1
        /\ \A d \in Domains : key[d] > 0 => key'[d] > 0
        /\ \A d \in Domains \ {cmd[p].name} : key'[d] = key[d]
    BY <1>2 DEF TypeOK
  <1>5. announced' \in [Domains -> SUBSET (Selectors \X (1 .. mints'))]
    <2>1. \A d \in Domains : announced[d] \in SUBSET (Selectors \X (1 .. mints'))
      <3>1. 1 .. mints \subseteq 1 .. mints'
        BY <1>2
      <3> QED
        BY <3>1 DEF TypeOK
    <2> QED
      BY <2>1 DEF TypeOK
  <1>6. TypeOK'
    BY <1>1, <1>2, <1>3, <1>4, <1>5 DEF TypeOK, Moves
  <1>7. HasMinted' /\ KeysFirst'
    BY <1>1, <1>2, <1>3, <1>4, CommandShape DEF HasMinted, KeysFirst, KeyIsThere, Moves, TypeOK
  <1>8. Alone'
    BY <1>1, AloneStays DEF Moves
  <1>9. Summed'
    BY <1>1 DEF Summed, Moves
  <1>10. ToldAll'
    BY <1>1, <1>2, <1>3, <1>4 DEF ToldAll, Told, Minting, Moves, Alone
  <1> QED
    BY <1>6, <1>7, <1>8, <1>9, <1>10

LEMMA ReadKeeps ==
  ASSUME RInv, NEW p \in Procs, Read(p)
  PROVE  RInv'
  <1> USE DEF RInv, Read, histVars
  <1>1. Moves(p, "write") /\ pc[p] = "read"
    BY GotoMoves
  <1>2. PICK t \in Edits(file, cmd[p]) : text' = [text EXCEPT ![p] = t]
    OBVIOUS
  <1>3. cmd[p] \in Command /\ file \in Text
    BY DEF TypeOK
  <1>4. /\ t \in Text /\ text'[p] = t /\ text' \in [Procs -> Text]
        /\ \A q \in Procs \ {p} : text'[q] = text[q]
    BY <1>2, <1>3, EditsShape DEF TypeOK
  <1>5. TypeOK'
    BY <1>1, <1>4 DEF TypeOK, Moves
  <1>6. HasMinted'
    BY <1>1 DEF HasMinted, Moves
  <1>7. KeysFirst'
    <2>1. ASSUME NEW d \in Domains, t[d] # None PROVE key[d] > 0
      BY <1>1, <1>2, <1>3, <2>1, EditsShape, CommandShape, Domain_Names
         DEF HasMinted, KeysFirst, KeyIsThere
    <2> QED
      BY <1>1, <1>4, <2>1 DEF KeysFirst, KeyIsThere, Moves
  <1>8. Alone'
    BY <1>1, AloneStays DEF Moves
  <1>9. Summed'
    BY <1>1, <1>2, <1>4 DEF Summed, Moves, Alone
  <1>10. ToldAll'
    <2>1. ASSUME ~ raced, NEW d \in Domains PROVE Told(t, d)
      BY <1>1, <1>2, <1>3, <2>1, EditsShape, CommandShape, Domain_Names, SMTT(30) DEF ToldAll, Told, Minting
    <2>2. Mints(cmd[p]) => t[cmd[p].name] # None /\ t[cmd[p].name].sel = cmd[p].sel
      BY <1>2, <1>3, EditsShape
    <2> SUFFICES ASSUME ~ raced
                 PROVE  /\ \A d \in Domains : Told(file, d)'
                        /\ \A q \in Procs :
                             /\ Minting(q)'
                             /\ pc'[q] \in {"write", "fill"} =>
                                  \A d \in Domains : Told(text[q], d)'
      BY DEF ToldAll
    <2>3. \A d \in Domains : Told(file, d)'
      BY DEF ToldAll, Told
    <2>4. ASSUME NEW q \in Procs
          PROVE  /\ Minting(q)'
                 /\ pc'[q] \in {"write", "fill"} => \A d \in Domains : Told(text[q], d)'
      <3>1. CASE q = p
        <4>1. Minting(p)'
          BY <1>1, <1>4, <2>2 DEF ToldAll, Minting, Moves
        <4>2. \A d \in Domains : Told(text[p], d)'
          BY <1>4, <2>1 DEF Told
        <4> QED
          BY <3>1, <4>1, <4>2
      <3>2. CASE q # p
        <4>1. pc'[q] = pc[q] /\ text'[q] = text[q]
          BY <1>1, <1>4, <3>2 DEF Moves
        <4>2. Minting(q)'
          BY <4>1 DEF ToldAll, Minting
        <4>3. pc'[q] \in {"write", "fill"} => \A d \in Domains : Told(text[q], d)'
          BY <4>1 DEF ToldAll, Told
        <4> QED
          BY <4>2, <4>3
      <3> QED
        BY <3>1, <3>2
    <2> QED
      BY <2>3, <2>4
  <1> QED
    BY <1>5, <1>6, <1>7, <1>8, <1>9, <1>10

LEMMA StartKeeps ==
  ASSUME RInv, NEW p \in Procs, NEW c \in Command, Start(p, c)
  PROVE  RInv'
  <1> USE DEF RInv
  <1>0. /\ pc[p] = "idle" /\ commands' = commands + 1
        /\ UNCHANGED <<file, garbled, key, torn, mints, made, server, failures, announced,
                       orphan, expect, cut>>
        /\ raced' = (raced \/ \E q \in Procs \ {p} : pc[q] # "idle")
    BY DEF Start, Begin
  <1>1. PICK point \in {"mint", "write", "read"} :
           /\ Moves(p, point)
           /\ (point = "mint") <=> Mints(c)
           /\ point = "write" => c.verb = "firstRun"
    BY GotoMoves DEF Mints, Start, Begin
  <1>2. /\ cmd' \in [Procs -> Command] /\ cmd'[p] = c
        /\ text' \in [Procs -> Text]
        /\ c.verb = "firstRun" => text'[p] = Fresh
        /\ \A q \in Procs \ {p} : cmd'[q] = cmd[q] /\ text'[q] = text[q]
    BY Domain_Names DEF TypeOK, Start, Begin
  <1>3. raced' \in BOOLEAN
    BY <1>0, Zenon DEF TypeOK
  <1>4. TypeOK'
    BY <1>0, <1>1, <1>2, <1>3 DEF TypeOK, Moves
  <1>5. HasMinted'
    BY <1>0, <1>1, <1>2 DEF HasMinted, Moves
  <1>6. KeysFirst'
    BY <1>0, <1>1, <1>2, Domain_Names DEF KeysFirst, KeyIsThere, Moves
  <1>7. ~ raced' => ~ raced /\ \A q \in Procs \ {p} : pc'[q] = "idle" /\ pc[q] = "idle"
    BY <1>0, <1>1 DEF Moves
  <1>8. Alone'
    BY <1>0, <1>7 DEF Alone
  <1>9. Summed'
    <2>1. c.verb = "firstRun" => Edits(expect, c) = {Fresh}
      BY DEF Edits
    <2> QED
      BY <1>0, <1>1, <1>2, <1>7, <2>1 DEF Summed, Moves
  <1>10. ToldAll'
    BY <1>0, <1>1, <1>2, <1>7, Domain_Names DEF ToldAll, Told, Minting, Moves, Mints
  <1> QED
    BY <1>4, <1>5, <1>6, <1>8, <1>9, <1>10

LEMMA TruncateKeeps ==
  ASSUME RInv, NEW p \in Procs, Truncate(p)
  PROVE  RInv'
  <1> USE DEF RInv, Truncate, histVars
  <1>1. Moves(p, "fill") /\ pc[p] = "write"
    BY GotoMoves
  <1>2. TypeOK'
    BY <1>1, Domain_Names DEF TypeOK, Moves
  <1>3. HasMinted' /\ KeysFirst'
    BY <1>1, Domain_Names DEF HasMinted, KeysFirst, KeyIsThere, Moves
  <1>4. Alone'
    BY <1>1, AloneStays DEF Moves
  <1>5. Summed'
    BY <1>1 DEF Summed, Moves
  <1>6. ToldAll'
    BY <1>1, Domain_Names DEF ToldAll, Told, Minting, Moves
  <1> QED
    BY <1>2, <1>3, <1>4, <1>5, <1>6

\* Nothing the process held is left, on whichever way it exits.
LEMMA LeavingKeeps ==
  ASSUME RInv, NEW p \in Procs, Refused(p) \/ Dies(p)
  PROVE  RInv'
  <1> USE DEF RInv, histVars
  <1>1. Exit(p) /\ UNCHANGED <<file, garbled, key, torn, mints, server, announced, orphan,
                               expect, raced, commands>>
    BY DEF Refused, Dies
  <1>2. /\ Moves(p, "idle") /\ ~ Mints(cmd'[p])
        /\ cmd' \in [Procs -> Command] /\ text' \in [Procs -> Text]
        /\ made' \in [Procs -> 0 .. mints]
        /\ \A q \in Procs \ {p} : cmd'[q] = cmd[q] /\ text'[q] = text[q] /\ made'[q] = made[q]
    BY <1>1, ExitTypes
  <1>3. (cut => cut') /\ (pc[p] = "fill" => cut') /\ cut' \in BOOLEAN
    BY Zenon DEF TypeOK, Refused, Dies
  <1>4. failures' \in Nat
    BY DEF TypeOK, Refused, Dies
  <1>5. TypeOK'
    BY <1>1, <1>2, <1>3, <1>4 DEF TypeOK, Moves
  <1>6. HasMinted' /\ KeysFirst'
    BY <1>1, <1>2 DEF HasMinted, KeysFirst, KeyIsThere, Moves
  <1>7. Alone'
    BY <1>1, <1>2, AloneStays DEF Moves
  <1>8. Summed'
    BY <1>1, <1>2, <1>3 DEF Summed, Moves
  <1>9. ToldAll'
    BY <1>1, <1>2 DEF ToldAll, Told, Minting, Moves
  <1> QED
    BY <1>5, <1>6, <1>7, <1>8, <1>9

LEMMA FillKeeps ==
  ASSUME RInv, NEW p \in Procs, Fill(p)
  PROVE  RInv'
  <1> DEFINE c == cmd[p]
  <1> USE DEF RInv
  <1>1. /\ pc[p] = "fill" /\ file' = text[p] /\ Exit(p)
        /\ UNCHANGED <<garbled, key, torn, commands, mints, server, failures, cut, raced>>
    BY DEF Fill
  <1>2. /\ Moves(p, "idle") /\ ~ Mints(cmd'[p])
        /\ cmd' \in [Procs -> Command] /\ text' \in [Procs -> Text]
        /\ made' \in [Procs -> 0 .. mints]
        /\ \A q \in Procs \ {p} : cmd'[q] = cmd[q] /\ text'[q] = text[q] /\ made'[q] = made[q]
    BY <1>1, ExitTypes
  <1>3. /\ expect' = IF c.verb = "firstRun" THEN Fresh
                     ELSE [expect EXCEPT ![c.name] =
                             CASE c.verb = "remove" -> None
                               [] c.verb = "add" -> IF @ = None THEN [sel |-> c.sel, val |-> c.val] ELSE @
                               [] c.verb = "set" -> IF @ = None THEN @ ELSE [@ EXCEPT !.val = c.val]
                               [] c.verb = "rekey" -> IF @ = None THEN @ ELSE [@ EXCEPT !.sel = c.sel]]
        /\ IF Mints(c)
             THEN /\ announced' = [announced EXCEPT ![c.name] = @ \cup {<<c.sel, made[p]>>}]
                  /\ orphan' = orphan \ {c.name}
             ELSE UNCHANGED <<announced, orphan>>
    BY DEF Fill
  <1>4. c \in Command /\ expect \in Text
    BY DEF TypeOK
  <1>5. /\ c.verb \in {"add", "rekey", "set", "remove", "firstRun"} /\ c.name \in Names
        /\ c.val \in Values /\ c.sel \in Selectors \cup {None}
        /\ Mints(c) => c.name \in Domains /\ c.sel \in Selectors
    BY <1>4, CommandShape
  <1> HIDE DEF c
  <1>6. expect' \in Text
    <2>1. [sel |-> c.sel, val |-> c.val] \in Entry
      BY <1>5 DEF Entry
    <2>2. expect[c.name] # None => expect[c.name] \in Entry
      BY <1>4, <1>5 DEF Text
    <2>3. expect[c.name] # None => /\ [expect[c.name] EXCEPT !.val = c.val] \in Entry
                                   /\ [expect[c.name] EXCEPT !.sel = c.sel] \in Entry
      BY <1>5, <2>2 DEF Entry
    <2>4. \/ expect' = Fresh
          \/ \E e \in Entry \cup {None} : expect' = [expect EXCEPT ![c.name] = e]
      BY <1>3, <1>5, <2>1, <2>2, <2>3
    <2> QED
      BY <1>4, <2>4, Domain_Names DEF Text
  <1>7. announced' \in [Domains -> SUBSET (Selectors \X (1 .. mints'))] /\ orphan' \subseteq Domains
    <2>1. CASE Mints(c)
      <3>1. <<c.sel, made[p]>> \in Selectors \X (1 .. mints)
        BY <1>1, <1>5, <2>1 DEF c, HasMinted, TypeOK
      <3> QED
        BY <1>1, <1>3, <1>5, <2>1, <3>1 DEF TypeOK
    <2>2. CASE ~ Mints(c)
      BY <1>1, <1>3, <2>2 DEF TypeOK
    <2> QED
      BY <2>1, <2>2
  <1>8. TypeOK'
    BY <1>1, <1>2, <1>6, <1>7 DEF TypeOK, Moves
  <1>9. HasMinted' /\ KeysFirst'
    BY <1>1, <1>2 DEF HasMinted, KeysFirst, KeyIsThere, Moves
  <1>10. Alone'
    BY <1>1, <1>2, AloneStays DEF Moves
  <1>11. Summed'
    <2> SUFFICES ASSUME ~ raced, ~ cut PROVE text[p] = expect'
      BY <1>1, <1>2 DEF Summed, Moves, Alone
    <2>1. text[p] \in Edits(expect, c)
      BY <1>1 DEF Summed, c
    <2>2. CASE c.verb = "firstRun"
      BY <1>3, <2>1, <2>2 DEF Edits
    <2>3. CASE c.verb = "add"
      <3>1. text[p] = [expect EXCEPT ![c.name] = [sel |-> c.sel, val |-> c.val]]
            /\ expect[c.name] = None
        BY <2>1, <2>3 DEF Edits, Added
      <3>2. expect' = [expect EXCEPT ![c.name] = [sel |-> c.sel, val |-> c.val]]
        BY <1>3, <2>3, <3>1
      <3> QED
        BY <3>1, <3>2
    <2>4. CASE c.verb = "remove"
      <3>1. text[p] = [expect EXCEPT ![c.name] = None]
        BY <2>1, <2>4 DEF Edits, Changed
      <3>2. expect' = [expect EXCEPT ![c.name] = None]
        BY <1>3, <2>4
      <3> QED
        BY <3>1, <3>2
    <2>5. CASE c.verb = "set"
      <3>1. text[p] = [expect EXCEPT ![c.name].val = c.val] /\ expect[c.name] # None
        BY <2>1, <2>5 DEF Edits, Changed
      <3>2. expect' = [expect EXCEPT ![c.name].val = c.val]
        BY <1>3, <1>4, <2>5, <3>1
      <3> QED
        BY <3>1, <3>2
    <2>6. CASE c.verb = "rekey"
      <3>1. text[p] = [expect EXCEPT ![c.name].sel = c.sel] /\ expect[c.name] # None
        BY <2>1, <2>6 DEF Edits, Changed
      <3>2. expect' = [expect EXCEPT ![c.name].sel = c.sel]
        BY <1>3, <1>4, <2>6, <3>1
      <3> QED
        BY <3>1, <3>2
    <2> QED
      BY <1>5, <2>2, <2>3, <2>4, <2>5, <2>6
  <1>12. ToldAll'
    <2> SUFFICES ASSUME ~ raced PROVE (\A d \in Domains : Told(file, d))'
                                       /\ \A q \in Procs : Minting(q)' /\ pc'[q] = "idle"
      BY <1>1 DEF ToldAll
    <2>1. \A q \in Procs : pc'[q] = "idle"
      BY <1>1, <1>2 DEF Alone, Moves
    <2>2. \A q \in Procs : Minting(q)'
      BY <2>1 DEF Minting
    <2>3. Minting(p) /\ \A d \in Domains : Told(text[p], d)
      BY <1>1 DEF ToldAll
    <2>4. ASSUME NEW d \in Domains PROVE Told(file, d)'
      <3>1. CASE Mints(c) /\ d = c.name
        <4>1. /\ d \notin torn /\ key[d] = made[p] /\ made[p] > 0
              /\ text[p][d].sel = c.sel
          BY <1>1, <2>3, <3>1 DEF Minting, HasMinted, c
        <4>2. <<c.sel, made[p]>> \in announced'[d]
          BY <1>3, <3>1 DEF TypeOK
        <4> QED
          BY <1>1, <4>1, <4>2 DEF Told
      <3>2. CASE ~ (Mints(c) /\ d = c.name)
        <4>1. announced'[d] = announced[d] /\ (d \in orphan <=> d \in orphan')
          BY <1>3, <3>2 DEF TypeOK
        <4> QED
          BY <1>1, <2>3, <4>1 DEF Told
      <3> QED
        BY <3>1, <3>2
    <2> QED
      BY <2>1, <2>2, <2>4
  <1> QED
    BY <1>8, <1>9, <1>10, <1>11, <1>12

LEMMA OutsideKeeps ==
  ASSUME RInv, HandEdit \/ Restart
  PROVE  RInv'
  <1> USE DEF RInv, runVars, histVars
  <1>1. /\ UNCHANGED <<file, key, torn, pc, cmd, text, made, commands, mints, announced, orphan,
                       expect, cut, raced>>
        /\ garbled' \in BOOLEAN /\ server' \in Text \cup {Down} /\ failures' \in Nat
    <2>1. garbled' \in BOOLEAN
      BY Zenon DEF HandEdit, Restart, TypeOK
    <2> QED
      BY <2>1 DEF HandEdit, Restart, TypeOK
  <1>2. TypeOK'
    BY <1>1 DEF TypeOK
  <1> QED
    BY <1>1, <1>2 DEF HasMinted, KeysFirst, KeyIsThere, Alone, Summed, ToldAll, Told, Minting

LEMMA StepKeeps == RInv /\ [Next]_vars => RInv'
  <1> SUFFICES ASSUME RInv, [Next]_vars PROVE RInv'
    OBVIOUS
  <1>1. CASE UNCHANGED vars
    BY <1>1 DEF vars, RInv, TypeOK, HasMinted, KeysFirst, KeyIsThere, Alone, Summed, ToldAll,
       Told, Minting
  <1>2. CASE Next
    BY <1>2, StartKeeps, MintKeeps, MintedKeeps, ReadKeeps, TruncateKeeps, LeavingKeeps,
       FillKeeps, OutsideKeeps DEF Next, Run, Steps
  <1> QED
    BY <1>1, <1>2

------------------------------------------------------------------------------
\* The invariant of all commands together: edit_config, rewrite, rekey.
THEOREM Registry_Invariant == Spec => []RInv
  BY InitRegistry, StepKeeps, PTL DEF Spec

\* Texts, commands and keys have their types.
THEOREM RegistryTypes == Spec => []TypeOK
  BY Registry_Invariant, PTL DEF RInv

\* One command at a time loses no entry and touches no other.
THEOREM UpdatesAreKept == Spec => []NoUpdateLost
  <1>1. RInv => NoUpdateLost
    BY DEF RInv, Summed, NoUpdateLost, Quiet
  <1> QED
    BY <1>1, Registry_Invariant, PTL

\* The server signs with a pair the operator was told of, where it can.
THEOREM SignsAsTold == Spec => []SignsAsAnnounced
  <1>1. RInv => SignsAsAnnounced
    <2> SUFFICES ASSUME RInv, NEW d \in Domains, server # Down, ~ raced, server[d] # None,
                        file[d] # None, file[d].sel = server[d].sel, d \notin orphan
                 PROVE  Signature(d) # {} /\ Signature(d) \subseteq announced[d]
      BY DEF SignsAsAnnounced, Stale
    <2>1. d \notin torn /\ key[d] > 0 /\ <<file[d].sel, key[d]>> \in announced[d]
      BY DEF RInv, ToldAll, Told
    <2> QED
      BY <2>1 DEF Signature
  <1> QED
    BY <1>1, Registry_Invariant, PTL

\* No overlap and no death registers a domain without a key.
THEOREM KeysAreThere == Spec => []KeyIsThere
  BY Registry_Invariant, PTL DEF RInv, KeysFirst

------------------------------------------------------------------------------
\* Module Sheet: SPF records.

\* A set of positions that is not empty has a first.
LEMMA First ==
  ASSUME NEW S \in SUBSET Nat, S # {}
  PROVE  \E i \in S : \A j \in S : i <= j
  <1> DEFINE Below == {p \in Nat \X Nat : p[1] < p[2]}
  <1>1. OpToRel(<, Nat) = Below
    BY DEF OpToRel
  <1>2. PICK i \in S : \A j \in S : ~ (<<j, i>> \in Below)
    BY <1>1, NatLessThanWellFounded, WFMin
  <1>3. ASSUME NEW j \in S
        PROVE  i <= j
    <2>1. i \in Nat /\ j \in Nat /\ ~ (<<j, i>> \in Below)
      BY <1>2
    <2>2. j < i => <<j, i>> \in Below
      BY <2>1
    <2> QED
      BY <2>1, <2>2
  <1> QED
    BY <1>2, <1>3

LEMMA FirstEndIsFirst ==
  ASSUME NEW r \in Seq(Mechanism), Ends(r) # {}
  PROVE  FirstEnd(r) \in Ends(r) /\ \A j \in Ends(r) : FirstEnd(r) <= j
  <1>1. Ends(r) \subseteq Nat
    BY DEF Ends
  <1>2. \E i \in Ends(r) : \A j \in Ends(r) : i <= j
    BY <1>1, First
  <1> QED
    BY <1>2 DEF FirstEnd

\* What a sequence with one element put between its parts is made of.
LEMMA Between ==
  ASSUME NEW S, NEW g, NEW a \in Seq(S), NEW b \in Seq(S)
  PROVE  a \o <<g>> \o b \in Seq(S \cup {g}) /\ Len(a \o <<g>> \o b) = Len(a) + Len(b) + 1
  <1>1. a \in Seq(S \cup {g}) /\ b \in Seq(S \cup {g})
    OBVIOUS
  <1>2. <<g>> \in Seq(S \cup {g}) /\ Len(<<g>>) = 1
    OBVIOUS
  <1>3. a \o <<g>> \in Seq(S \cup {g}) /\ Len(a \o <<g>>) = Len(a) + 1
    <2> DEFINE h == <<g>>
    <2> HIDE DEF h
    <2>1. a \o h \in Seq(S \cup {g}) /\ Len(a \o h) = Len(a) + 1
      BY <1>1, <1>2 DEF h
    <2> QED
      BY <2>1 DEF h
  <1>4. Len(a) \in Nat /\ Len(b) \in Nat
    OBVIOUS
  <1> DEFINE c == a \o <<g>>
  <1> HIDE DEF c
  <1>5. c \o b \in Seq(S \cup {g}) /\ Len(c \o b) = Len(c) + Len(b)
    BY <1>1, <1>3 DEF c
  <1> QED
    BY <1>3, <1>4, <1>5 DEF c

\* The merged record is the old one with the grant at a place before which no
\* mechanism is an `all`.
LEMMA MergedShape ==
  ASSUME NEW r \in Seq(Mechanism)
  PROVE  \E e \in 1 .. (Len(r) + 1) :
           /\ Merged(r) \in Seq(Mechanism \cup {Grant}) /\ Len(Merged(r)) = Len(r) + 1
           /\ Merged(r)[e] = Grant
           /\ \A i \in 1 .. (e - 1) : Merged(r)[i] = r[i] /\ r[i].kind # "all"
           /\ \A i \in e .. Len(r) : Merged(r)[i + 1] = r[i]
  <1>1. CASE Ends(r) = {}
    <2>1. \A i \in 1 .. Len(r) : r[i].kind # "all"
      BY <1>1 DEF Ends
    <2>2. Merged(r) = Append(r, Grant)
      BY <1>1 DEF Merged
    <2> HIDE DEF Grant
    <2> QED
      BY <2>1, <2>2
  <1>2. CASE Ends(r) # {}
    <2> DEFINE e == FirstEnd(r)
    <2>1. e \in 1 .. Len(r) /\ \A i \in 1 .. (e - 1) : r[i].kind # "all"
      BY <1>2, FirstEndIsFirst DEF Ends
    <2>2. Merged(r) = SubSeq(r, 1, e - 1) \o <<Grant>> \o SubSeq(r, e, Len(r))
      BY <1>2 DEF Merged
    <2> HIDE DEF e
    <2>3. /\ SubSeq(r, 1, e - 1) \in Seq(Mechanism) /\ Len(SubSeq(r, 1, e - 1)) = e - 1
          /\ SubSeq(r, e, Len(r)) \in Seq(Mechanism) /\ Len(SubSeq(r, e, Len(r))) = Len(r) - e + 1
          /\ \A i \in 1 .. (e - 1) : SubSeq(r, 1, e - 1)[i] = r[i]
          /\ \A i \in e .. Len(r) : SubSeq(r, e, Len(r))[i - e + 1] = r[i]
      BY <2>1
    <2>4. Merged(r) \in Seq(Mechanism \cup {Grant}) /\ Len(Merged(r)) = Len(r) + 1
      <3> DEFINE a == SubSeq(r, 1, e - 1)
                 b == SubSeq(r, e, Len(r))
      <3>1. /\ a \in Seq(Mechanism) /\ Len(a) = e - 1
            /\ b \in Seq(Mechanism) /\ Len(b) = Len(r) - e + 1
        BY <2>3
      <3>2. Merged(r) = a \o <<Grant>> \o b
        BY <2>2
      <3> DEFINE g == Grant
                 M == Mechanism
      <3> HIDE DEF a, b, g, M
      <3>3. a \o <<g>> \o b \in Seq(M \cup {g}) /\ Len(a \o <<g>> \o b) = Len(a) + Len(b) + 1
        <4>1. a \in Seq(M) /\ b \in Seq(M)
          BY <3>1 DEF M
        <4> QED
          BY <4>1, Between, SMT
      <3>4. Len(r) \in Nat /\ e \in Nat
        BY <2>1
      <3> QED
        BY <3>1, <3>2, <3>3, <3>4 DEF g, M
    <2>5. Merged(r)[e] = Grant
      BY <2>1, <2>2, <2>3
    <2>6. \A i \in 1 .. (e - 1) : Merged(r)[i] = r[i]
      BY <2>1, <2>2, <2>3
    <2>7. \A i \in e .. Len(r) : Merged(r)[i + 1] = r[i]
      BY <2>1, <2>2, <2>3
    <2> QED
      BY <2>1, <2>4, <2>5, <2>6, <2>7
  <1> QED
    BY <1>1, <1>2

\* Nobody who passed is turned away by the merge, and this server passes.
LEMMA MergeLetsPass ==
  ASSUME NEW r \in Foreign
  PROVE  /\ Authorizes(Merged(r)) /\ Passes(Merged(r), Ours)
         /\ \A h \in Hosts : Passes(r, h) => Passes(Merged(r), h)
  <1> DEFINE M == Merged(r)
  <1>0. r \in Seq(Mechanism)
    BY ConsoleAssumption
  <1>1. PICK e \in 1 .. (Len(r) + 1) :
           /\ M \in Seq(Mechanism \cup {Grant}) /\ Len(M) = Len(r) + 1
           /\ M[e] = Grant
           /\ \A i \in 1 .. (e - 1) : M[i] = r[i] /\ r[i].kind # "all"
           /\ \A i \in e .. Len(r) : M[i + 1] = r[i]
    BY <1>0, MergedShape
  <1> HIDE DEF M
  <1>2. DOMAIN M = 1 .. (Len(r) + 1) /\ DOMAIN r = 1 .. Len(r) /\ Len(r) \in Nat
    BY <1>0, <1>1
  <1>3. Authorizes(M)
    BY <1>1, <1>2 DEF Authorizes
  <1>4. Grant.pass /\ Grant.hosts = {Ours}
    BY DEF Grant
  <1>5. Passes(M, Ours)
    <2>1. CASE \A j \in 1 .. (e - 1) : Ours \notin M[j].hosts
      BY <1>1, <1>2, <1>4, <2>1 DEF Passes
    <2>2. CASE \E j \in 1 .. (e - 1) : Ours \in M[j].hosts
      <3> DEFINE C == {j \in 1 .. (e - 1) : Ours \in M[j].hosts}
      <3>1. PICK i \in C : \A j \in C : i <= j
        <4>1. C # {} /\ C \subseteq Nat
          BY <2>2
        <4> HIDE DEF C
        <4> QED
          BY <4>1, First
      <3>2. \A j \in 1 .. (i - 1) : Ours \notin M[j].hosts
        BY <1>2, <3>1
      <3>3. r[i].pass
        BY <1>1, <1>2, ForeignAssumption
      <3> QED
        BY <1>1, <1>2, <3>2, <3>3 DEF Passes
    <2> QED
      BY <2>1, <2>2
  <1>6. ASSUME NEW h \in Hosts, Passes(r, h)
        PROVE  Passes(M, h)
    <2>1. CASE h = Ours
      BY <1>5, <2>1
    <2>2. CASE h # Ours
      <3>1. PICK i \in 1 .. Len(r) : /\ r[i].pass /\ h \in r[i].hosts
                                    /\ \A j \in 1 .. (i - 1) : h \notin r[j].hosts
        BY <1>2, <1>6 DEF Passes
      <3>2. CASE i < e
        BY <1>1, <1>2, <3>1, <3>2 DEF Passes
      <3>3. CASE i >= e
        <4>1. M[i + 1] = r[i] /\ i + 1 \in DOMAIN M
          BY <1>1, <1>2, <3>1, <3>3
        <4>2. ASSUME NEW j \in 1 .. i
              PROVE  h \notin M[j].hosts
          <5>1. CASE j < e
            BY <1>1, <1>2, <3>1, <3>3, <5>1
          <5>2. CASE j = e
            BY <1>1, <1>4, <2>2, <5>2
          <5>3. CASE j > e
            <6>1. j - 1 \in e .. Len(r) /\ M[(j - 1) + 1] = r[j - 1] /\ j - 1 \in 1 .. (i - 1)
              BY <1>1, <1>2, <3>1, <5>3
            <6> QED
              BY <3>1, <6>1
          <5> QED
            BY <5>1, <5>2, <5>3
        <4> QED
          BY <3>1, <4>1, <4>2 DEF Passes
      <3> QED
        BY <3>1, <3>2, <3>3
    <2> QED
      BY <2>1, <2>2
  <1> QED
    BY <1>3, <1>5, <1>6 DEF M

------------------------------------------------------------------------------
\* What may stand in a zone: the records of others, as they are or merged, and
\* the one the sheet proposes where there is none.
Records == Foreign \cup {<<Grant, Deny>>} \cup {Merged(r) : r \in Foreign}

LEMMA RecordsRead ==
  ASSUME NEW r \in Records
  PROVE  /\ Authorizes(r) => Passes(r, Ours)
         /\ ~ Authorizes(r) => r \in Foreign
  <1>1. Authorizes(<<Grant, Deny>>) /\ Passes(<<Grant, Deny>>, Ours)
    <2>1. Grant.pass /\ Grant.hosts = {Ours}
      BY DEF Grant
    <2> HIDE DEF Grant
    <2> QED
      BY <2>1 DEF Authorizes, Passes
  <1>2. CASE r \in Foreign
    BY <1>2, ForeignAssumption
  <1>3. CASE r = <<Grant, Deny>>
    BY <1>1, <1>3
  <1>4. CASE \E f \in Foreign : r = Merged(f)
    BY <1>4, MergeLetsPass
  <1> QED
    BY <1>2, <1>3, <1>4 DEF Records

LEMMA OneOf ==
  ASSUME NEW S, IsFiniteSet(S), NEW x \in S, Cardinality(S) <= 1
  PROVE  S = {x}
  <1>1. Cardinality(S) = 1
    BY FS_CardinalityType, FS_EmptySet
  <1> QED
    BY <1>1, FS_Singleton

\* What an SPF row says of the records it was drawn up from.
LEMMA SpfRowSays ==
  ASSUME NEW found \in SUBSET Records, IsFiniteSet(found), NEW resolved \in BOOLEAN
  PROVE  LET row == SpfRow(found, resolved)
         IN  /\ row.status \in {"Add", "Replace"} /\ row.value # <<>> =>
                  /\ resolved = TRUE /\ row.value \in Records
                  /\ (found \ {row.current}) \cup {row.value} = {row.value}
                  /\ Authorizes(row.value)
                  /\ \A h \in Hosts : (\E q \in found : Passes(q, h)) => Passes(row.value, h)
             /\ row.status \notin {"Add", "Replace", "Broken"} /\ resolved = TRUE =>
                  \E r \in found : found = {r} /\ Passes(r, Ours)
  <1> DEFINE row == SpfRow(found, resolved)
             new == <<Grant, Deny>>
  <1>1. CASE found = {}
    <2>0. ~ Cardinality(found) > 1
      BY <1>1, FS_EmptySet
    <2>1. CASE resolved = TRUE
      <3>0. resolved
        BY <2>1
      <3>1. row = Row("Add", new, <<>>)
        BY <1>1, <2>0, <3>0, Zenon DEF SpfRow
      <3>2. row.status = "Add" /\ row.value = new /\ row.current = <<>>
        BY <3>1 DEF Row
      <3>3. new \in Records /\ Authorizes(new)
        <4>1. new[1] = Grant /\ DOMAIN new = 1 .. 2
          OBVIOUS
        <4> QED
          BY <4>1 DEF Records, Authorizes
      <3> HIDE DEF row, new
      <3> QED
        BY <1>1, <2>1, <3>2, <3>3 DEF row
    <2>2. CASE resolved = FALSE
      <3>0. ~ resolved
        BY <2>2
      <3>1. row = Row("Add", <<>>, <<>>)
        BY <1>1, <2>0, <3>0, Zenon DEF SpfRow
      <3> QED
        BY <2>2, <3>1 DEF Row
    <2> QED
      BY <2>1, <2>2
  <1>2. CASE found # {} /\ Cardinality(found) > 1
    <2>1. row = Row("Broken", <<>>, <<>>)
      BY <1>2, Zenon DEF SpfRow
    <2> QED
      BY <2>1 DEF Row
  <1>3. CASE found # {} /\ ~ Cardinality(found) > 1
    <2> DEFINE one == CHOOSE r \in found : TRUE
    <2>1. found = {one} /\ one \in Records
      <3>1. PICK x \in found : TRUE
        BY <1>3
      <3>2. one \in found
        BY <3>1
      <3>3. Cardinality(found) \in Nat
        BY FS_CardinalityType
      <3> HIDE DEF one
      <3> QED
        BY <1>3, <3>2, <3>3, OneOf
    <2>2. CASE resolved = FALSE
      <3>0. ~ resolved
        BY <2>2
      <3>1. row = Row("none", <<>>, <<>>)
        BY <1>3, <3>0, Zenon DEF SpfRow
      <3> QED
        BY <2>2, <3>1 DEF Row
    <2>3. CASE resolved = TRUE /\ Authorizes(one)
      <3>1. row = Row("AlreadyCorrect", one, <<>>)
        BY <1>3, <2>3, Zenon DEF SpfRow
      <3>2. Passes(one, Ours)
        BY <2>1, <2>3, RecordsRead
      <3> HIDE DEF one
      <3> QED
        BY <2>1, <3>1, <3>2 DEF Row
    <2>4. CASE resolved = TRUE /\ ~ Authorizes(one)
      <3>1. row = Row("Replace", Merged(one), one)
        BY <1>3, <2>4, Zenon DEF SpfRow
      <3>2. one \in Foreign
        BY <2>1, <2>4, RecordsRead
      <3>3. /\ Authorizes(Merged(one)) /\ Merged(one) \in Records
            /\ \A h \in Hosts : Passes(one, h) => Passes(Merged(one), h)
        BY <3>2, MergeLetsPass DEF Records
      <3>4. row.status = "Replace" /\ row.value = Merged(one) /\ row.current = one
        BY <3>1 DEF Row
      <3> HIDE DEF one, row
      <3> QED
        BY <2>1, <2>4, <3>3, <3>4 DEF row
    <2> QED
      BY <2>2, <2>3, <2>4
  <1> QED
    BY <1>1, <1>2, <1>3

\* Of a record that grants this server its place nothing is wanted.
LEMMA GrantedIsCorrect ==
  ASSUME NEW r, Authorizes(r), NEW resolved, resolved = TRUE
  PROVE  SpfRow({r}, resolved).status = "AlreadyCorrect"
  <1>1. Cardinality({r}) = 1 /\ {r} # {} /\ (CHOOSE q \in {r} : TRUE) = r
    BY FS_Singleton
  <1>2. ~ Cardinality({r}) > 1
    BY <1>1
  <1> DEFINE row == SpfRow({r}, resolved)
  <1>3. row = Row("AlreadyCorrect", r, <<>>)
    BY <1>1, <1>2, Zenon DEF SpfRow
  <1> HIDE DEF row
  <1>4. row.status = "AlreadyCorrect"
    BY <1>3 DEF Row
  <1> QED
    BY <1>4 DEF row

------------------------------------------------------------------------------
\* The registry, as far as the console depends on it.

Selected(t) == \A d \in Domains : t[d] # None => t[d].sel \in Selectors

RegOK ==
  /\ file \in Text /\ text \in [Procs -> Text] /\ cmd \in [Procs -> Command]
  /\ pc \in [Procs -> {"idle", "mint", "minting", "read", "write", "fill"}]
  /\ garbled = FALSE
  /\ Selected(file) /\ \A p \in Procs : Selected(text[p])

LEMMA EditsSelect ==
  ASSUME NEW t \in Text, NEW c \in Command, NEW u \in Edits(t, c)
  PROVE  /\ u \in Text
         /\ Selected(t) => Selected(u)
         /\ t[Server] # None /\ c.verb # "firstRun" /\ c.name # Server => u[Server] # None
  <1>1. u \in Text
    BY EditsShape
  <1>2. Selected(t) => Selected(u)
    <2> SUFFICES ASSUME Selected(t), NEW d \in Domains, u[d] # None
                 PROVE  u[d].sel \in Selectors
      BY DEF Selected
    <2>1. CASE c.verb = "firstRun"
      BY <2>1, EditsShape, Domain_Names
    <2>2. CASE c.verb # "firstRun" /\ Mints(c)
      <3>1. c.sel \in Selectors /\ d \in Names
        BY <2>2, CommandShape, Domain_Names
      <3> QED
        BY <2>2, <3>1, EditsShape DEF Selected
    <2>3. CASE c.verb # "firstRun" /\ ~ Mints(c)
      BY <2>3, EditsShape DEF Selected
    <2> QED
      BY <2>1, <2>2, <2>3
  <1>3. t[Server] # None /\ c.verb # "firstRun" /\ c.name # Server => u[Server] # None
    BY EditsShape, Domain_Names
  <1> QED
    BY <1>1, <1>2, <1>3

LEMMA NothingSelected == Selected(Empty) /\ Selected(Fresh) /\ Fresh[Server] # None /\ Empty[Server] = None
  <1>1. [sel |-> None, val |-> Default] \in Entry
    BY RegistryAssumption DEF Entry
  <1>2. Fresh[Server] = [sel |-> None, val |-> Default] /\ Empty[Server] = None
    BY Domain_Names DEF Fresh, Empty
  <1> QED
    BY <1>1, <1>2, Domain_Names DEF Selected

\* What a command that is begun, and each of its steps, does to the registry.
LEMMA BeginMoves ==
  ASSUME RegOK, NEW p \in Procs, NEW c \in Command, Begin(p, c)
  PROVE  /\ RegOK'
         /\ pc[p] = "idle" /\ file' = file
         /\ \A q \in Procs \ {p} : pc'[q] = pc[q] /\ cmd'[q] = cmd[q] /\ text'[q] = text[q]
         /\ cmd'[p] = c
         /\ IF c.verb = "firstRun" THEN pc'[p] = "write" /\ text'[p] = Fresh ELSE pc'[p] \in {"mint", "read"}
  <1> USE DEF RegOK
  <1>1. /\ cmd' = [cmd EXCEPT ![p] = c] /\ pc[p] = "idle"
        /\ text' = [text EXCEPT ![p] = IF c.verb = "firstRun" THEN Fresh ELSE Empty]
        /\ pc' = [pc EXCEPT ![p] = IF Mints(c) THEN "mint" ELSE IF c.verb = "firstRun" THEN "write" ELSE "read"]
        /\ file' = file /\ garbled' = garbled
    BY DEF Begin, Goto
  <1>2. c.verb = "firstRun" => ~ Mints(c)
    BY DEF Mints
  <1>3. RegOK'
    BY <1>1, Domain_Names, NothingSelected
  <1> QED
    BY <1>1, <1>2, <1>3

LEMMA StepsMove ==
  ASSUME RegOK, NEW p \in Procs, Steps(p)
  PROVE  /\ RegOK'
         /\ pc[p] # "idle"
         /\ \A q \in Procs \ {p} : pc'[q] = pc[q] /\ cmd'[q] = cmd[q] /\ text'[q] = text[q]
         /\ CASE pc[p] = "mint" -> pc'[p] = "minting" /\ cmd'[p] = cmd[p] /\ file' = file
              [] pc[p] = "minting" -> pc'[p] = "read" /\ cmd'[p] = cmd[p] /\ file' = file
              [] pc[p] = "read" -> /\ file' = file
                                   /\ \/ pc'[p] = "idle"
                                      \/ pc'[p] = "write" /\ cmd'[p] = cmd[p] /\ text'[p] \in Edits(file, cmd[p])
              [] pc[p] = "write" -> pc'[p] = "fill" /\ cmd'[p] = cmd[p] /\ text'[p] = text[p] /\ file' = Empty
              [] pc[p] = "fill" -> pc'[p] = "idle" /\ file' = text[p]
              [] OTHER -> FALSE
  <1> USE DEF RegOK
  <1>1. CASE Mint(p)
    BY <1>1 DEF Mint, Goto
  <1>2. CASE Minted(p)
    BY <1>2 DEF Minted, Goto, histVars
  <1>3. CASE Read(p)
    <2>1. PICK t \in Edits(file, cmd[p]) : text' = [text EXCEPT ![p] = t]
      BY <1>3 DEF Read
    <2>2. t \in Text /\ Selected(t)
      BY <2>1, EditsSelect
    <2>3. /\ pc[p] = "read" /\ pc' = [pc EXCEPT ![p] = "write"]
          /\ UNCHANGED <<file, garbled, cmd>>
      BY <1>3 DEF Read, Goto
    <2>4. RegOK'
      BY <2>1, <2>2, <2>3
    <2> QED
      BY <2>1, <2>2, <2>3, <2>4
  <1>4. CASE Refused(p)
    <2>1. /\ pc[p] = "read" /\ pc' = [pc EXCEPT ![p] = "idle"] /\ cmd' = [cmd EXCEPT ![p] = Idle]
          /\ text' = [text EXCEPT ![p] = Empty]
          /\ UNCHANGED <<file, garbled>>
      BY <1>4 DEF Refused, Exit, Goto
    <2> QED
      BY <2>1, IdleIsCommand, Domain_Names, NothingSelected
  <1>5. CASE Truncate(p)
    <2>1. /\ pc[p] = "write" /\ pc' = [pc EXCEPT ![p] = "fill"] /\ file' = Empty /\ garbled' = FALSE
          /\ UNCHANGED <<cmd, text>>
      BY <1>5 DEF Truncate, Goto
    <2> QED
      BY <2>1, Domain_Names, NothingSelected
  <1>6. CASE Fill(p)
    <2>1. /\ pc[p] = "fill" /\ pc' = [pc EXCEPT ![p] = "idle"] /\ cmd' = [cmd EXCEPT ![p] = Idle]
          /\ text' = [text EXCEPT ![p] = Empty] /\ file' = text[p]
          /\ garbled' = garbled
      BY <1>6 DEF Fill, Exit, Goto
    <2> QED
      BY <2>1, IdleIsCommand, Domain_Names, NothingSelected
  <1> QED
    BY <1>1, <1>2, <1>3, <1>4, <1>5, <1>6 DEF Steps

------------------------------------------------------------------------------
\* The screens: inspections go on only while the console neither starts, reads
\* again nor performs a change, and a change is of a domain.
DeskOK ==
  /\ screen \in {"off", "home", "reload"} \cup Domains
  /\ view \in Text /\ Selected(view)
  /\ todo \subseteq Known(view)
  /\ asked # None => asked.of \in todo
  /\ screen \in {"off", "reload"} \/ pc[Con] # "idle" => todo = {}
  /\ screen = "reload" => pc[Con] = "idle"
  /\ screen = "off" => pc[Con] \in {"idle", "write", "fill"}
  /\ screen = "off" /\ pc[Con] # "idle" => text[Con][Server] # None
  /\ screen # "off" /\ pc[Con] # "idle" => cmd[Con].verb # "firstRun" /\ cmd[Con].name # Server

\* While no command beside has written the file, the console's copy is the file,
\* or the console is about to read it.
Abreast ==
  outdated = FALSE =>
    /\ screen \notin {"off", "reload"} /\ pc[Con] # "fill" => file = view
    /\ screen # "off" /\ pc[Con] # "fill" => file[Server] # None
    /\ screen # "off" /\ pc[Con] \in {"write", "fill"} => text[Con][Server] # None

ZoneOK ==
  /\ spf \in [Domains -> SUBSET Records] /\ \A d \in Domains : IsFiniteSet(spf[d])
  /\ DOMAIN dkim = Domains
  /\ \A d \in Domains : DOMAIN dkim[d] = Selectors /\ \A s \in Selectors : IsFiniteSet(dkim[d][s])
  /\ dmarc \in [Domains -> BOOLEAN] /\ resolves \in BOOLEAN /\ fresh \subseteq Domains

\* A lookup of the key under selector s has brought k.
Finds(d, s, k) == k \in dkim[d][s] \/ (k = 0 /\ dkim[d][s] = {})

\* What the lookups brought is the zone, unless that has changed since.
AskedOK ==
  asked # None =>
    /\ asked.spf \in SUBSET Records /\ IsFiniteSet(asked.spf) /\ asked.resolved \in BOOLEAN
    /\ asked.of \in fresh =>
         /\ asked.spf = spf[asked.of] /\ asked.resolved = resolves
         /\ asked.dmarc = dmarc[asked.of]
         /\ Finds(asked.of, view[asked.of].sel, asked.dkim)

\* The sheet of d is the one the zone calls for.
SheetOf(d) ==
  /\ shown[d].rows.SPF = SpfRow(spf[d], resolves)
  /\ shown[d].rows.DMARC = DmarcRow(dmarc[d])
  /\ \E k, p : shown[d].rows.DKIM = DkimRow(k, p) /\ Finds(d, shown[d].sel, p)
  /\ view[d] # None => shown[d].sel = view[d].sel

ShownOK ==
  /\ DOMAIN shown = Domains
  /\ \A d \in Domains : shown[d] # None =>
       /\ shown[d].sel \in Selectors
       /\ shown[d].rows.SPF.status \in {"Add", "Replace"} /\ shown[d].rows.SPF.value # <<>> =>
            shown[d].rows.SPF.value \in Records
       /\ d \in fresh \ todo => SheetOf(d)

CInv == RegOK /\ DeskOK /\ Abreast /\ outdated \in BOOLEAN /\ ZoneOK /\ AskedOK /\ ShownOK

LEMMA ConInitKeeps == ConInit => CInv
  <1> SUFFICES ASSUME ConInit PROVE CInv
    OBVIOUS
  <1> USE DEF ConInit
  <1>1. RegOK
    BY Domain_Names, NothingSelected, IdleIsCommand DEF Init, RegOK
  <1>2. DeskOK
    BY <1>1, ConsoleAssumption, Domain_Names, NothingSelected DEF DeskOK, RegOK, Init
  <1>3. Abreast /\ outdated \in BOOLEAN /\ AskedOK /\ ShownOK
    BY DEF Abreast, AskedOK, ShownOK
  <1>4. ZoneOK
    <2>1. ASSUME NEW d \in Domains
          PROVE  spf[d] \in SUBSET Records /\ IsFiniteSet(spf[d])
      <3>1. spf[d] = {} \/ \E r \in Foreign : spf[d] = {r}
        OBVIOUS
      <3>2. Foreign \subseteq Records
        BY DEF Records
      <3>3. IsFiniteSet(spf[d])
        <4> HIDE DEF ConInit
        <4> QED
          BY <3>1, FS_Singleton, FS_EmptySet
      <3> QED
        BY <3>1, <3>2, <3>3
    <2>2. resolves \in BOOLEAN
      BY Zenon
    <2> QED
      BY <2>1, <2>2, FS_EmptySet DEF ZoneOK
  <1> QED
    BY <1>1, <1>2, <1>3, <1>4 DEF CInv

------------------------------------------------------------------------------
\* Steps that leave the zone and what is known of it alone.

Still == UNCHANGED <<spf, dkim, dmarc, resolves, fresh>>

\* Sheets and answers are as true as before while the view stands.
LEMMA SheetsStand ==
  ASSUME CInv, Still, UNCHANGED <<view, shown, asked>>, todo' = todo \/ todo = {}
  PROVE  ZoneOK' /\ AskedOK' /\ ShownOK'
  <1> USE DEF CInv, Still
  <1>1. ZoneOK'
    BY DEF ZoneOK
  <1>2. AskedOK'
    BY DEF AskedOK, Finds
  <1>3. ShownOK'
    <2>1. \A d \in Domains : SheetOf(d) => SheetOf(d)'
      BY DEF SheetOf, Finds
    <2> QED
      BY <2>1 DEF ShownOK
  <1> QED
    BY <1>1, <1>2, <1>3

\* A new view has every domain it names looked at.
LEMMA SheetsWait ==
  ASSUME CInv, Still, todo = {}, UNCHANGED <<shown, asked>>, view' \in Text, todo' = Known(view')
  PROVE  ZoneOK' /\ AskedOK' /\ ShownOK'
  <1> USE DEF CInv, Still
  <1>1. ZoneOK'
    BY DEF ZoneOK
  <1>2. AskedOK'
    BY DEF AskedOK, DeskOK
  <1>3. ShownOK'
    <2>1. \A d \in Domains : SheetOf(d) /\ view'[d] = None => SheetOf(d)'
      BY DEF SheetOf, Finds
    <2> QED
      BY <2>1 DEF ShownOK, Known
  <1> QED
    BY <1>1, <1>2, <1>3

LEMMA OpenKeeps ==
  ASSUME CInv, Open \/ Reload
  PROVE  CInv'
  <1> USE DEF CInv
  <1>0. /\ UNCHANGED registry /\ Still /\ UNCHANGED <<shown, asked>>
        /\ todo = {} /\ pc[Con] = "idle"
        /\ screen' \in {"off", "home"} /\ (screen' = "off" => view' = Empty)
        /\ view' \in {file, view} /\ todo' = Known(view')
    BY DEF Open, Reload, DeskOK, zone, Still
  <1>1. RegOK'
    BY <1>0 DEF RegOK, registry
  <1>2. view' \in Text /\ Selected(view')
    BY <1>0 DEF RegOK, DeskOK
  <1>3. Empty = view' => Known(view') = {}
    BY Domain_Names DEF Known
  <1>4. DeskOK'
    <2>1. asked = None
      BY <1>0 DEF DeskOK
    <2> QED
      BY <1>0, <1>2, <1>3, <2>1 DEF DeskOK, registry
  <1>5. outdated' \in BOOLEAN
    BY Zenon DEF Open, Reload
  <1>6. Abreast'
    <2>1. CASE Loads
      <3>1. file[Server] # None /\ view' = file
        BY <2>1, Zenon DEF Open, Reload, Loads
      <3> QED
        BY <1>0, <3>1 DEF Abreast, registry
    <2>2. CASE ~ Loads
      <3>1. screen = "reload" /\ outdated' = outdated
        BY <2>2, Zenon DEF Open, Reload
      <3>2. file[Server] = None
        BY <2>2 DEF Loads, RegOK
      <3>3. outdated # FALSE
        BY <1>0, <3>1, <3>2 DEF Abreast
      <3> QED
        BY <3>1, <3>3 DEF Abreast
    <2> QED
      BY <2>1, <2>2
  <1> QED
    BY <1>0, <1>1, <1>2, <1>4, <1>5, <1>6, SheetsWait

LEMMA QuitKeeps ==
  ASSUME CInv, Quit
  PROVE  CInv'
  <1> USE DEF CInv
  <1>0. /\ UNCHANGED registry /\ Still /\ UNCHANGED <<asked, outdated, todo>>
        /\ todo = {} /\ pc[Con] = "idle" /\ asked = None
        /\ screen' = "off" /\ view' = Empty
        /\ shown' = [d \in Domains |-> None]
    BY DEF Quit, Prompt, DeskOK, zone, Still, history
  <1>1. RegOK' /\ ZoneOK'
    BY <1>0 DEF RegOK, ZoneOK, registry, Still
  <1>2. DeskOK' /\ Abreast'
    BY <1>0, Domain_Names, NothingSelected DEF DeskOK, Abreast, registry
  <1>3. AskedOK' /\ ShownOK'
    BY <1>0 DEF AskedOK, ShownOK
  <1> QED
    BY <1>0, <1>1, <1>2, <1>3

LEMMA BrowseKeeps ==
  ASSUME CInv, Browse
  PROVE  CInv'
  <1> USE DEF CInv
  <1>0. /\ UNCHANGED registry /\ Still /\ UNCHANGED <<asked, outdated, view, shown>>
        /\ todo = {} /\ pc[Con] = "idle" /\ asked = None
        /\ screen' \in {"home"} \cup Known(view) /\ todo' \subseteq Known(view)
        /\ screen \notin {"off", "reload"}
    BY DEF Browse, Prompt, DeskOK, zone, Still, history
  <1>1. screen' \in {"home"} \cup Domains /\ screen' \notin {"off", "reload"}
    BY <1>0, ConsoleAssumption DEF Known
  <1>2. RegOK' /\ DeskOK' /\ Abreast'
    BY <1>0, <1>1 DEF RegOK, DeskOK, Abreast, registry
  <1> QED
    BY <1>0, <1>2, SheetsStand

\* Commands that are begun, by the console or beside it.
LEMMA BegunKeeps ==
  ASSUME CInv, FirstRun \/ BeginBeside \/ \E c \in Command : Change(c)
  PROVE  CInv'
  <1> USE DEF CInv
  <1>0. Still /\ UNCHANGED <<view, shown, asked, todo, screen, outdated>>
    BY DEF FirstRun, BeginBeside, Change, zone, desk, history, Still
  <1>1. ZoneOK' /\ AskedOK' /\ ShownOK'
    BY <1>0, SheetsStand
  <1>2. CASE FirstRun
    <2>1. PICK c \in Command : c.verb = "firstRun" /\ Begin(Con, c) /\ screen = "off"
      BY <1>2 DEF FirstRun, Start
    <2>2. RegOK' /\ pc'[Con] = "write" /\ text'[Con] = Fresh /\ file' = file
      BY <2>1, BeginMoves, ConsoleAssumption
    <2>3. DeskOK' /\ Abreast'
      BY <1>0, <2>1, <2>2, NothingSelected DEF DeskOK, Abreast
    <2> QED
      BY <1>0, <1>1, <2>2, <2>3
  <1>3. CASE BeginBeside
    <2>1. PICK p \in Procs \ {Con}, c \in Command : Begin(p, c)
      BY <1>3 DEF BeginBeside, Start
    <2>2. RegOK' /\ pc'[Con] = pc[Con] /\ text'[Con] = text[Con] /\ cmd'[Con] = cmd[Con] /\ file' = file
      BY <2>1, BeginMoves, ConsoleAssumption
    <2>3. DeskOK' /\ Abreast'
      BY <1>0, <2>2 DEF DeskOK, Abreast
    <2> QED
      BY <1>0, <1>1, <2>2, <2>3
  <1>4. CASE \E c \in Command : Change(c)
    <2>1. PICK c \in Command : Begin(Con, c) /\ c.name \in Domains /\ Prompt
      BY <1>4 DEF Change
    <2>2. c.verb # "firstRun" /\ c.name # Server
      BY <2>1, CommandShape, Domain_Names
    <2>3. RegOK' /\ pc'[Con] \in {"mint", "read"} /\ cmd'[Con] = c /\ file' = file
      BY <2>1, <2>2, BeginMoves, ConsoleAssumption
    <2>4. DeskOK' /\ Abreast'
      BY <1>0, <2>1, <2>2, <2>3 DEF DeskOK, Abreast, Prompt
    <2> QED
      BY <1>0, <1>1, <2>3, <2>4
  <1> QED
    BY <1>2, <1>3, <1>4

LEMMA PerformKeeps ==
  ASSUME CInv, Perform
  PROVE  CInv'
  <1> USE DEF CInv
  <1>0. /\ Steps(Con) /\ Still /\ UNCHANGED <<view, shown, asked, todo, outdated>>
        /\ screen' = IF pc[Con] = "fill" THEN "reload" ELSE screen
    BY DEF Perform, zone, history, Still
  <1>1. ZoneOK' /\ AskedOK' /\ ShownOK'
    BY <1>0, SheetsStand
  <1>2. RegOK' /\ pc[Con] # "idle" /\ screen # "reload"
    BY <1>0, StepsMove, ConsoleAssumption DEF DeskOK
  <1>3. CASE pc[Con] \in {"mint", "minting"}
    <2>1. /\ screen # "off" /\ screen' = screen
          /\ pc'[Con] \in {"minting", "read"} /\ cmd'[Con] = cmd[Con] /\ file' = file
      BY <1>0, <1>3, StepsMove, ConsoleAssumption DEF DeskOK
    <2> QED
      BY <1>0, <1>1, <1>2, <1>3, <2>1 DEF DeskOK, Abreast
  <1>4. CASE pc[Con] = "read"
    <2>1. /\ screen # "off" /\ screen' = screen /\ file' = file
          /\ \/ pc'[Con] = "idle"
             \/ pc'[Con] = "write" /\ cmd'[Con] = cmd[Con] /\ text'[Con] \in Edits(file, cmd[Con])
      BY <1>0, <1>4, StepsMove, ConsoleAssumption DEF DeskOK
    <2>2. pc'[Con] # "idle" /\ file[Server] # None => text'[Con][Server] # None
      <3>1. cmd[Con] \in Command /\ cmd[Con].verb # "firstRun" /\ cmd[Con].name # Server /\ file \in Text
        BY <1>2, <2>1, ConsoleAssumption DEF DeskOK, RegOK
      <3> QED
        BY <2>1, <3>1, EditsSelect
    <2>3. DeskOK'
      BY <1>0, <1>2, <1>4, <2>1 DEF DeskOK
    <2>4. Abreast'
      BY <1>0, <1>4, <2>1, <2>2 DEF Abreast
    <2> QED
      BY <1>0, <1>1, <1>2, <2>3, <2>4
  <1>5. CASE pc[Con] = "write"
    <2>1. /\ screen' = screen
          /\ pc'[Con] = "fill" /\ cmd'[Con] = cmd[Con] /\ text'[Con] = text[Con]
      BY <1>0, <1>5, StepsMove, ConsoleAssumption
    <2> QED
      BY <1>0, <1>1, <1>2, <1>5, <2>1 DEF DeskOK, Abreast
  <1>6. CASE pc[Con] = "fill"
    <2>1. screen' = "reload" /\ pc'[Con] = "idle" /\ file' = text[Con]
      BY <1>0, <1>6, StepsMove, ConsoleAssumption
    <2>2. outdated = FALSE => file'[Server] # None
      BY <1>2, <1>6, <2>1 DEF DeskOK, Abreast
    <2> QED
      BY <1>0, <1>1, <1>2, <1>6, <2>1, <2>2 DEF DeskOK, Abreast
  <1>7. pc[Con] \in {"mint", "minting", "read", "write", "fill"}
    BY <1>2, ConsoleAssumption DEF RegOK
  <1> QED
    BY <1>3, <1>4, <1>5, <1>6, <1>7

LEMMA BesideKeeps ==
  ASSUME CInv, Beside
  PROVE  CInv'
  <1> USE DEF CInv
  <1>0. Still /\ UNCHANGED <<view, shown, asked, todo, screen>>
    BY DEF Beside, zone, desk, Still
  <1>1. ZoneOK' /\ AskedOK' /\ ShownOK'
    BY <1>0, SheetsStand
  <1>2. PICK p \in Procs \ {Con} : Steps(p)
    BY DEF Beside
  <1>3. RegOK' /\ pc'[Con] = pc[Con] /\ text'[Con] = text[Con] /\ cmd'[Con] = cmd[Con]
    BY <1>2, StepsMove, ConsoleAssumption
  <1>4. outdated' \in BOOLEAN /\ (outdated' = FALSE => outdated = FALSE /\ file' = file)
    BY Zenon DEF Beside
  <1>5. DeskOK'
    BY <1>0, <1>3 DEF DeskOK
  <1>6. Abreast'
    BY <1>0, <1>3, <1>4 DEF Abreast
  <1> QED
    BY <1>1, <1>3, <1>4, <1>5, <1>6

------------------------------------------------------------------------------
\* The inspection.

LEMMA AskKeeps ==
  ASSUME CInv, NEW d \in Domains, NEW failed \in SUBSET Lookups, Ask(d, failed)
  PROVE  CInv'
  <1> USE DEF CInv
  <1>0. /\ UNCHANGED registry /\ UNCHANGED <<spf, dkim, dmarc, resolves, screen, view, todo, shown, outdated>>
        /\ d \in todo
        /\ fresh' = IF failed = {} THEN fresh \cup {d} ELSE fresh \ {d}
    BY DEF Ask, zone
  <1>1. PICK k \in IF "dkim" \in failed \/ dkim[d][view[d].sel] = {} THEN {0} ELSE dkim[d][view[d].sel] :
          asked' = [of |-> d, dkim |-> k,
                    spf |-> IF "spf" \in failed THEN {} ELSE spf[d],
                    dmarc |-> dmarc[d] /\ "dmarc" \notin failed,
                    resolved |-> resolves /\ "address" \notin failed]
    BY DEF Ask
  <1>2. RegOK' /\ Abreast' /\ ZoneOK'
    BY <1>0 DEF RegOK, Abreast, ZoneOK, registry
  <1>3. asked'.of = d
    BY <1>1
  <1>4. DeskOK'
    BY <1>0, <1>3 DEF DeskOK, registry
  <1>5. asked'.spf \in SUBSET Records /\ IsFiniteSet(asked'.spf)
    <2>1. asked'.spf = IF "spf" \in failed THEN {} ELSE spf[d]
      BY <1>1
    <2> QED
      BY <2>1, FS_EmptySet DEF ZoneOK
  <1>6. asked'.resolved \in BOOLEAN /\ (failed = {} => asked'.resolved = resolves)
    <2>1. asked'.resolved = (resolves /\ "address" \notin failed)
      BY <1>1, Zenon
    <2>2. failed = {} => (resolves /\ "address" \notin failed) = resolves
      BY Zenon DEF ZoneOK
    <2> QED
      BY <2>1, <2>2, Zenon
  <1>7. failed = {} => asked'.dmarc = dmarc[d]
    <2>0. dmarc[d] \in BOOLEAN
      BY DEF ZoneOK
    <2>1. asked'.dmarc = (dmarc[d] /\ "dmarc" \notin failed)
      BY <1>1, Zenon
    <2>2. failed = {} => (dmarc[d] /\ "dmarc" \notin failed) = dmarc[d]
      BY <2>0, Zenon
    <2> QED
      BY <2>1, <2>2, Zenon
  <1>8. failed = {} => asked'.spf = spf[d] /\ Finds(d, view[d].sel, asked'.dkim)
    <2>1. asked'.spf = (IF "spf" \in failed THEN {} ELSE spf[d]) /\ asked'.dkim = k
      BY <1>1, Zenon
    <2>2. k \in IF "dkim" \in failed \/ dkim[d][view[d].sel] = {} THEN {0} ELSE dkim[d][view[d].sel]
      BY <1>1, Zenon
    <2>3. failed = {} => Finds(d, view[d].sel, k)
      <3> DEFINE keys == dkim[d][view[d].sel]
      <3>1. failed = {} => k \in IF keys = {} THEN {0} ELSE keys
        BY <2>2, Zenon
      <3>2. failed = {} => k \in keys \/ (k = 0 /\ keys = {})
        <4> HIDE DEF keys
        <4> QED
          BY <3>1
      <3> QED
        BY <3>2, Zenon DEF Finds
    <2> QED
      BY <2>1, <2>3
  <1>9. AskedOK'
    <2>1. d \in fresh' => failed = {}
      BY <1>0
    <2>2. Finds(d, view[d].sel, asked'.dkim) => Finds(asked.of, view[asked.of].sel, asked.dkim)'
      BY <1>0, <1>3 DEF Finds
    <2>3. d \in fresh' => asked'.resolved = resolves' /\ asked'.dmarc = dmarc'[d] /\ asked'.spf = spf'[d]
      BY <1>0, <1>6, <1>7, <1>8, <2>1, Zenon
    <2> QED
      BY <1>3, <1>5, <1>6, <1>8, <2>1, <2>2, <2>3 DEF AskedOK
  <1>10. ShownOK'
    <2>1. \A e \in Domains : e \in fresh' \ todo' => e \in fresh \ todo
      BY <1>0
    <2>2. \A e \in Domains : SheetOf(e) => SheetOf(e)'
      BY <1>0 DEF SheetOf, Finds
    <2> QED
      BY <1>0, <2>1, <2>2 DEF ShownOK
  <1> QED
    BY <1>0, <1>2, <1>4, <1>9, <1>10

LEMMA JudgeKeeps ==
  ASSUME CInv, Judge
  PROVE  CInv'
  <1> USE DEF CInv
  <1>a. PICK d \in Domains : d = asked.of /\ d \in todo /\ view[d] # None
    BY DEF Judge, DeskOK, Known
  <1> DEFINE seen == [spf |-> asked.spf, dkim |-> asked.dkim, dmarc |-> asked.dmarc,
                      resolved |-> asked.resolved, key |-> KeyOnDisk(d)]
  <1>b. PICK sheet : sheet = [sel |-> view[d].sel, rows |-> Build(view[d].val # Out, seen)]
    OBVIOUS
  <1>0. /\ UNCHANGED registry /\ Still /\ UNCHANGED <<screen, view, outdated>>
        /\ asked # None /\ asked' = None /\ todo' = todo \ {d}
        /\ shown' = [shown EXCEPT ![d] = sheet]
    BY <1>a, <1>b DEF Judge, zone, history, Still
  <1>2. RegOK' /\ Abreast' /\ ZoneOK' /\ DeskOK' /\ AskedOK'
    BY <1>0 DEF RegOK, Abreast, ZoneOK, registry, DeskOK, AskedOK, Still
  <1>3. PICK k, p : /\ sheet.sel = view[d].sel /\ sheet.rows.SPF = SpfRow(asked.spf, asked.resolved)
                    /\ sheet.rows.DMARC = DmarcRow(asked.dmarc)
                    /\ sheet.rows.DKIM = DkimRow(k, p) /\ p = asked.dkim
    BY <1>b, Zenon DEF Build
  <1>4. sheet.sel \in Selectors
    BY <1>a, <1>3 DEF DeskOK, Selected
  <1>5. sheet.rows.SPF.status \in {"Add", "Replace"} /\ sheet.rows.SPF.value # <<>> =>
          sheet.rows.SPF.value \in Records
    <2>1. asked.spf \in SUBSET Records /\ IsFiniteSet(asked.spf) /\ asked.resolved \in BOOLEAN
      BY <1>0 DEF AskedOK
    <2> DEFINE row == SpfRow(asked.spf, asked.resolved)
    <2>2. row.status \in {"Add", "Replace"} /\ row.value # <<>> => row.value \in Records
      BY <2>1, SpfRowSays, Zenon
    <2>3. sheet.rows.SPF = row
      BY <1>3
    <2> HIDE DEF row
    <2> QED
      BY <2>2, <2>3
  <1>6. /\ shown'[d] = sheet /\ DOMAIN shown' = Domains
        /\ \A e \in Domains \ {d} : shown'[e] = shown[e]
    BY <1>0, <1>a DEF ShownOK
  <1>7. d \in fresh => SheetOf(d)'
    <2> SUFFICES ASSUME d \in fresh PROVE SheetOf(d)'
      OBVIOUS
    <2>1. /\ asked.spf = spf[d] /\ asked.resolved = resolves /\ asked.dmarc = dmarc[d]
          /\ Finds(d, view[d].sel, p)
      BY <1>0, <1>a, <1>3 DEF AskedOK
    <2>2. shown'[d].rows.SPF = SpfRow(spf'[d], resolves')
      BY <1>0, <1>3, <1>6, <2>1, Zenon DEF Still
    <2>3. shown'[d].rows.DMARC = DmarcRow(dmarc'[d])
      BY <1>0, <1>3, <1>6, <2>1, Zenon DEF Still
    <2>4. shown'[d].rows.DKIM = DkimRow(k, p) /\ shown'[d].sel = view'[d].sel
      BY <1>0, <1>3, <1>6
    <2>5. Finds(d, shown[d].sel, p)'
      BY <1>0, <1>3, <1>6, <2>1 DEF Finds, Still
    <2> QED
      BY <2>2, <2>3, <2>4, <2>5 DEF SheetOf
  <1>8. ShownOK'
    <2>1. \A e \in Domains \ {d} : SheetOf(e) => SheetOf(e)'
      BY <1>0, <1>6 DEF SheetOf, Finds, Still
    <2> SUFFICES ASSUME NEW e \in Domains, shown'[e] # None
                 PROVE  /\ shown'[e].sel \in Selectors
                        /\ shown'[e].rows.SPF.status \in {"Add", "Replace"} /\ shown'[e].rows.SPF.value # <<>> =>
                             shown'[e].rows.SPF.value \in Records
                        /\ e \in fresh' \ todo' => SheetOf(e)'
      BY <1>6 DEF ShownOK
    <2>2. CASE e = d
      BY <1>0, <1>4, <1>5, <1>6, <1>7, <2>2 DEF Still
    <2>3. CASE e # d
      BY <1>0, <1>6, <2>1, <2>3 DEF ShownOK, Still
    <2> QED
      BY <2>2, <2>3
  <1> QED
    BY <1>0, <1>2, <1>8

------------------------------------------------------------------------------
\* What changes in a zone, by whomever.

\* A step that touches no zone but d's, and tells of no sheet that it is true.
Touches(d) ==
  /\ UNCHANGED registry /\ UNCHANGED <<screen, view, todo, asked, shown, outdated, resolves>>
  /\ fresh' = fresh \ {d}
  /\ \A e \in Domains \ {d} : spf'[e] = spf[e] /\ dkim'[e] = dkim[e] /\ dmarc'[e] = dmarc[e]

LEMMA TouchesKeeps ==
  ASSUME CInv, NEW d \in Domains, Touches(d), ZoneOK'
  PROVE  CInv'
  <1> USE DEF CInv
  <1>0. /\ UNCHANGED registry /\ UNCHANGED <<screen, view, todo, asked, shown, outdated, resolves>>
        /\ fresh' = fresh \ {d}
    BY DEF Touches
  <1>1. RegOK' /\ Abreast' /\ DeskOK'
    BY <1>0 DEF RegOK, Abreast, DeskOK, registry
  <1>2. \A e \in Domains \ {d} : spf'[e] = spf[e] /\ dkim'[e] = dkim[e] /\ dmarc'[e] = dmarc[e]
    BY DEF Touches
  <1>3. AskedOK'
    <2>1. asked # None => asked.of \in Domains
      BY DEF DeskOK, Known
    <2> QED
      BY <1>0, <1>2, <2>1 DEF AskedOK, Finds
  <1>4. ShownOK'
    <2>1. \A e \in Domains \ {d} : SheetOf(e) => SheetOf(e)'
      BY <1>0, <1>2 DEF SheetOf, Finds
    <2> QED
      BY <1>0, <2>1 DEF ShownOK
  <1> QED
    BY <1>0, <1>1, <1>3, <1>4

LEMMA PublishKeeps ==
  ASSUME CInv, NEW d \in Domains,
         PublishSpf(d) \/ PublishDkim(d) \/ PublishDmarc(d) \/ PublishAnnounced(d)
           \/ Decide(d) \/ ForeignEdit(d)
  PROVE  CInv'
  <1> USE DEF CInv, ZoneOK
  <1>0. /\ UNCHANGED registry /\ UNCHANGED <<screen, view, todo, asked, shown, outdated, resolves>>
        /\ fresh' = fresh \ {d}
    BY DEF PublishSpf, PublishDkim, PublishDmarc, PublishAnnounced, Decide, ForeignEdit, desk
  <1>1. CASE UNCHANGED <<dkim, dmarc>> /\ \E S \in SUBSET Records : IsFiniteSet(S) /\ spf' = [spf EXCEPT ![d] = S]
    <2>1. ZoneOK'
      BY <1>0, <1>1
    <2> QED
      BY <1>0, <1>1, <2>1, TouchesKeeps DEF Touches
  <1>2. CASE UNCHANGED <<spf, dmarc>> /\ \E s, S : IsFiniteSet(S) /\ dkim' = [dkim EXCEPT ![d][s] = S]
    <2>1. ZoneOK'
      BY <1>0, <1>2
    <2> QED
      BY <1>0, <1>2, <2>1, TouchesKeeps DEF Touches
  <1>3. CASE PublishDmarc(d)
    <2>1. UNCHANGED <<spf, dkim>> /\ dmarc' = [dmarc EXCEPT ![d] = TRUE]
      BY <1>3 DEF PublishDmarc
    <2>2. ZoneOK'
      BY <1>0, <2>1
    <2> QED
      BY <1>0, <2>1, <2>2, TouchesKeeps DEF Touches
  <1>4. CASE PublishSpf(d)
    <2> DEFINE row == shown[d].rows.SPF
               S == (spf[d] \ {row.current}) \cup {row.value}
    <2>1. /\ UNCHANGED <<dkim, dmarc>> /\ spf' = [spf EXCEPT ![d] = S]
          /\ row.value \in Records
      BY <1>4 DEF PublishSpf, ShownOK
    <2>2. S \in SUBSET Records
      BY <2>1
    <2>3. IsFiniteSet(S)
      <3>1. IsFiniteSet(spf[d] \ {row.current})
        BY FS_RemoveElement
      <3> HIDE DEF row
      <3> QED
        BY <3>1, FS_AddElement
    <2> QED
      BY <1>1, <2>1, <2>2, <2>3
  <1>5. CASE Decide(d)
    <2>1. UNCHANGED <<dkim, dmarc>> /\ \E r \in spf[d] : spf' = [spf EXCEPT ![d] = {r}]
      BY <1>5 DEF Decide
    <2>2. \A r \in spf[d] : {r} \in SUBSET Records /\ IsFiniteSet({r})
      BY FS_Singleton
    <2> QED
      BY <1>1, <2>1, <2>2
  <1>6. CASE ForeignEdit(d)
    <2>1. PICK r \in Foreign :
            UNCHANGED <<dkim, dmarc>> /\ spf' \in {[spf EXCEPT ![d] = {r}], [spf EXCEPT ![d] = @ \cup {r}]}
      BY <1>6 DEF ForeignEdit
    <2>2. r \in Records /\ IsFiniteSet({r}) /\ IsFiniteSet(spf[d] \cup {r})
      BY FS_Singleton, FS_AddElement DEF Records
    <2>3. \E S \in {{r}, spf[d] \cup {r}} : spf' = [spf EXCEPT ![d] = S]
      BY <2>1
    <2> QED
      BY <1>1, <2>1, <2>2, <2>3
  <1>7. CASE PublishDkim(d)
    <2> DEFINE row == shown[d].rows.DKIM
               s == shown[d].sel
    <2>1. /\ UNCHANGED <<spf, dmarc>> /\ s \in Selectors
          /\ dkim' = [dkim EXCEPT ![d][s] = (dkim[d][s] \ {row.current}) \cup {row.value}]
      BY <1>7 DEF PublishDkim, ShownOK
    <2>2. IsFiniteSet((dkim[d][s] \ {row.current}) \cup {row.value})
      <3>1. IsFiniteSet(dkim[d][s] \ {row.current})
        BY <2>1, FS_RemoveElement
      <3> HIDE DEF row
      <3> QED
        BY <3>1, FS_AddElement
    <2> QED
      BY <1>2, <2>1, <2>2
  <1>8. CASE PublishAnnounced(d)
    <2>1. PICK s, k :
            /\ UNCHANGED <<spf, dmarc>>
            /\ dkim' = [dkim EXCEPT ![d][s] = dkim[d][s] \cup {k}]
      BY <1>8 DEF PublishAnnounced
    <2>2. CASE s \in Selectors
      <3>1. IsFiniteSet(dkim[d][s])
        BY <2>2
      <3>2. IsFiniteSet(dkim[d][s] \cup {k})
        BY <3>1, FS_AddElement
      <3> QED
        BY <1>2, <2>1, <3>2
    <2>3. CASE s \notin Selectors
      <3>1. /\ DOMAIN dkim' = Domains /\ \A e \in Domains \ {d} : dkim'[e] = dkim[e]
            /\ DOMAIN dkim'[d] = Selectors /\ \A q \in Selectors : dkim'[d][q] = dkim[d][q]
        BY <2>1, <2>3
      <3>2. ZoneOK'
        BY <1>0, <2>1, <3>1
      <3> QED
        BY <1>0, <2>1, <3>1, <3>2, TouchesKeeps DEF Touches
    <2> QED
      BY <2>2, <2>3
  <1> QED
    BY <1>3, <1>4, <1>5, <1>6, <1>7, <1>8

LEMMA AddressKeeps ==
  ASSUME CInv, PublishAddress
  PROVE  CInv'
  <1> USE DEF CInv
  <1>0. /\ UNCHANGED registry /\ UNCHANGED <<screen, view, todo, asked, shown, outdated, spf, dkim, dmarc>>
        /\ fresh' = {} /\ resolves' = TRUE
    BY DEF PublishAddress, desk
  <1>1. RegOK' /\ Abreast' /\ DeskOK'
    BY <1>0 DEF RegOK, Abreast, DeskOK, registry
  <1>2. ZoneOK' /\ AskedOK' /\ ShownOK'
    BY <1>0 DEF ZoneOK, AskedOK, ShownOK
  <1> QED
    BY <1>0, <1>1, <1>2

LEMMA ConNextKeeps == CInv /\ [ConNext]_all => CInv'
  <1> SUFFICES ASSUME CInv, [ConNext]_all PROVE CInv'
    OBVIOUS
  <1>1. CASE Screens
    BY <1>1, OpenKeeps, BegunKeeps, QuitKeeps, BrowseKeeps DEF Screens
  <1>2. CASE Perform \/ Reload \/ BeginBeside \/ Beside
    BY <1>2, PerformKeeps, OpenKeeps, BegunKeeps, BesideKeeps
  <1>3. CASE Inspect
    BY <1>3, AskKeeps, JudgeKeeps DEF Inspect
  <1>4. CASE Publishing \/ PublishAddress \/ \E d \in Domains : PublishAnnounced(d) \/ ForeignEdit(d)
    BY <1>4, PublishKeeps, AddressKeeps DEF Publishing
  <1>5. CASE UNCHANGED all
    <2>1. UNCHANGED registry /\ Still /\ UNCHANGED <<screen, view, shown, asked, todo, outdated>>
      BY <1>5 DEF all, zone, desk, history, Still
    <2>2. RegOK' /\ Abreast' /\ DeskOK' /\ outdated' \in BOOLEAN
      BY <2>1 DEF CInv, RegOK, Abreast, DeskOK, registry
    <2> QED
      BY <2>1, <2>2, SheetsStand DEF CInv
  <1> QED
    BY <1>1, <1>2, <1>3, <1>4, <1>5 DEF ConNext

\* The console's invariant: its copy is the file while no command beside has
\* written it, and a sheet that is fresh is the one the zone calls for.
THEOREM Console_Invariant == ConSpec => []CInv
  BY ConInitKeeps, ConNextKeeps, PTL DEF ConSpec

------------------------------------------------------------------------------
\* Nothing to do is nothing to do in any row.
LEMMA NothingToDo ==
  ASSUME NEW sheet, ToDo(sheet) = 0, NEW p \in Pillars
  PROVE  sheet[p].status \notin {"Add", "Replace", "Broken"}
  <1> DEFINE S == {q \in Pillars : sheet[q].status \in {"Add", "Replace", "Broken"}}
  <1>1. IsFiniteSet({"SPF"} \cup {"DKIM"} \cup {"DMARC"} \cup {"MX"})
    <2>1. IsFiniteSet({"SPF"})
      BY FS_Singleton
    <2>2. IsFiniteSet({"SPF"} \cup {"DKIM"})
      BY <2>1, FS_AddElement
    <2>3. IsFiniteSet({"SPF"} \cup {"DKIM"} \cup {"DMARC"})
      BY <2>2, FS_AddElement
    <2> QED
      BY <2>3, FS_AddElement
  <1>2. Pillars = {"SPF"} \cup {"DKIM"} \cup {"DMARC"} \cup {"MX"}
    BY DEF Pillars
  <1>3. IsFiniteSet(S)
    BY <1>1, <1>2, FS_Subset
  <1>4. S = {}
    BY <1>3, FS_EmptySet DEF ToDo
  <1> QED
    BY <1>4

\* A key that needs nothing done is the one the lookup found.
LEMMA DkimRowSays ==
  ASSUME NEW k, NEW p
  PROVE  LET row == DkimRow(k, p)
         IN  /\ row.status \notin {"Add", "Replace", "Broken"} => k # 0 /\ p = k /\ row.value = k
             /\ row.status \in {"Add", "Replace"} => k # 0 /\ row.value = k /\ row.current = p
             /\ k # 0 => DkimRow(k, k).status = "AlreadyCorrect"
  <1> DEFINE row == DkimRow(k, p)
  <1>1. CASE k = 0
    <2>1. row = Row("Broken", 0, 0)
      BY <1>1 DEF DkimRow
    <2> QED
      BY <1>1, <2>1 DEF Row
  <1>2. k # 0 => DkimRow(k, k).status = "AlreadyCorrect"
    <2> SUFFICES ASSUME k # 0 PROVE DkimRow(k, k) = Row("AlreadyCorrect", k, 0)
      BY DEF Row
    <2> QED
      BY DEF DkimRow
  <1>3. CASE k # 0 /\ p = 0
    <2>1. row = Row("Add", k, 0)
      BY <1>3 DEF DkimRow
    <2> QED
      BY <1>2, <1>3, <2>1 DEF Row
  <1>4. CASE k # 0 /\ p # 0 /\ p = k
    <2>1. row = Row("AlreadyCorrect", k, 0)
      BY <1>4 DEF DkimRow
    <2> QED
      BY <1>2, <1>4, <2>1 DEF Row
  <1>5. CASE k # 0 /\ p # 0 /\ p # k
    <2>1. row = Row("Replace", k, p)
      BY <1>5 DEF DkimRow
    <2> QED
      BY <1>2, <1>5, <2>1 DEF Row
  <1> QED
    BY <1>1, <1>3, <1>4, <1>5

\* "all sorted" is true of the zone, the key and the configuration, for as long
\* as the console can know.
THEOREM SortedIsTrue == ConSpec => []GreenIsTrue
  <1>1. CInv => GreenIsTrue
    <2> SUFFICES ASSUME CInv, NEW d \in Domains, Seen(d), Sorted(d), d \in fresh, ~ outdated
                 PROVE  /\ resolves => \E r \in spf[d] : spf[d] = {r} /\ Passes(r, Ours)
                        /\ file[d] # None
                        /\ shown[d].rows.DKIM.value = KeyOnDisk(d) => key[d] \in dkim[d][file[d].sel]
                        /\ dmarc[d]
      BY DEF GreenIsTrue
    <2> USE DEF CInv
    <2>1. /\ todo = {} /\ pc[Con] = "idle" /\ screen \notin {"off", "reload"}
          /\ view[d] # None /\ shown[d] # None
      BY DEF Seen, Prompt
    <2>2. SheetOf(d)
      BY <2>1 DEF ShownOK
    <2>3. file = view
      <3>1. outdated = FALSE
        BY Zenon
      <3> QED
        BY <2>1, <3>1 DEF Abreast
    <2>4. \A p \in Pillars : shown[d].rows[p].status \notin {"Add", "Replace", "Broken"}
      BY NothingToDo DEF Sorted
    <2>5. /\ shown[d].rows.SPF.status \notin {"Add", "Replace", "Broken"}
          /\ shown[d].rows.DKIM.status \notin {"Add", "Replace", "Broken"}
          /\ shown[d].rows.DMARC.status \notin {"Add", "Replace", "Broken"}
      BY <2>4 DEF Pillars
    <2>6. resolves => \E r \in spf[d] : spf[d] = {r} /\ Passes(r, Ours)
      <3> DEFINE row == SpfRow(spf[d], resolves)
      <3>1. spf[d] \in SUBSET Records /\ IsFiniteSet(spf[d]) /\ resolves \in BOOLEAN
        BY DEF ZoneOK
      <3>2. row.status \notin {"Add", "Replace", "Broken"} /\ resolves = TRUE =>
              \E r \in spf[d] : spf[d] = {r} /\ Passes(r, Ours)
        <4>1. row.status \notin {"Add", "Replace", "Broken"} /\ resolves = TRUE =>
                \E r : spf[d] = {r} /\ Passes(r, Ours)
          BY <3>1, SpfRowSays, Zenon
        <4> HIDE DEF row
        <4> QED
          BY <4>1
      <3>3. row.status \notin {"Add", "Replace", "Broken"}
        BY <2>2, <2>5, Zenon DEF SheetOf
      <3>4. resolves => resolves = TRUE
        BY <3>1, Zenon
      <3> QED
        BY <3>2, <3>3, <3>4, Zenon
    <2>7. shown[d].rows.DKIM.value = KeyOnDisk(d) => key[d] \in dkim[d][file[d].sel]
      <3>1. PICK k, p : shown[d].rows.DKIM = DkimRow(k, p) /\ Finds(d, shown[d].sel, p)
        BY <2>2 DEF SheetOf
      <3>2. k # 0 /\ p = k /\ shown[d].rows.DKIM.value = k
        BY <2>5, <3>1, DkimRowSays
      <3>3. k \in dkim[d][file[d].sel]
        BY <2>1, <2>2, <2>3, <3>1, <3>2 DEF Finds, SheetOf
      <3> QED
        BY <3>2, <3>3 DEF KeyOnDisk
    <2>8. dmarc[d]
      <3>1. shown[d].rows.DMARC.status = IF dmarc[d] THEN "AlreadyCorrect" ELSE "Add"
        <4>1. shown[d].rows.DMARC = DmarcRow(dmarc[d])
          BY <2>2, Zenon DEF SheetOf
        <4>2. DmarcRow(dmarc[d]).status = IF dmarc[d] THEN "AlreadyCorrect" ELSE "Add"
          BY DEF DmarcRow, Row
        <4> QED
          BY <4>1, <4>2, Zenon
      <3> QED
        BY <2>5, <3>1
    <2> QED
      BY <2>1, <2>3, <2>6, <2>7, <2>8
  <1> QED
    BY <1>1, Console_Invariant, PTL

\* The one record an SPF row that is still true leaves.
LEMMA SpfPublished ==
  ASSUME CInv, NEW d \in Domains, PublishSpf(d), d \in fresh \ todo
  PROVE  \E r : /\ spf'[d] = {r} /\ Authorizes(r) /\ r \in Records /\ resolves = TRUE
               /\ \A h \in Hosts : (\E q \in spf[d] : Passes(q, h)) => Passes(r, h)
  <1> USE DEF CInv
  <1> DEFINE row == SpfRow(spf[d], resolves)
  <1>1. SheetOf(d)
    BY DEF PublishSpf, ShownOK
  <1>2. shown[d].rows.SPF = row
    BY <1>1, Zenon DEF SheetOf
  <1>3. spf[d] \in SUBSET Records /\ IsFiniteSet(spf[d]) /\ resolves \in BOOLEAN
    BY DEF ZoneOK
  <1>4. row.status \in {"Add", "Replace"} /\ row.value # <<>> =>
          /\ resolves = TRUE /\ row.value \in Records
          /\ (spf[d] \ {row.current}) \cup {row.value} = {row.value}
          /\ Authorizes(row.value)
          /\ \A h \in Hosts : (\E q \in spf[d] : Passes(q, h)) => Passes(row.value, h)
    BY <1>3, SpfRowSays, Zenon
  <1> HIDE DEF row
  <1>5. /\ row.status \in {"Add", "Replace"} /\ row.value # <<>>
        /\ spf' = [spf EXCEPT ![d] = (spf[d] \ {row.current}) \cup {row.value}]
    BY <1>2 DEF PublishSpf
  <1>6. spf'[d] = {row.value}
    BY <1>4, <1>5 DEF ZoneOK
  <1> QED
    BY <1>4, <1>5, <1>6

\* Following the SPF row neither makes a second record nor turns anybody away.
THEOREM MergeIsSafe == ConSpec => MergeKeeps
  <1>1. CInv /\ [ConNext]_all =>
          [\A d \in Domains :
             PublishSpf(d) /\ d \in fresh \ todo =>
               \E r \in spf'[d] :
                 /\ spf'[d] = {r}
                 /\ Passes(r, Ours)
                 /\ \A h \in Hosts : (\E q \in spf[d] : Passes(q, h)) => Passes(r, h)]_all
    <2> SUFFICES ASSUME CInv, NEW d \in Domains, PublishSpf(d), d \in fresh \ todo
                 PROVE  \E r \in spf'[d] :
                          /\ spf'[d] = {r}
                          /\ Passes(r, Ours)
                          /\ \A h \in Hosts : (\E q \in spf[d] : Passes(q, h)) => Passes(r, h)
      OBVIOUS
    <2> QED
      BY SpfPublished, RecordsRead
  <1> QED
    BY <1>1, Console_Invariant, PTL DEF ConSpec, MergeKeeps

\* A row that is still true, once followed, leaves nothing to be said.
THEOREM FollowedIsSorted == ConSpec => FollowingSorts
  <1>1. CInv /\ [ConNext]_all =>
          [\A d \in fresh \ todo :
             /\ PublishSpf(d) => SpfRow(spf'[d], resolves).status = "AlreadyCorrect"
             /\ PublishDkim(d) /\ Cardinality(dkim[d][shown[d].sel]) <= 1 =>
                  \A k \in dkim'[d][shown[d].sel] :
                    DkimRow(shown[d].rows.DKIM.value, k).status = "AlreadyCorrect"]_all
    <2> SUFFICES ASSUME CInv, NEW d \in fresh \ todo
                 PROVE  /\ PublishSpf(d) => SpfRow(spf'[d], resolves).status = "AlreadyCorrect"
                        /\ PublishDkim(d) /\ Cardinality(dkim[d][shown[d].sel]) <= 1 =>
                             \A k \in dkim'[d][shown[d].sel] :
                               DkimRow(shown[d].rows.DKIM.value, k).status = "AlreadyCorrect"
      OBVIOUS
    <2> USE DEF CInv
    <2>0. d \in Domains
      BY DEF ZoneOK
    <2>1. ASSUME PublishSpf(d)
          PROVE  SpfRow(spf'[d], resolves).status = "AlreadyCorrect"
      <3>1. PICK r : spf'[d] = {r} /\ Authorizes(r) /\ resolves = TRUE
        BY <2>0, <2>1, SpfPublished
      <3>2. SpfRow({r}, resolves).status = "AlreadyCorrect"
        BY <3>1, GrantedIsCorrect
      <3> QED
        BY <3>1, <3>2, Zenon
    <2>2. ASSUME PublishDkim(d), Cardinality(dkim[d][shown[d].sel]) <= 1, NEW j \in dkim'[d][shown[d].sel]
          PROVE  DkimRow(shown[d].rows.DKIM.value, j).status = "AlreadyCorrect"
      <3> DEFINE s == shown[d].sel
                 row == shown[d].rows.DKIM
      <3>1. /\ s \in Selectors /\ SheetOf(d) /\ row.status \in {"Add", "Replace"}
            /\ dkim' = [dkim EXCEPT ![d][s] = (dkim[d][s] \ {row.current}) \cup {row.value}]
        BY <2>0, <2>2 DEF PublishDkim, ShownOK
      <3>2. PICK k, p : row = DkimRow(k, p) /\ Finds(d, s, p)
        BY <3>1 DEF SheetOf
      <3>3. k # 0 /\ row.value = k /\ row.current = p
        BY <3>1, <3>2, DkimRowSays
      <3>4. dkim'[d][s] = (dkim[d][s] \ {p}) \cup {k}
        BY <2>0, <3>1, <3>3 DEF ZoneOK
      <3>5. dkim[d][s] \ {p} = {}
        <4>1. CASE dkim[d][s] = {}
          BY <4>1
        <4>2. CASE p \in dkim[d][s]
          <5>1. IsFiniteSet(dkim[d][s])
            BY <2>0, <3>1 DEF ZoneOK
          <5>2. dkim[d][s] = {p}
            BY <2>2, <4>2, <5>1, OneOf
          <5> QED
            BY <5>2
        <4> QED
          BY <3>2, <4>1, <4>2 DEF Finds
      <3>6. j = k
        BY <2>2, <3>4, <3>5
      <3>7. DkimRow(k, k).status = "AlreadyCorrect"
        BY <3>3, DkimRowSays
      <3> QED
        BY <3>3, <3>6, <3>7
    <2> QED
      BY <2>1, <2>2
  <1> QED
    BY <1>1, Console_Invariant, PTL DEF ConSpec, FollowingSorts
==============================================================================
