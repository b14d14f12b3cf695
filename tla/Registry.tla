------------------------------ MODULE Registry -------------------------------
(***************************************************************************)
(* mailbourne.toml and the DKIM keys beside it: commands that edit them    *)
(* (main.rs, cli/console.rs, cli/actions.rs, shared/core/edit.rs) and the  *)
(* server that signs with them (server/outbound.rs, shared/identity.rs).   *)
(*                                                                         *)
(* A command reads the whole text, edits it in memory and writes it back,  *)
(* and fs::write truncates before it fills: another command may read the   *)
(* empty file, which is valid TOML without a single table, and a command   *)
(* may die there.  Giving a domain a key overwrites keys/<name>.pem before *)
(* the text is even read.  The server keeps the configuration it was       *)
(* started with, but reads the key file each time it signs.  Adding a      *)
(* domain with a key of the operator's own (--dkim-key) is left out.       *)
(*                                                                         *)
(* A text is a function from names to entries: a domain's entry has a      *)
(* selector and a mode, an account's or a forward's one value, and the     *)
(* [server] table one value.                                               *)
(***************************************************************************)
EXTENDS Naturals, FiniteSets

CONSTANTS
  Procs,         \* commands and consoles that run at the same time
  Domains,       \* mail domains
  Others,        \* accounts and forwarding aliases
  Server,        \* the [server] table
  Selectors, Values, Default,
  None, Down,
  MaxCommands,   \* bound: commands that are run
  MaxFailures    \* bound: commands that die or meet an I/O error, and slips
                 \*   of the operator's editor

Names == Domains \cup Others \cup {Server}

ASSUME RegistryAssumption ==
  /\ Domains # {} /\ Server \notin Domains \cup Others /\ Domains \cap Others = {}
  /\ Default \in Values /\ None \notin Selectors \cup Values
  /\ None \notin [sel : Selectors \cup {None}, val : Values]
  /\ Down \notin [Names -> [sel : Selectors \cup {None}, val : Values] \cup {None}]
  /\ MaxCommands \in Nat /\ MaxFailures \in Nat

VARIABLES
  file,          \* the text of mailbourne.toml
  garbled,       \* a slip makes the text invalid TOML
  key,           \* key[d]: which key keys/d.pem holds, 0 before the first
  torn,          \* the domains whose key file is truncated and not filled
  pc, cmd, text, \* per process: where it stands, what it does, what it writes
  mints,         \* keys minted so far
  made,          \* per process: the key it has minted
  server,        \* the configuration the server was started with, or Down
  commands, failures,
  announced,     \* history: the <<selector, key>> the operator was told to publish
  orphan,        \* history: domains whose key was replaced by a command that
                 \*   has not announced it
  expect,        \* history: what the commands that succeeded add up to
  cut, raced     \* history: a write was cut off; two commands overlapped

runVars == <<pc, cmd, text, made, commands>>
histVars == <<announced, orphan, expect, cut, raced>>
vars == <<file, garbled, key, torn, pc, cmd, text, mints, made, server, commands, failures,
          announced, orphan, expect, cut, raced>>

Entry == [sel : Selectors \cup {None}, val : Values]
Text == [Names -> Entry \cup {None}]

Empty == [n \in Names |-> None]

\* What first_run writes.
Fresh == [Empty EXCEPT ![Server] = [sel |-> None, val |-> Default]]

Command ==
       [verb : {"add", "rekey"}, name : Domains, sel : Selectors, val : {Default}]
  \cup [verb : {"add"}, name : Others, sel : {None}, val : Values]
  \cup [verb : {"set"}, name : Names, sel : {None}, val : Values]
  \cup [verb : {"remove"}, name : Names \ {Server}, sel : {None}, val : {Default}]
  \cup [verb : {"firstRun"}, name : {Server}, sel : {None}, val : {Default}]

Idle == [verb |-> "remove", name |-> CHOOSE n \in Domains : TRUE, sel |-> None, val |-> Default]

Mints(c) == c.verb = "rekey" \/ (c.verb = "add" /\ c.name \in Domains)

\* Config::load succeeds: the text parses and has its [server] table.
Loads == ~ garbled /\ file[Server] # None

Init ==
  /\ file = Fresh /\ garbled = FALSE
  /\ key = [d \in Domains |-> 0] /\ torn = {}
  /\ pc = [p \in Procs |-> "idle"]
  /\ cmd = [p \in Procs |-> Idle]
  /\ text = [p \in Procs |-> Empty] /\ made = [p \in Procs |-> 0]
  /\ mints = 0 /\ server = Down /\ commands = 0 /\ failures = 0
  /\ announced = [d \in Domains |-> {}]
  /\ orphan = {} /\ expect = Fresh /\ cut = FALSE /\ raced = FALSE

------------------------------------------------------------------------------
\* The pure edits: the texts an edit may answer with, none when it is refused.

\* Variant: an entry that is there already is replaced.
AddedAnyway(t, c) == {[t EXCEPT ![c.name] = [sel |-> c.sel, val |-> c.val]]}

\* add_domain, add_account and add_forward refuse a name that is there.
Added(t, c) ==
  {u \in {[t EXCEPT ![c.name] = [sel |-> c.sel, val |-> c.val]]} : t[c.name] = None}

\* The others refuse one that is not: NotFound, or "no [server] table".
Changed(t, c) ==
  IF t[c.name] = None THEN {}
  ELSE CASE c.verb = "remove" -> {[t EXCEPT ![c.name] = None]}
         [] c.verb = "set"    -> {[t EXCEPT ![c.name].val = c.val]}
         [] c.verb = "rekey"  -> {[t EXCEPT ![c.name].sel = c.sel]}

Edits(t, c) ==
  CASE c.verb = "add"      -> Added(t, c)
    [] c.verb = "firstRun" -> {Fresh}
    [] OTHER               -> Changed(t, c)

Goto(p, point) == pc' = [pc EXCEPT ![p] = point]

\* The process exits.
Exit(p) ==
  /\ Goto(p, "idle")
  /\ cmd' = [cmd EXCEPT ![p] = Idle]
  /\ text' = [text EXCEPT ![p] = Empty]
  /\ made' = [made EXCEPT ![p] = 0]

\* A process takes a command up.
Begin(p, c) ==
  /\ pc[p] = "idle" /\ commands < MaxCommands
  /\ commands' = commands + 1
  /\ cmd' = [cmd EXCEPT ![p] = c]
  /\ text' = [text EXCEPT ![p] = IF c.verb = "firstRun" THEN Fresh ELSE Empty]
  /\ Goto(p, IF Mints(c) THEN "mint" ELSE IF c.verb = "firstRun" THEN "write" ELSE "read")
  /\ raced' = (raced \/ \E q \in Procs \ {p} : pc[q] # "idle")
  /\ UNCHANGED <<file, garbled, key, torn, mints, made, server, failures, announced, orphan, expect, cut>>

\* Variant: the entry is written before there is a key.
StartUnminted(p, c) ==
  /\ pc[p] = "idle" /\ commands < MaxCommands
  /\ IF c.verb = "firstRun" THEN ~ Loads ELSE TRUE
  /\ commands' = commands + 1
  /\ cmd' = [cmd EXCEPT ![p] = c]
  /\ text' = [text EXCEPT ![p] = IF c.verb = "firstRun" THEN Fresh ELSE Empty]
  /\ Goto(p, IF c.verb = "firstRun" THEN "write" ELSE "read")
  /\ raced' = (raced \/ \E q \in Procs \ {p} : pc[q] # "idle")
  /\ UNCHANGED <<file, garbled, key, torn, mints, made, server, failures, announced, orphan, expect, cut>>

\* Adding a domain is refused at once when the configuration loads and has it;
\* the console offers its first run when nothing it can load is there.
Start(p, c) ==
  /\ c.verb = "add" /\ c.name \in Domains => ~ (Loads /\ file[c.name] # None)
  /\ c.verb = "firstRun" => ~ Loads
  /\ Begin(p, c)

\* mint_domain_key: whatever key the domain has is truncated first ...
Mint(p) ==
  /\ pc[p] = "mint"
  /\ torn' = torn \cup {cmd[p].name}
  /\ orphan' = orphan \cup {cmd[p].name}
  /\ Goto(p, "minting")
  /\ UNCHANGED <<file, garbled, key, cmd, text, commands, mints, made, server, failures,
                 announced, expect, cut, raced>>

\* Variant: an old key is left in place.
MintedOnce(p) ==
  /\ pc[p] = "minting"
  /\ mints' = mints + 1 /\ made' = [made EXCEPT ![p] = mints + 1]
  /\ key' = [key EXCEPT ![cmd[p].name] = IF @ = 0 THEN mints + 1 ELSE @]
  /\ torn' = torn \ {cmd[p].name}
  /\ Goto(p, "read")
  /\ UNCHANGED <<file, garbled, cmd, text, commands, server, failures, histVars>>

\* ... and then filled with the new one.
Minted(p) ==
  /\ pc[p] = "minting"
  /\ mints' = mints + 1 /\ made' = [made EXCEPT ![p] = mints + 1]
  /\ key' = [key EXCEPT ![cmd[p].name] = mints + 1]
  /\ torn' = torn \ {cmd[p].name}
  /\ Goto(p, "read")
  /\ UNCHANGED <<file, garbled, cmd, text, commands, server, failures, histVars>>

\* edit_config, rewrite: read the text and edit it.
Read(p) ==
  /\ pc[p] = "read" /\ ~ garbled
  /\ \E t \in Edits(file, cmd[p]) : text' = [text EXCEPT ![p] = t]
  /\ Goto(p, "write")
  /\ UNCHANGED <<file, garbled, key, torn, cmd, commands, mints, made, server, failures, histVars>>

\* The edit is refused: exit 2, the text is not touched.
Refused(p) ==
  /\ pc[p] = "read"
  /\ garbled \/ Edits(file, cmd[p]) = {}
  /\ Exit(p)
  /\ UNCHANGED <<file, garbled, key, torn, commands, mints, server, failures, histVars>>

Truncate(p) ==
  /\ pc[p] = "write"
  /\ file' = Empty /\ garbled' = FALSE
  /\ Goto(p, "fill")
  /\ UNCHANGED <<key, torn, cmd, text, commands, mints, made, server, failures, histVars>>

\* The command has succeeded, and prints the record of the key it minted.
Fill(p) ==
  /\ pc[p] = "fill"
  /\ file' = text[p]
  /\ Exit(p)
  /\ LET c == cmd[p]
     IN  /\ expect' = IF c.verb = "firstRun" THEN Fresh
                      ELSE [expect EXCEPT ![c.name] =
                             CASE c.verb = "remove" -> None
                               [] c.verb = "add" -> IF @ = None THEN [sel |-> c.sel, val |-> c.val] ELSE @
                               [] c.verb = "set" -> IF @ = None THEN @ ELSE [@ EXCEPT !.val = c.val]
                               [] c.verb = "rekey" -> IF @ = None THEN @ ELSE [@ EXCEPT !.sel = c.sel]]
         /\ IF Mints(c)
              THEN /\ announced' = [announced EXCEPT ![c.name] = @ \cup {<<c.sel, made[p]>>}]
                   /\ orphan' = orphan \ {c.name}
              ELSE UNCHANGED <<announced, orphan>>
  /\ UNCHANGED <<garbled, key, torn, commands, mints, server, failures, cut, raced>>

\* The command is killed, or a file operation fails, at any of its steps.
Dies(p) ==
  /\ pc[p] # "idle" /\ failures < MaxFailures
  /\ failures' = failures + 1
  /\ cut' = (cut \/ pc[p] = "fill")
  /\ Exit(p)
  /\ UNCHANGED <<file, garbled, key, torn, commands, mints, server,
                 announced, orphan, expect, raced>>

------------------------------------------------------------------------------
\* The operator's own editor leaves a syntax error, or mends it.
HandEdit ==
  /\ \A p \in Procs : pc[p] = "idle"
  /\ \/ ~ garbled /\ failures < MaxFailures /\ failures' = failures + 1
     \/ garbled /\ UNCHANGED failures
  /\ garbled' = ~ garbled
  /\ UNCHANGED <<file, key, torn, runVars, mints, server, histVars>>

\* serve: without a configuration that loads there is no server.
Restart ==
  /\ server' = IF Loads THEN file ELSE Down
  /\ UNCHANGED <<file, garbled, key, torn, runVars, mints, failures, histVars>>

\* What a command does once it is under way.
Steps(p) == Mint(p) \/ Minted(p) \/ Read(p) \/ Refused(p) \/ Truncate(p) \/ Fill(p)

Run(p) == (\E c \in Command : Start(p, c)) \/ Steps(p) \/ Dies(p)

Next == (\E p \in Procs : Run(p)) \/ HandEdit \/ Restart

Spec == Init /\ [][Next]_vars

------------------------------------------------------------------------------
TypeOK ==
  /\ file \in Text /\ expect \in Text
  /\ garbled \in BOOLEAN /\ cut \in BOOLEAN /\ raced \in BOOLEAN
  /\ key \in [Domains -> 0 .. mints]
  /\ torn \subseteq Domains /\ orphan \subseteq Domains
  /\ pc \in [Procs -> {"idle", "mint", "minting", "read", "write", "fill"}]
  /\ cmd \in [Procs -> Command]
  /\ text \in [Procs -> Text] /\ made \in [Procs -> 0 .. mints]
  /\ server \in Text \cup {Down}
  /\ announced \in [Domains -> SUBSET (Selectors \X (1 .. mints))]
  /\ mints \in Nat /\ commands \in Nat /\ failures \in Nat

Quiet == ~ raced /\ ~ cut /\ \A p \in Procs : pc[p] # "fill"

\* While commands come one at a time and none was cut off in its write, the
\* file is what the successful ones add up to: a refused or failed command
\* changes nothing of it, and no edit touches another's entry.
NoUpdateLost == Quiet => file = expect

\* What the server would sign with now.
Signature(d) ==
  IF server = Down \/ d \in torn THEN {}
  ELSE IF server[d] = None \/ key[d] = 0 THEN {}
  ELSE {<<server[d].sel, key[d]>>}

Stale(d) == file[d] = None \/ file[d].sel # server[d].sel

\* "publish the NEW record BEFORE the next send" is enough only under
\* conditions: the server signs a domain's mail, and with a pair the operator
\* was told to publish, unless it still runs with an older configuration, or a
\* command has replaced the key and not finished, or two commands overlapped.
SignsAsAnnounced ==
  \A d \in Domains :
    server # Down /\ ~ raced =>
      \/ server[d] = None \/ Stale(d) \/ d \in orphan
      \/ Signature(d) # {} /\ Signature(d) \subseteq announced[d]

\* A domain that is registered has had its key written, whichever commands
\* overlapped or died.
KeyIsThere == \A d \in Domains : file[d] # None => key[d] > 0
==============================================================================
