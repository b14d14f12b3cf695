------------------------------- MODULE Console -------------------------------
(***************************************************************************)
(* The console (cli/console.rs) over the configuration of module Registry, *)
(* the domains' DNS zones, and the operator who publishes what its sheets  *)
(* say (inspect/mod.rs, `domain`; module Sheet).                           *)
(*                                                                         *)
(* The console works on a copy of the configuration it read when it        *)
(* started, and reads it again only after a change of its own; commands    *)
(* beside it change the file and the keys, another provider the zone.  A   *)
(* lookup that fails counts as a name without records.  An inspection is   *)
(* two steps: the lookups, then the key file and the verdict.              *)
(***************************************************************************)
EXTENDS Registry, Sheet

CONSTANTS
  Con,           \* the console's process; the others run single commands
  ConSelector,   \* the selector the console gives a new domain
  Out,           \* Mode::Out: mail is sent only
  Foreign,       \* SPF records of other providers
  MaxMishaps     \* bound: lookups that fail, and changes of the zone by others

ASSUME ConsoleAssumption ==
  /\ Con \in Procs /\ ConSelector \in Selectors /\ Out \in Values
  /\ {"off", "home", "reload"} \cap Domains = {}
  /\ Foreign \subseteq Seq(Mechanism)
  /\ MaxMishaps \in Nat

\* No record of another provider knows this server: none lets it pass by its
\* address, and none but with its `all` turns it away.
ASSUME ForeignAssumption ==
  \A r \in Foreign :
    /\ ~ Authorizes(r)
    /\ \A i \in DOMAIN r : r[i].kind = "all" \/ r[i].pass \/ Ours \notin r[i].hosts

VARIABLES
  screen,        \* "off", "home", "reload", or the domain whose screen is open
  view,          \* `config`: the console's copy
  todo,          \* domains whose inspection is under way or due
  asked,         \* what the lookups of the inspection under way brought, or None
  shown,         \* shown[d]: the sheet of the last inspection, or None
  spf, dkim, dmarc,   \* the zones: SPF records, keys per selector, DMARC there
  resolves,      \* the server's name has an address
  mishaps,
  fresh,         \* history: domains whose lookups all answered, and whose zone
                 \*   has not changed since
  outdated       \* history: a command beside has written the file since the
                 \*   console read it

zone == <<spf, dkim, dmarc, resolves>>
desk == <<screen, view, todo, asked, shown>>
registry == <<file, garbled, key, torn, pc, cmd, text, mints, made, server, commands, failures,
              announced, orphan, expect, cut, raced>>
history == <<fresh, outdated>>
all == <<registry, zone, desk, mishaps, history>>

ConInit ==
  /\ Init
  /\ screen = "off" /\ view = Empty /\ todo = {} /\ asked = None
  /\ shown = [d \in Domains |-> None]
  /\ spf \in [Domains -> {{}} \cup {{r} : r \in Foreign}]
  /\ dkim = [d \in Domains |-> [s \in Selectors |-> {}]]
  /\ dmarc \in [Domains -> BOOLEAN] /\ resolves \in BOOLEAN
  /\ mishaps = 0 /\ fresh = {} /\ outdated = FALSE

Known(config) == {d \in Domains : config[d] # None}

\* The console waits for the operator.
Prompt == pc[Con] = "idle" /\ todo = {} /\ screen \notin {"off", "reload"}

------------------------------------------------------------------------------
\* locate_config, and the home screen's first look.
Open ==
  /\ screen = "off" /\ pc[Con] = "idle" /\ Loads
  /\ screen' = "home" /\ view' = file /\ todo' = Known(file)
  /\ outdated' = FALSE
  /\ UNCHANGED <<registry, zone, asked, shown, mishaps, fresh>>

\* The wizard of the first run.
FirstRun ==
  /\ screen = "off"
  /\ \E c \in Command : c.verb = "firstRun" /\ Start(Con, c)
  /\ UNCHANGED <<zone, desk, mishaps, history>>

Quit ==
  /\ Prompt /\ screen = "home"
  /\ screen' = "off" /\ view' = Empty
  /\ shown' = [d \in Domains |-> None]
  /\ UNCHANGED <<registry, zone, todo, asked, mishaps, history>>

\* From home into a domain, which looks at that domain; back, which looks at
\* all; and both screens' wish to look again.
Browse ==
  /\ Prompt
  /\ \E to \in {"home"} \cup Known(view) :
       /\ screen = "home" \/ to \in {screen, "home"}
       /\ screen' = to
       /\ todo' = IF to = "home" THEN Known(view) ELSE {to}
  /\ UNCHANGED <<registry, zone, view, asked, shown, mishaps, history>>

\* add_domain at home; rekey_domain, change_mode and remove_domain_flow on the
\* domain's screen.  What they check, they check in the console's copy.
Change(c) ==
  /\ Prompt
  /\ c.name \in Domains
  /\ IF c.verb = "add" THEN screen = "home" /\ view[c.name] = None /\ c.sel = ConSelector
     ELSE screen = c.name
  /\ c.verb = "rekey" => c.sel # view[c.name].sel
  /\ Begin(Con, c)
  /\ UNCHANGED <<zone, desk, mishaps, history>>

\* The steps of a change once it is under way; one that has succeeded sends the
\* console home, by way of the configuration it must read again.
Perform ==
  /\ Steps(Con)
  /\ screen' = IF pc[Con] = "fill" THEN "reload" ELSE screen
  /\ UNCHANGED <<zone, view, todo, asked, shown, mishaps, history>>

\* Variant: the copy is kept.
ReloadNothing ==
  /\ screen = "reload"
  /\ view' = IF view = Empty THEN file ELSE view
  /\ screen' = "home"
  /\ todo' = Known(view')
  /\ outdated' = FALSE
  /\ UNCHANGED <<registry, zone, asked, shown, mishaps, fresh>>

\* A configuration that does not load leaves the old copy, or ends a first run.
Reload ==
  /\ screen = "reload"
  /\ view' = IF Loads THEN file ELSE view
  /\ screen' = IF view' = Empty THEN "off" ELSE "home"
  /\ todo' = Known(view')
  /\ outdated' = IF Loads THEN FALSE ELSE outdated
  /\ UNCHANGED <<registry, zone, asked, shown, mishaps, fresh>>

------------------------------------------------------------------------------
KeyOnDisk(d) == IF d \in torn THEN 0 ELSE key[d]

Lookups == {"spf", "dkim", "dmarc", "address"}

\* The four lookups; what failed looks like a name without records.
Ask(d, failed) ==
  /\ d \in todo /\ asked = None
  /\ mishaps + Cardinality(failed) <= MaxMishaps
  /\ mishaps' = mishaps + Cardinality(failed)
  /\ \E k \in IF "dkim" \in failed \/ dkim[d][view[d].sel] = {} THEN {0} ELSE dkim[d][view[d].sel] :
       asked' = [of |-> d, dkim |-> k,
                 spf |-> IF "spf" \in failed THEN {} ELSE spf[d],
                 dmarc |-> dmarc[d] /\ "dmarc" \notin failed,
                 resolved |-> resolves /\ "address" \notin failed]
  /\ fresh' = IF failed = {} THEN fresh \cup {d} ELSE fresh \ {d}
  /\ UNCHANGED <<registry, zone, screen, view, todo, shown, outdated>>

\* The key file is read, and the sheet drawn up.
Judge ==
  /\ asked # None
  /\ LET d == asked.of
         seen == [spf |-> asked.spf, dkim |-> asked.dkim, dmarc |-> asked.dmarc,
                  resolved |-> asked.resolved, key |-> KeyOnDisk(d)]
     IN  /\ shown' = [shown EXCEPT ![d] = [sel |-> view[d].sel,
                                           rows |-> Build(view[d].val # Out, seen)]]
         /\ todo' = todo \ {d}
  /\ asked' = None
  /\ UNCHANGED <<registry, zone, screen, view, mishaps, history>>

------------------------------------------------------------------------------
\* The operator publishes what a row says: adds its value, or puts it in the
\* place of the record it names.
PublishSpf(d) ==
  /\ shown[d] # None /\ shown[d].rows.SPF.status \in {"Add", "Replace"}
  /\ shown[d].rows.SPF.value # <<>>
  /\ LET row == shown[d].rows.SPF
     IN  spf' = [spf EXCEPT ![d] = (@ \ {row.current}) \cup {row.value}]
  /\ fresh' = fresh \ {d}
  /\ UNCHANGED <<registry, dkim, dmarc, resolves, desk, mishaps, outdated>>

PublishDkim(d) ==
  /\ shown[d] # None /\ shown[d].rows.DKIM.status \in {"Add", "Replace"}
  /\ LET row == shown[d].rows.DKIM
     IN  dkim' = [dkim EXCEPT ![d][shown[d].sel] = (@ \ {row.current}) \cup {row.value}]
  /\ fresh' = fresh \ {d}
  /\ UNCHANGED <<registry, spf, dmarc, resolves, desk, mishaps, outdated>>

PublishDmarc(d) ==
  /\ shown[d] # None /\ shown[d].rows.DMARC.status = "Add"
  /\ dmarc' = [dmarc EXCEPT ![d] = TRUE]
  /\ fresh' = fresh \ {d}
  /\ UNCHANGED <<registry, spf, dkim, resolves, desk, mishaps, outdated>>

\* The record a command printed for the key it minted.
PublishAnnounced(d) ==
  /\ \E a \in announced[d] :
       /\ a[2] = key[d] /\ a[2] \notin dkim[d][a[1]]
       /\ dkim' = [dkim EXCEPT ![d][a[1]] = @ \cup {a[2]}]
  /\ fresh' = fresh \ {d}
  /\ UNCHANGED <<registry, spf, dmarc, resolves, desk, mishaps, outdated>>

\* "keep exactly ONE record; merge the mechanisms by hand".
Decide(d) ==
  /\ shown[d] # None /\ shown[d].rows.SPF.status = "Broken"
  /\ Cardinality(spf[d]) > 1
  /\ \E r \in spf[d] : spf' = [spf EXCEPT ![d] = {r}]
  /\ fresh' = fresh \ {d}
  /\ UNCHANGED <<registry, dkim, dmarc, resolves, desk, mishaps, outdated>>

\* "publish its A record first".
PublishAddress ==
  /\ ~ resolves
  /\ resolves' = TRUE
  /\ fresh' = {}
  /\ UNCHANGED <<registry, spf, dkim, dmarc, desk, mishaps, outdated>>

\* Another provider adds an SPF record, or puts its own in the place of all.
ForeignEdit(d) ==
  /\ mishaps < MaxMishaps
  /\ mishaps' = mishaps + 1
  /\ \E r \in Foreign : spf' \in {[spf EXCEPT ![d] = {r}], [spf EXCEPT ![d] = @ \cup {r}]}
  /\ fresh' = fresh \ {d}
  /\ UNCHANGED <<registry, dkim, dmarc, resolves, desk, outdated>>

\* A command is begun beside the console, and goes on.  Commands that edit the
\* [server] table change nothing the console looks at.
BeginBeside ==
  /\ \E p \in Procs \ {Con}, c \in Command : c.name # Server /\ Start(p, c)
  /\ UNCHANGED <<zone, desk, mishaps, history>>

Beside ==
  /\ \E p \in Procs \ {Con} : Steps(p)
  /\ outdated' = (outdated \/ file' # file)
  /\ UNCHANGED <<zone, desk, mishaps, fresh>>

------------------------------------------------------------------------------
Inspect == Judge \/ \E d \in Domains, failed \in SUBSET Lookups : Ask(d, failed)

Screens == Open \/ FirstRun \/ Quit \/ Browse \/ (\E c \in Command : Change(c))

Publishing == \E d \in Domains : PublishSpf(d) \/ PublishDkim(d) \/ PublishDmarc(d) \/ Decide(d)

ConNext ==
  \/ Screens \/ Perform \/ Reload \/ Inspect \/ BeginBeside \/ Beside
  \/ Publishing \/ PublishAddress
  \/ \E d \in Domains : PublishAnnounced(d) \/ ForeignEdit(d)

ConSpec == ConInit /\ [][ConNext]_all

------------------------------------------------------------------------------
\* The domain's verdict is on the screen.
Seen(d) == Prompt /\ screen \in {"home", d} /\ view[d] # None /\ shown[d] # None

Sorted(d) == ToDo(shown[d].rows) = 0

\* "all sorted" is true: unless the zone, the key or, by a command beside, the
\* configuration has changed since, and every lookup had answered, the domain
\* has the one SPF record, which lets the server pass, the record of the key
\* its mail is signed with under the selector it is signed with, and a DMARC
\* record.  Without the server's address nothing is claimed of SPF.
GreenIsTrue ==
  \A d \in Domains :
    Seen(d) /\ Sorted(d) /\ d \in fresh /\ ~ outdated =>
      /\ resolves => \E r \in spf[d] : spf[d] = {r} /\ Passes(r, Ours)
      /\ file[d] # None
      /\ shown[d].rows.DKIM.value = KeyOnDisk(d) => key[d] \in dkim[d][file[d].sel]
      /\ dmarc[d]

\* "never tells you to add a second SPF record": who publishes the SPF row of a
\* sheet that is still true ends with one record, which lets this server pass
\* and everyone who passed before.
MergeKeeps ==
  [][\A d \in Domains :
       PublishSpf(d) /\ d \in fresh \ todo =>
         \E r \in spf'[d] :
           /\ spf'[d] = {r}
           /\ Passes(r, Ours)
           /\ \A h \in Hosts : (\E q \in spf[d] : Passes(q, h)) => Passes(r, h)]_all

\* A row that is still true sorts its pillar: drawn up again on the zone as the
\* operator leaves it, the sheet has nothing more to say about it.  Of several
\* keys under one selector a DKIM row replaces only the one the lookup found.
FollowingSorts ==
  [][\A d \in fresh \ todo :
       /\ PublishSpf(d) => SpfRow(spf'[d], resolves).status = "AlreadyCorrect"
       /\ PublishDkim(d) /\ Cardinality(dkim[d][shown[d].sel]) <= 1 =>
            \A k \in dkim'[d][shown[d].sel] :
              DkimRow(shown[d].rows.DKIM.value, k).status = "AlreadyCorrect"]_all
==============================================================================
