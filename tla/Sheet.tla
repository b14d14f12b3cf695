-------------------------------- MODULE Sheet --------------------------------
(***************************************************************************)
(* The sheet of DNS records of one domain (inspect/sheet.rs, `build`): for *)
(* SPF, DKIM, DMARC and MX, what to do about the record, judged against    *)
(* what is published.                                                      *)
(*                                                                         *)
(* An SPF record is a sequence of mechanisms, each of which covers some    *)
(* sending hosts and lets them pass or not; a DKIM record is the number of *)
(* the key it shows; of a DMARC record only its presence is looked at.     *)
(***************************************************************************)
EXTENDS Naturals, Sequences, FiniteSets

CONSTANTS
  Hosts,         \* hosts that send mail in the domain's name
  Ours           \* this server

ASSUME SheetAssumption == Ours \in Hosts

Mechanism == [kind : {"ip4", "all"}, hosts : SUBSET Hosts, pass : BOOLEAN]

\* ip4:<the server's address>
Grant == [kind |-> "ip4", hosts |-> {Ours}, pass |-> TRUE]

\* -all
Deny == [kind |-> "all", hosts |-> Hosts, pass |-> FALSE]

\* How receivers read a record: the first mechanism that covers the host decides.
Passes(r, h) ==
  \E i \in DOMAIN r :
    /\ r[i].pass /\ h \in r[i].hosts
    /\ \A j \in 1 .. (i - 1) : h \notin r[j].hosts

Authorizes(r) == \E i \in DOMAIN r : r[i] = Grant

Ends(r) == {i \in DOMAIN r : r[i].kind = "all"}

FirstEnd(r) == CHOOSE i \in Ends(r) : \A j \in Ends(r) : i <= j

\* Variant: the server's mechanism goes behind everything, where no receiver
\* reads it.
MergedLast(r) == Append(r, Grant)

\* merge_spf: the server's mechanism goes before the first `all`.
Merged(r) ==
  IF Ends(r) = {} THEN Append(r, Grant)
  ELSE SubSeq(r, 1, FirstEnd(r) - 1) \o <<Grant>> \o SubSeq(r, FirstEnd(r), Len(r))

------------------------------------------------------------------------------
\* A row of the sheet; "none" when the pillar has no row.  `current` is what a
\* replacement is to replace.  An empty value is not to be pasted.
Row(status, value, current) == [status |-> status, value |-> value, current |-> current]

\* Without the server's address an SPF record that is there gets no row.
SpfRow(found, resolved) ==
  CASE found = {} -> Row("Add", IF resolved THEN <<Grant, Deny>> ELSE <<>>, <<>>)
    [] Cardinality(found) > 1 -> Row("Broken", <<>>, <<>>)
    [] OTHER ->
         LET one == CHOOSE r \in found : TRUE
         IN  IF ~ resolved THEN Row("none", <<>>, <<>>)
             ELSE IF Authorizes(one) THEN Row("AlreadyCorrect", one, <<>>)
             ELSE Row("Replace", Merged(one), one)

\* Variant: the new record is to go beside a wrong one.
DkimRowBeside(key, published) ==
  IF key = 0 THEN Row("Broken", 0, 0)
  ELSE IF published = key THEN Row("AlreadyCorrect", key, 0)
  ELSE Row("Add", key, 0)

\* The key on disk against the record; 0 stands for none.
DkimRow(key, published) ==
  IF key = 0 THEN Row("Broken", 0, 0)
  ELSE CASE published = 0   -> Row("Add", key, 0)
         [] published = key -> Row("AlreadyCorrect", key, 0)
         [] OTHER           -> Row("Replace", key, published)

DmarcRow(there) == Row(IF there THEN "AlreadyCorrect" ELSE "Add", there, there)

\* The MX records are not asked for.
MxRow(receives) == Row(IF receives THEN "Add" ELSE "none", receives, receives)

Pillars == {"SPF", "DKIM", "DMARC", "MX"}

\* build: `seen` is what the lookups brought and the key on disk.
Build(receives, seen) ==
  [SPF   |-> SpfRow(seen.spf, seen.resolved),
   DKIM  |-> DkimRow(seen.key, seen.dkim),
   DMARC |-> DmarcRow(seen.dmarc),
   MX    |-> MxRow(receives)]

\* count_to_do
ToDo(sheet) == Cardinality({p \in Pillars : sheet[p].status \in {"Add", "Replace", "Broken"}})
==============================================================================
