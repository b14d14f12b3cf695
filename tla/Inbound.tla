------------------------------- MODULE Inbound -------------------------------
(***************************************************************************)
(* The session of module Session with the parts it consults, as serve_cmd  *)
(* of main.rs puts them together from the configuration: the registry of   *)
(* accounts (accounts.rs), the acceptance policy (policy.rs), the door     *)
(* (door.rs) and the commit to the spool (serve.rs).                       *)
(*                                                                         *)
(* Session leaves open whether a login succeeds, what the door says and    *)
(* what becomes of a message; every step here is a step of Session that    *)
(* these parts allow.                                                      *)
(***************************************************************************)
EXTENDS Session, SequencesExt

CONSTANTS
  Domains,
  DomainOf,      \* DomainOf[r]: the part behind the "@"
  Hosted,        \* domains of mode in or both
  Accounts,      \* the [[account]] entries, in the order of the file
  Forwards,      \* the match_recipient of the forwarding rules
  Webhook,       \* a webhook is configured
  Enforce,       \* dmarc_enforce
  Right, Wrong   \* the password an account was made with, and any other

ASSUME InboundAssumption ==
  /\ DomainOf \in [Recipients -> Domains] /\ Hosted \subseteq Domains
  /\ Accounts \in Seq([address : Recipients, enabled : BOOLEAN])
  /\ Forwards \subseteq Recipients /\ None \notin Recipients
  /\ Webhook \in BOOLEAN /\ Enforce \in BOOLEAN
  /\ HasDoor

VARIABLES
  user,          \* AUTH LOGIN: the user name as typed
  who,           \* `authenticated`: the account's name
  verdict,       \* what the door finds out about the message it is judging
  entry          \* the entry last made in the spool

parts == <<user, who, verdict, entry>>

------------------------------------------------------------------------------
\* Accounts::lookup: the first entry of the name.
Lookup(r) ==
  LET found == {i \in DOMAIN Accounts : Accounts[i].address = r}
  IN  IF found = {} THEN None
      ELSE Accounts[CHOOSE i \in found : \A j \in found : i <= j]

IsRecipient(r) == Lookup(r) # None /\ Lookup(r).enabled

\* Variant: an account that is switched off does not make its domain strict.
HostsDomainActive(d) ==
  \E i \in DOMAIN Accounts : DomainOf[Accounts[i].address] = d /\ Accounts[i].enabled

HostsDomain(d) == \E i \in DOMAIN Accounts : DomainOf[Accounts[i].address] = d

\* Accounts::verify
Verify(r, password) == IsRecipient(r) /\ password = Right

\* Acceptance::accept_recipient
AcceptRecipient(r) ==
  /\ DomainOf[r] \in Hosted
  /\ IsRecipient(r) \/ r \in Forwards \/ ~ HostsDomain(DomainOf[r])

\* serve_cmd: the session's policy and its authenticator.
ASSUME Assembled ==
  /\ Deliverable = {r \in Recipients : AcceptRecipient(r)}
  /\ HasAuth = (Accounts # <<>>)

\* serve_cmd and run: every target but "outbound".
LocalTargets ==
  {"mailbox"} \cup (IF Webhook THEN {"webhook"} ELSE {})
              \cup (IF Forwards # {} THEN {"forward"} ELSE {})

Verdict == [parses : BOOLEAN, dmarcPass : BOOLEAN, policy : {"none", "reject"}]

\* MailAuthDoor::assess refuses only what it could judge.
Rejects(v) == v.parses /\ Enforce /\ ~ v.dmarcPass /\ v.policy = "reject"

------------------------------------------------------------------------------
InInit == Init /\ user = None /\ who = None /\ verdict = None /\ entry = None

Plain ==
  /\ \/ SendLine \/ Fill \/ Drop
     \/ Ehlo \/ MailFrom \/ Data \/ Rset \/ NoEffect \/ Quit
     \/ \E r \in Recipients : RcptTo(r)
     \/ PayloadLine \/ PayloadTooBig
     \/ StartTls \/ AuthAsk
  /\ UNCHANGED parts

\* The upgrade forgets the login.
Upgrade == Handshake /\ who' = None /\ UNCHANGED <<user, verdict, entry>>

\* AUTH LOGIN, the first answer; the session looks at it together with the second.
TypeUser ==
  /\ \E r \in Recipients : user' = r /\ userOk' = IsRecipient(r)
  /\ AuthUser
  /\ UNCHANGED <<who, verdict, entry>>

\* The credentials are complete, and the registry knows them.
LogIn ==
  \E r \in Recipients, password \in {Right, Wrong} :
    /\ AuthInline \/ AuthSucceeds
    /\ phase = "authPass" => r = user
    /\ Verify(r, password)
    /\ who' = r /\ user' = None
    /\ UNCHANGED <<verdict, entry>>

LogInFails == AuthFails /\ user' = None /\ UNCHANGED <<who, verdict, entry>>

\* The payload is complete; what comes without a login goes to the door.
Arrive ==
  /\ PayloadEnd
  /\ IF phase' = "door" THEN verdict' \in Verdict ELSE verdict' = None
  /\ UNCHANGED <<user, who, entry>>

Judge ==
  /\ verdict # None
  /\ IF Rejects(verdict) THEN DoorRefuses /\ verdict' = None
                        ELSE DoorPasses /\ UNCHANGED verdict
  /\ UNCHANGED <<user, who, entry>>

\* SpoolCommit::commit.  A submission has the one target, and no quota.
Commit ==
  /\ HandOver
  /\ entry' = [message |-> last', by |-> who, verdict |-> verdict,
               targets |-> IF who # None THEN {"outbound"} ELSE LocalTargets]
  /\ verdict' = None
  /\ UNCHANGED <<user, who>>

\* 452 for a full mailbox, 451 for a spool that is full or fails.
CommitRefuses ==
  /\ HandOver
  /\ verdict' = None
  /\ UNCHANGED <<user, who, entry>>

InNext == Plain \/ Upgrade \/ TypeUser \/ LogIn \/ LogInFails \/ Arrive \/ Judge \/ Commit \/ CommitRefuses

InSpec == InInit /\ [][InNext]_<<vars, parts>>

------------------------------------------------------------------------------
\* What a queued message is due for is what the configuration grants to whoever
\* brought it.  For the outbound relay: it came inside TLS, from one of the
\* enabled accounts.  For the local targets: it passed the door, and each of its
\* recipients is of a hosted domain and is an enabled account, an alias (and the
\* forwarder is among the targets) or of a domain without any account; no
\* account that is switched off gets mail of its own.
QueuedAsGranted ==
  entry # None =>
    IF "outbound" \in entry.targets
      THEN /\ entry.targets = {"outbound"}
           /\ entry.message.login = "tls" /\ entry.message.ch = "tls"
           /\ \E i \in DOMAIN Accounts : Accounts[i] = [address |-> entry.by, enabled |-> TRUE]
      ELSE /\ entry.message.login = None
           /\ Enforce /\ entry.verdict.parses =>
                entry.verdict.dmarcPass \/ entry.verdict.policy = "none"
           /\ \A i \in DOMAIN entry.message.rcpts :
                LET r == entry.message.rcpts[i].to
                    mine == {a \in ToSet(Accounts) : DomainOf[a.address] = DomainOf[r]}
                IN  /\ DomainOf[r] \in Hosted
                    /\ \/ [address |-> r, enabled |-> TRUE] \in mine
                       \/ r \in Forwards /\ "forward" \in entry.targets
                       \/ mine = {}
==============================================================================
