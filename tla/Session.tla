------------------------------- MODULE Session -------------------------------
(***************************************************************************)
(* One SMTP session as the server sees it (server/inbound/session.rs,      *)
(* `serve`): EHLO, MAIL, RCPT, DATA in order, any number of messages, an   *)
(* upgrade to TLS in the middle, logins, and a client that may send lines  *)
(* ahead of the replies.                                                   *)
(*                                                                         *)
(* The connection is the sequence of lines the client has sent and the     *)
(* session has not consumed; of these the first `buffered` sit in the      *)
(* session's BufReader.  What a line says is settled when it is read, so   *)
(* a line is just the channel it was sent on.  Every piece of state the    *)
(* session learns is stored with the channel it was read from, every       *)
(* recipient with the MAIL it was named under.                             *)
(***************************************************************************)
EXTENDS Naturals, Sequences

CONSTANTS
  Recipients,    \* the recipients clients name
  Deliverable,   \* those policy.accept_recipient accepts
  HasTls,        \* STARTTLS is configured
  HasAuth,       \* accounts are configured
  HasDoor,       \* incoming mail is assessed (SPF, DKIM, DMARC)
  MaxRcpt,       \* MAX_RCPT, the most recipients of one message
  None,          \* Option::None
  MaxMails,      \* bound: MAIL commands the session takes
  MaxWire        \* bound: lines sent and not consumed

ASSUME SessionAssumption ==
  /\ Deliverable \subseteq Recipients
  /\ HasTls \in BOOLEAN /\ HasAuth \in BOOLEAN /\ HasDoor \in BOOLEAN
  /\ MaxRcpt \in Nat \ {0} /\ MaxMails \in Nat /\ MaxWire \in Nat
  /\ None \notin {"clear", "tls"}

VARIABLES
  wire,          \* lines sent and not consumed, each the channel it came on
  buffered,      \* how many of them the BufReader holds
  onTls,
  phase,         \* where `serve` awaits
  greeted,
  helo,          \* helo_name: the channel the last EHLO came on
  login,         \* authenticated: the channel the credentials came on
  mailFrom,
  rcpts,
  oversize,      \* read_payload's `over`
  userOk,        \* AUTH LOGIN: the user name was a good one
  mails,         \* history: MAIL commands taken
  last,          \* history: the message handed to commit last
  commits        \* history: commits[i] counts the messages handed over for
                 \*   the i-th MAIL

connection == <<wire, buffered>>
client == <<onTls, greeted, helo, login>>
flags == <<oversize, userOk>>
envelope == <<mailFrom, rcpts>>
history == <<mails, last, commits>>
vars == <<connection, phase, client, flags, envelope, history>>

Channel == {"clear", "tls"}

Now == IF onTls THEN "tls" ELSE "clear"

Sender == [id : 1 .. MaxMails, ch : Channel]

Rcpt == [to : Recipients, of : 1 .. MaxMails, ch : Channel]

Message == [from : Sender, rcpts : Seq(Rcpt), helo : Channel \cup {None},
            login : Channel \cup {None}, ch : Channel]

Asking == {"authPlain", "authUser", "authPass"}

Phase == {"command", "data", "door", "commit", "handshake", "closed"} \cup Asking

Init ==
  /\ wire = <<>> /\ buffered = 0
  /\ onTls = FALSE
  /\ phase = "command"
  /\ greeted = FALSE /\ helo = None /\ login = None
  /\ mailFrom = None /\ rcpts = <<>>
  /\ oversize = FALSE /\ userOk = FALSE
  /\ mails = 0 /\ last = None
  /\ commits = [i \in 1 .. MaxMails |-> 0]

Forget == mailFrom' = None /\ rcpts' = <<>>

------------------------------------------------------------------------------
\* The client sends a line, whatever it has read of the replies.
SendLine ==
  /\ phase # "closed" /\ Len(wire) < MaxWire
  /\ wire' = Append(wire, Now)
  /\ UNCHANGED <<buffered, phase, client, flags, envelope, history>>

\* The BufReader, once empty, takes what has arrived.
Fill ==
  /\ phase \in {"command", "data"} \cup Asking
  /\ buffered = 0 /\ wire # <<>>
  /\ buffered' \in 1 .. Len(wire)
  /\ UNCHANGED <<wire, phase, client, flags, envelope, history>>

\* read_line, read_auth_response and read_payload consume one line.
ReadLine(at) ==
  /\ phase = at /\ buffered > 0
  /\ wire' = Tail(wire)
  /\ buffered' = buffered - 1

Came == Head(wire)

\* The client is gone, or a reply cannot be written: the session ends.
Drop ==
  /\ phase # "closed"
  /\ phase' = "closed"
  /\ UNCHANGED <<connection, client, flags, envelope, history>>

------------------------------------------------------------------------------
Ehlo ==
  /\ ReadLine("command")
  /\ greeted' = TRUE
  /\ helo' = Came
  /\ Forget
  /\ UNCHANGED <<phase, onTls, login, flags, history>>

\* Variant: the recipients of an earlier MAIL stay.
MailFromKeeping ==
  /\ ReadLine("command")
  /\ greeted
  /\ mails < MaxMails
  /\ mails' = mails + 1
  /\ mailFrom' = [id |-> mails + 1, ch |-> Came]
  /\ UNCHANGED <<phase, client, flags, rcpts, last, commits>>

MailFrom ==
  /\ ReadLine("command")
  /\ greeted
  /\ mails < MaxMails
  /\ mails' = mails + 1
  /\ mailFrom' = [id |-> mails + 1, ch |-> Came]
  /\ rcpts' = <<>>
  /\ UNCHANGED <<phase, client, flags, last, commits>>

\* A client that has logged in may name anyone.
RcptTo(r) ==
  /\ ReadLine("command")
  /\ mailFrom # None
  /\ Len(rcpts) < MaxRcpt
  /\ login # None \/ r \in Deliverable
  /\ rcpts' = Append(rcpts, [to |-> r, of |-> mailFrom.id, ch |-> Came])
  /\ UNCHANGED <<phase, client, flags, mailFrom, history>>

Data ==
  /\ ReadLine("command")
  /\ rcpts # <<>>
  /\ phase' = "data"
  /\ oversize' = FALSE
  /\ UNCHANGED <<client, userOk, envelope, history>>

Rset ==
  /\ ReadLine("command")
  /\ Forget
  /\ UNCHANGED <<phase, client, flags, history>>

\* NOOP, and every command that earns no more than a refusal.
NoEffect ==
  /\ ReadLine("command")
  /\ UNCHANGED <<phase, client, flags, envelope, history>>

\* QUIT, or a line too long for a command.
Quit ==
  /\ ReadLine("command")
  /\ phase' = "closed"
  /\ UNCHANGED <<client, flags, envelope, history>>

------------------------------------------------------------------------------
\* A line of the body; it may be the one that exceeds MAX_MESSAGE, and the
\* rest is then read and dropped.
PayloadLine ==
  /\ ReadLine("data")
  /\ oversize' \in {oversize, TRUE}
  /\ UNCHANGED <<phase, client, userOk, envelope, history>>

\* The line with the single dot.
PayloadEnd ==
  /\ ReadLine("data")
  /\ ~ oversize
  /\ phase' = IF HasDoor /\ login = None THEN "door" ELSE "commit"
  /\ UNCHANGED <<client, flags, envelope, history>>

PayloadTooBig ==
  /\ ReadLine("data")
  /\ oversize
  /\ Forget
  /\ phase' = "command"
  /\ UNCHANGED <<client, flags, history>>

DoorPasses ==
  /\ phase = "door"
  /\ phase' = "commit"
  /\ UNCHANGED <<connection, client, flags, envelope, history>>

DoorRefuses ==
  /\ phase = "door"
  /\ Forget
  /\ phase' = "command"
  /\ UNCHANGED <<connection, client, flags, history>>

\* The envelope is taken, whatever commit answers.
HandOver ==
  /\ phase = "commit"
  /\ last' = [from |-> mailFrom, rcpts |-> rcpts, helo |-> helo, login |-> login,
              ch |-> Now]
  /\ commits' = [commits EXCEPT ![mailFrom.id] = @ + 1]
  /\ Forget
  /\ phase' = "command"
  /\ UNCHANGED <<connection, client, flags, mails>>

------------------------------------------------------------------------------
\* Variant: what is buffered behind STARTTLS is not looked at.
StartTlsPipelined ==
  /\ ReadLine("command")
  /\ HasTls /\ ~ onTls
  /\ phase' = "handshake"
  /\ UNCHANGED <<client, flags, envelope, history>>

\* Lines already buffered behind STARTTLS came in the clear: hang up.
StartTls ==
  /\ ReadLine("command")
  /\ HasTls /\ ~ onTls
  /\ phase' = IF buffered' = 0 THEN "handshake" ELSE "closed"
  /\ UNCHANGED <<client, flags, envelope, history>>

\* Variant: the client need not greet again.
HandshakeGreeted ==
  /\ phase = "handshake" /\ Len(wire) = buffered
  /\ wire' = <<>> /\ buffered' = 0
  /\ onTls' = TRUE
  /\ login' = None
  /\ Forget
  /\ phase' = "command"
  /\ UNCHANGED <<greeted, helo, flags, history>>

\* The handshake succeeds only if nothing but the client's hello is in the
\* socket; a clear line there makes it fail (Drop).  into_inner drops what the
\* BufReader holds.  helo_name is the one thing not forgotten.
Handshake ==
  /\ phase = "handshake" /\ Len(wire) = buffered
  /\ wire' = <<>> /\ buffered' = 0
  /\ onTls' = TRUE
  /\ greeted' = FALSE /\ login' = None
  /\ Forget
  /\ phase' = "command"
  /\ UNCHANGED <<helo, flags, history>>

\* Variant: credentials are taken in the clear.
MayAuthInClear == HasAuth /\ login = None

MayAuth == HasAuth /\ onTls /\ login = None

\* AUTH PLAIN with the right credentials on the same line.
AuthInline ==
  /\ ReadLine("command")
  /\ MayAuth
  /\ login' = Came
  /\ UNCHANGED <<phase, onTls, greeted, helo, flags, envelope, history>>

\* AUTH PLAIN or AUTH LOGIN: the session asks and awaits the answer.
AuthAsk ==
  /\ ReadLine("command")
  /\ MayAuth
  /\ phase' \in {"authPlain", "authUser"}
  /\ UNCHANGED <<client, flags, envelope, history>>

AuthUser ==
  /\ ReadLine("authUser")
  /\ phase' = "authPass"
  /\ userOk' \in BOOLEAN
  /\ UNCHANGED <<client, oversize, envelope, history>>

AuthSucceeds ==
  /\ ReadLine("authPlain") \/ (ReadLine("authPass") /\ userOk)
  /\ login' = Came
  /\ phase' = "command"
  /\ UNCHANGED <<onTls, greeted, helo, flags, envelope, history>>

\* Cancelled, malformed or wrong.
AuthFails ==
  /\ \E at \in Asking : ReadLine(at)
  /\ phase' = "command"
  /\ UNCHANGED <<client, flags, envelope, history>>

------------------------------------------------------------------------------
Next ==
  \/ SendLine \/ Fill \/ Drop
  \/ Ehlo \/ MailFrom \/ Data \/ Rset \/ NoEffect \/ Quit
  \/ \E r \in Recipients : RcptTo(r)
  \/ PayloadLine \/ PayloadEnd \/ PayloadTooBig
  \/ DoorPasses \/ DoorRefuses \/ HandOver
  \/ StartTls \/ Handshake
  \/ AuthInline \/ AuthAsk \/ AuthUser \/ AuthSucceeds \/ AuthFails

Spec == Init /\ [][Next]_vars

------------------------------------------------------------------------------
TypeOK ==
  /\ wire \in Seq(Channel)
  /\ buffered \in 0 .. Len(wire)
  /\ onTls \in BOOLEAN
  /\ phase \in Phase
  /\ greeted \in BOOLEAN
  /\ helo \in Channel \cup {None}
  /\ login \in Channel \cup {None}
  /\ mailFrom \in Sender \cup {None}
  /\ rcpts \in Seq(Rcpt)
  /\ oversize \in BOOLEAN /\ userOk \in BOOLEAN
  /\ mails \in 0 .. MaxMails
  /\ last \in Message \cup {None}
  /\ commits \in [1 .. MaxMails -> Nat]

\* Never an open relay: a message handed to commit without a login names only
\* recipients the policy accepts; one handed over as a submission, to be relayed
\* anywhere, rests on credentials read inside TLS.
RelayNeedsLogin ==
  last # None =>
    IF last.login = None
      THEN \A i \in DOMAIN last.rcpts : last.rcpts[i].to \in Deliverable
      ELSE last.login = "tls" /\ last.ch = "tls"

\* "Forget everything learned before TLS": sender, recipients and the announced
\* name of a message were all read on the channel the message itself came on.
\* The announced name is not reset by STARTTLS; it is fresh because MAIL is
\* refused until the client has said EHLO again.
OneChannel ==
  last # None =>
    /\ last.from.ch = last.ch
    /\ last.helo = last.ch
    /\ \A i \in DOMAIN last.rcpts : last.rcpts[i].ch = last.ch

\* A message's recipients are those named since its own MAIL, at least one and
\* at most MaxRcpt, and no MAIL yields two messages: an envelope survives no
\* EHLO, RSET, refusal, oversize body or hand-over.
OneEnvelope ==
  /\ last # None =>
       /\ Len(last.rcpts) \in 1 .. MaxRcpt
       /\ \A i \in DOMAIN last.rcpts : last.rcpts[i].of = last.from.id
  /\ \A i \in 1 .. MaxMails : commits[i] <= 1

\* A line sent ahead in the clear is read in the clear or ends the session: the
\* upgrade to TLS neither swallows one nor carries it over, however the client
\* pipelines and wherever the buffer happens to end.
CleanUpgrade == [][~ onTls /\ onTls' => wire = <<>>]_vars
==============================================================================
