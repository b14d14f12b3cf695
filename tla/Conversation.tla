---------------------------- MODULE Conversation -----------------------------
(***************************************************************************)
(* The client's side of one SMTP dialogue (send/conversation.rs): opening, *)
(* STARTTLS, AUTH, envelope, payload, goodbye, in the four forms `deliver`,*)
(* `deliver_with_starttls`, `submit` and `submit_with_starttls`.           *)
(*                                                                         *)
(* The server answers each line as it likes, may announce that it is       *)
(* shutting down at any moment, and the connection may be cut between any  *)
(* two steps: before a line arrives, or after the server has acted on it   *)
(* and before its reply arrives.                                           *)
(***************************************************************************)
EXTENDS Naturals, Sequences

CONSTANTS
  NRcpt,    \* recipients of the envelope
  None      \* no outcome yet, no line under way

VARIABLES
  mode,       \* which of the four functions runs
  at,         \* the line to say or the answer awaited
  sent,       \* the line has been written
  named,      \* RCPTs the server has answered well, as the client counts
  onTls,
  outcome,
  request,    \* the line on its way to the server
  replies,    \* the replies on their way back
  link,       \* "up", "shut" by the server or "cut"
  accepted,   \* server: the recipients it has said yes to
  taken,      \* server: how often it took the message
  offered,    \* server: it offered STARTTLS
  exposed     \* history: the secrets and payloads written, with their channel

client == <<mode, at, sent, named, onTls, outcome, exposed>>
wire == <<request, replies, link>>
server == <<accepted, taken, offered>>
vars == <<client, wire, server>>

Mode == {"deliver", "deliverTls", "submit", "submitTls"}
WithStartTls == {"deliverTls", "submitTls"}
Submitting == {"submit", "submitTls"}

Step == {"greeting", "EHLO", "STARTTLS", "AUTH PLAIN", "AUTH LOGIN", "user",
         "password", "MAIL", "RCPT", "DATA", "payload", "QUIT"}
Point == Step \cup {"handshake", "done"}

Private == {"AUTH PLAIN", "password", "payload"}   \* lines not for every ear

Now == IF onTls THEN "tls" ELSE "clear"

\* What an EHLO reply may list; "LOGIN" stands for an AUTH line without PLAIN.
Capability == {"STARTTLS", "LOGIN"}

Reply == [severity : 2 .. 5, capabilities : SUBSET Capability]

Outcome == {"Delivered", "Deferred", "Rejected", "Wire"}

ASSUME ConversationAssumption ==
  /\ NRcpt \in Nat \ {0}
  /\ None \notin Outcome \cup Point

Init ==
  /\ mode \in Mode
  /\ onTls \in IF mode \in WithStartTls THEN {FALSE} ELSE BOOLEAN
  /\ at = "greeting" /\ sent = TRUE /\ named = 0
  /\ outcome = None
  /\ request = "greeting" /\ replies = <<>> /\ link = "up"
  /\ accepted = 0 /\ taken = 0 /\ offered = FALSE
  /\ exposed = {}

------------------------------------------------------------------------------
(***************************************************************************)
(* The server and the network.                                             *)
(***************************************************************************)

Answer(reply) ==
  /\ request # None
  /\ request = "payload" => reply.severity # 3
  /\ request # "EHLO" => reply.capabilities = {}
  /\ request' = None
  /\ replies' = IF link = "up" THEN Append(replies, reply) ELSE replies
  /\ accepted' = CASE request = "RCPT" /\ reply.severity = 2 -> accepted + 1
                   [] request = "MAIL"                       -> 0
                   [] OTHER                                  -> accepted
  /\ taken' = IF request = "payload" /\ reply.severity = 2 THEN taken + 1 ELSE taken
  /\ offered' = (offered \/ "STARTTLS" \in reply.capabilities)
  /\ UNCHANGED <<client, link>>

\* "421 closing": a server may say so at any time, and hears no more.
Shutdown ==
  /\ link = "up"
  /\ link' = "shut"
  /\ request' = None
  /\ replies' = Append(replies, [severity |-> 4, capabilities |-> {}])
  /\ UNCHANGED <<client, server>>

\* The connection is lost, with or without the replies under way; the server
\* may still act on a line that has reached it.
Cut ==
  /\ link = "up"
  /\ link' = "cut"
  /\ request' \in {request, None}
  /\ replies' \in {replies, <<>>}
  /\ UNCHANGED <<client, server>>

------------------------------------------------------------------------------
(***************************************************************************)
(* The client.                                                             *)
(***************************************************************************)

\* send_line, and write_transparent_payload: to a server that is gone the
\* line may still seem to be written.
Say ==
  /\ at \in Step /\ ~ sent
  /\ sent' = TRUE
  /\ request' = IF link = "up" THEN at ELSE None
  /\ exposed' = IF at \in Private THEN exposed \cup {<<at, Now>>} ELSE exposed
  /\ UNCHANGED <<mode, at, named, onTls, outcome, replies, link, server>>

\* Variant: the goodbye insists on an answer.
FailsUnlessParting ==
  /\ at \in Step \ {"QUIT"}
  /\ \/ link # "up" /\ (sent => replies = <<>>)
     \/ sent /\ replies # <<>>
  /\ at' = "done"
  /\ outcome' = IF outcome = None THEN "Wire" ELSE outcome
  /\ UNCHANGED <<mode, sent, named, onTls, exposed, wire, server>>

\* A write or a read fails, or the reply read is not SMTP: the dialogue ends,
\* or no more than the goodbye.
Fails ==
  /\ at \in Step
  /\ \/ link # "up" /\ (sent => replies = <<>>)
     \/ sent /\ replies # <<>>
  /\ at' = "done"
  /\ outcome' = IF outcome = None THEN "Wire" ELSE outcome
  /\ UNCHANGED <<mode, sent, named, onTls, exposed, wire, server>>

\* The verdict that counts as "go on".
Expected(step) == IF step \in {"AUTH LOGIN", "user", "DATA"} THEN 3 ELSE 2

\* authenticate: PLAIN unless the server lists other mechanisms only.
Authenticate(capabilities) ==
  IF "LOGIN" \in capabilities THEN "AUTH LOGIN" ELSE "AUTH PLAIN"

\* Variant: submission falls back to plaintext as delivery does.
AfterEhloLax(capabilities) ==
  IF mode \in WithStartTls /\ ~ onTls /\ "STARTTLS" \in capabilities
    THEN "STARTTLS"
    ELSE IF mode \in Submitting THEN Authenticate(capabilities) ELSE "MAIL"

\* Where an EHLO that was answered well leads; None: submission is called off.
AfterEhlo(capabilities) ==
  IF mode \in WithStartTls /\ ~ onTls /\ "STARTTLS" \in capabilities
    THEN "STARTTLS"
    ELSE IF mode = "submitTls" /\ ~ onTls THEN None
    ELSE IF mode \in Submitting THEN Authenticate(capabilities) ELSE "MAIL"

\* The loop over the recipients.
AfterRcpt == IF named + 1 < NRcpt THEN "RCPT" ELSE "DATA"

\* The sentence after the one just answered well.
Follow(capabilities) ==
  CASE at = "greeting"                      -> "EHLO"
    [] at = "EHLO"                          -> AfterEhlo(capabilities)
    [] at = "STARTTLS"                      -> "handshake"
    [] at = "AUTH LOGIN"                    -> "user"
    [] at = "user"                          -> "password"
    [] at \in {"AUTH PLAIN", "password"}    -> "MAIL"
    [] at = "MAIL"                          -> "RCPT"
    [] at = "RCPT"                          -> AfterRcpt
    [] at = "DATA"                          -> "payload"

\* read_reply: the next reply is taken for the answer to the last line.
ReadReply ==
  /\ sent /\ replies # <<>>
  /\ replies' = Tail(replies)
  /\ sent' = FALSE
  /\ UNCHANGED <<mode, onTls, exposed, request, link, server>>

Goodbye(verdict) == outcome' = verdict /\ at' = "QUIT"

\* The answer hoped for: on to the next sentence.
Heard ==
  /\ ReadReply
  /\ at \in Step \ {"payload", "QUIT"}
  /\ Head(replies).severity = Expected(at)
  /\ LET next == Follow(Head(replies).capabilities) IN
       next # None /\ at' = next
  /\ named' = IF at = "RCPT" THEN named + 1 ELSE named
  /\ UNCHANGED outcome

\* submit_with_starttls turns away a server that does not offer STARTTLS.
NoTlsOffered ==
  /\ ReadReply
  /\ at = "EHLO" /\ Head(replies).severity = 2
  /\ Follow(Head(replies).capabilities) = None
  /\ Goodbye("Rejected")
  /\ UNCHANGED named

\* Variant: a temporary refusal of the letter passes for success.
AcceptedLax ==
  /\ ReadReply
  /\ at = "payload" /\ Head(replies).severity \in {2, 4}
  /\ Goodbye("Delivered")
  /\ UNCHANGED named

\* Their 250 after the payload.
Accepted ==
  /\ ReadReply
  /\ at = "payload" /\ Head(replies).severity = 2
  /\ Goodbye("Delivered")
  /\ UNCHANGED named

\* refusal: any other verdict ends the dialogue, and only 4xx invites a retry.
Refused ==
  /\ ReadReply
  /\ at \in Step \ {"QUIT"}
  /\ Head(replies).severity # Expected(at)
  /\ Goodbye(IF Head(replies).severity = 4 THEN "Deferred" ELSE "Rejected")
  /\ UNCHANGED named

\* say_goodbye: whatever the server says, the outcome is settled.
Parted ==
  /\ ReadReply
  /\ at = "QUIT"
  /\ at' = "done"
  /\ UNCHANGED <<named, outcome>>

\* `upgrade` succeeds; the server, which has said nothing more in the clear, is
\* introduced to anew.
Handshake ==
  /\ at = "handshake" /\ link = "up"
  /\ onTls' = TRUE
  /\ at' = "EHLO"
  /\ UNCHANGED <<mode, sent, named, outcome, exposed, wire, server>>

HandshakeFails ==
  /\ at = "handshake"
  /\ at' = "done"
  /\ outcome' = "Wire"
  /\ UNCHANGED <<mode, sent, named, onTls, exposed, wire, server>>

------------------------------------------------------------------------------
Client ==
  \/ Say \/ Fails
  \/ Heard \/ NoTlsOffered \/ Accepted \/ Refused \/ Parted
  \/ Handshake \/ HandshakeFails

Next ==
  \/ Client
  \/ \E reply \in Reply : Answer(reply)
  \/ Shutdown \/ Cut

Spec == Init /\ [][Next]_vars

\* read_reply has no deadline: the dialogue ends only if the server answers
\* each line or the connection is lost.
FairSpec ==
  /\ Spec
  /\ WF_vars(Client)
  /\ WF_vars(Shutdown \/ Cut \/ \E reply \in Reply : Answer(reply))

------------------------------------------------------------------------------
TypeOK ==
  /\ mode \in Mode
  /\ at \in Point
  /\ sent \in BOOLEAN /\ onTls \in BOOLEAN /\ offered \in BOOLEAN
  /\ named \in 0 .. NRcpt /\ accepted \in 0 .. NRcpt
  /\ outcome \in Outcome \cup {None}
  /\ request \in Step \cup {None}
  /\ replies \in Seq(Reply)
  /\ link \in {"up", "shut", "cut"}
  /\ taken \in 0 .. 1
  /\ exposed \subseteq Private \X {"clear", "tls"}

\* A server never takes the message for some of the recipients only: the letter
\* follows an envelope of which every recipient was answered well.
WholeEnvelope == taken > 0 => accepted = NRcpt

\* Opportunistic TLS for the letter, required TLS for the password: nothing
\* private crosses in the clear where STARTTLS was to be had, and a submission
\* that insists on TLS writes neither password nor letter without it, whatever
\* is refused, lost or fails on the way.
NothingInClear ==
  \A x \in exposed :
    x[2] = "clear" => /\ mode # "submitTls"
                      /\ mode = "deliverTls" => ~ offered

\* The outcome is true: "Delivered" after the server's own word, a refusal only
\* when the server does not have the message.
Attempted == INSTANCE Attempt

ImplementsAttempt == Attempted!Spec

\* Every dialogue ends.
Ends == <>(at = "done")
==============================================================================
