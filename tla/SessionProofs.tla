---------------------------- MODULE SessionProofs ----------------------------
(***************************************************************************)
(* Theorems of modules Session and Inbound, for every set of recipients, every policy,  *)
(* every configuration and every bound.                                    *)
(*                                                                         *)
(* SessionInv is inductive: it ties everything the session remembers to    *)
(* the channel it is on now, every recipient to the MAIL in force, and     *)
(* what was handed over to the MAILs already over.  A session with its     *)
(* parts (module Inbound) is a session, and GInv adds what they found out. *)
(***************************************************************************)
EXTENDS Inbound, SequenceTheorems, WellFoundedInduction, TLAPS

WithMessage == {"data", "door", "commit"}

\* What is still unread, who has logged in and where the session waits.
Link ==
  /\ \A i \in DOMAIN wire : wire[i] = Now
  /\ login # None => login = "tls" /\ onTls
  /\ phase \in Asking => onTls
  /\ phase = "handshake" => ~ onTls /\ buffered = 0
  /\ greeted => helo = Now

\* The sender is that of the last MAIL, which came after a greeting.
SenderInForce ==
  mailFrom # None => /\ greeted
                     /\ mailFrom.ch = Now
                     /\ mailFrom.id = mails
                     /\ commits[mails] = 0

\* The recipients were named under that MAIL, and the policy or a login
\* stands behind each.
RcptsInForce ==
  /\ rcpts # <<>> => mailFrom # None
  /\ Len(rcpts) <= MaxRcpt
  /\ \A i \in DOMAIN rcpts :
       /\ rcpts[i].ch = Now
       /\ rcpts[i].of = mails
       /\ login = None => rcpts[i].to \in Deliverable
  /\ phase \in WithMessage => rcpts # <<>>

\* No MAIL to come has a message, none so far has two.
Commits ==
  \A i \in 1 .. MaxMails : commits[i] <= 1 /\ (i > mails => commits[i] = 0)

LastMessage ==
  last # None =>
    /\ Len(last.rcpts) \in 1 .. MaxRcpt
    /\ \A i \in DOMAIN last.rcpts : last.rcpts[i].of = last.from.id

SessionInv ==
  /\ TypeOK
  /\ Link
  /\ SenderInForce
  /\ RcptsInForce
  /\ Commits
  /\ LastMessage
  /\ RelayNeedsLogin
  /\ OneChannel

------------------------------------------------------------------------------
LEMMA InitSession == Init => SessionInv
  <1> SUFFICES ASSUME Init PROVE SessionInv
    OBVIOUS
  <1> USE SessionAssumption DEF Init
  <1>1. TypeOK
    <2>1. wire \in Seq(Channel) /\ rcpts \in Seq(Rcpt) /\ buffered \in 0 .. Len(wire)
      BY EmptySeq
    <2>2. commits \in [1 .. MaxMails -> Nat]
      OBVIOUS
    <2>3. onTls \in BOOLEAN /\ greeted \in BOOLEAN /\ oversize \in BOOLEAN /\ userOk \in BOOLEAN
      OBVIOUS
    <2>4. phase \in Phase /\ mails \in 0 .. MaxMails
      BY DEF Phase
    <2>5. /\ helo \in Channel \cup {None} /\ login \in Channel \cup {None}
          /\ mailFrom \in Sender \cup {None} /\ last \in Message \cup {None}
      OBVIOUS
    <2> HIDE DEF Init
    <2> QED
      BY <2>1, <2>2, <2>3, <2>4, <2>5 DEF TypeOK
  <1>2. Link /\ Commits
    BY DEF Link, Commits, Asking
  <1>3. SenderInForce /\ RcptsInForce
    BY DEF SenderInForce, RcptsInForce, WithMessage
  <1>4. LastMessage /\ RelayNeedsLogin /\ OneChannel
    BY DEF LastMessage, RelayNeedsLogin, OneChannel
  <1> QED
    BY <1>1, <1>2, <1>3, <1>4 DEF SessionInv

\* A line that is read leaves the lines behind it as they were.
LEMMA ReadLineTypes ==
  ASSUME TypeOK, NEW at, ReadLine(at)
  PROVE  /\ wire' \in Seq(Channel)
         /\ buffered' \in 0 .. Len(wire')
         /\ Came = wire[1] /\ Came \in Channel /\ 1 \in DOMAIN wire
         /\ Len(wire') = Len(wire) - 1
         /\ \A i \in DOMAIN wire' : i + 1 \in DOMAIN wire /\ wire'[i] = wire[i + 1]
  <1>1. wire \in Seq(Channel) /\ buffered \in 1 .. Len(wire)
    BY DEF TypeOK, ReadLine
  <1>2. wire # <<>>
    BY <1>1
  <1>3. Tail(wire) \in Seq(Channel) /\ Len(Tail(wire)) = Len(wire) - 1
        /\ Head(wire) = wire[1] /\ Head(wire) \in Channel
    BY <1>1, <1>2, HeadTailProperties
  <1>4. \A i \in 1 .. Len(wire) - 1 : Tail(wire)[i] = wire[i + 1]
    BY <1>1, <1>2, HeadTailProperties
  <1> QED
    BY <1>1, <1>3, <1>4 DEF ReadLine, Came

\* Forgetting the envelope leaves nothing to go wrong in it.
LEMMA ForgetInForce ==
  ASSUME Forget, phase' \notin WithMessage, MaxRcpt \in Nat
  PROVE  SenderInForce' /\ RcptsInForce'
  BY DEF Forget, SenderInForce, RcptsInForce

\* The parts that rest on the channel, the login and the envelope alone.
LEMMA SameEnvelope ==
  ASSUME SenderInForce, RcptsInForce, UNCHANGED <<onTls, greeted, login, envelope, mails, commits>>,
         phase' \in WithMessage => phase \in WithMessage \/ rcpts # <<>>
  PROVE  SenderInForce' /\ RcptsInForce'
  BY DEF SenderInForce, RcptsInForce, envelope, Now

\* The parts that rest on the history alone.
LEMMA SameHistory ==
  ASSUME Commits, LastMessage, RelayNeedsLogin, OneChannel, UNCHANGED history
  PROVE  Commits' /\ LastMessage' /\ RelayNeedsLogin' /\ OneChannel'
  BY DEF Commits, LastMessage, RelayNeedsLogin, OneChannel, history

\* Reading a line on the channel in use keeps every line on that channel.
LEMMA ReadKeepsWire ==
  ASSUME TypeOK, Link, NEW at, ReadLine(at), UNCHANGED onTls
  PROVE  Came = Now /\ \A i \in DOMAIN wire' : wire'[i] = Now'
  BY ReadLineTypes DEF Link, Now

\* Steps that read a line and settle no more than where the session waits.
LEMMA ReadingKeeps ==
  ASSUME SessionInv, NEW at, ReadLine(at), UNCHANGED <<onTls, greeted, helo, envelope, history>>,
         oversize' \in BOOLEAN, userOk' \in BOOLEAN, phase' \in Phase,
         login' = login \/ (login' = Came /\ onTls),
         phase' \in Asking => onTls,
         phase' = "handshake" => ~ onTls /\ buffered' = 0,
         phase' \in WithMessage => rcpts # <<>>
  PROVE  SessionInv'
  <1> USE DEF SessionInv
  <1>0. Came = Now /\ \A i \in DOMAIN wire' : wire'[i] = Now'
    BY ReadKeepsWire
  <1>1. TypeOK'
    BY ReadLineTypes DEF TypeOK, envelope, history
  <1>2. Link'
    BY <1>0 DEF Link, Now, Asking, Channel
  <1>3. SenderInForce' /\ RcptsInForce'
    BY SessionAssumption, <1>0 DEF SenderInForce, RcptsInForce, envelope, history, Now, TypeOK, Channel
  <1>4. Commits' /\ LastMessage' /\ RelayNeedsLogin' /\ OneChannel'
    BY SameHistory
  <1> QED
    BY <1>1, <1>2, <1>3, <1>4

LEMMA ReadingSteps ==
  ASSUME SessionInv,
         \/ Data \/ NoEffect \/ Quit \/ PayloadLine \/ PayloadEnd \/ StartTls
         \/ AuthInline \/ AuthAsk \/ AuthUser \/ AuthSucceeds \/ AuthFails
  PROVE  SessionInv'
  <1>0. TypeOK /\ Link /\ RcptsInForce
    BY DEF SessionInv
  <1> USE <1>0 DEF client, flags, Phase, Asking, WithMessage
  <1>1. CASE Data
    BY <1>1, ReadingKeeps DEF Data, TypeOK
  <1>2. CASE NoEffect
    BY <1>2, ReadingKeeps DEF NoEffect, TypeOK, ReadLine
  <1>3. CASE Quit
    BY <1>3, ReadingKeeps DEF Quit, TypeOK
  <1>4. CASE PayloadLine
    BY <1>4, ReadingKeeps DEF PayloadLine, TypeOK, ReadLine, RcptsInForce
  <1>5. CASE PayloadEnd
    BY <1>5, ReadingKeeps DEF PayloadEnd, TypeOK, ReadLine, RcptsInForce
  <1>6. CASE StartTls
    BY <1>6, ReadingKeeps DEF StartTls, TypeOK
  <1>7. CASE AuthInline
    BY <1>7, ReadingKeeps DEF AuthInline, MayAuth, TypeOK, ReadLine
  <1>8. CASE AuthAsk
    BY <1>8, ReadingKeeps DEF AuthAsk, MayAuth, TypeOK
  <1>9. CASE AuthUser
    BY <1>9, ReadingKeeps DEF AuthUser, TypeOK, ReadLine, Link
  <1>10. CASE AuthSucceeds
    <2>1. PICK at \in Asking : ReadLine(at)
      BY <1>10 DEF AuthSucceeds
    <2> QED
      BY <1>10, <2>1, ReadingKeeps DEF AuthSucceeds, TypeOK, ReadLine, Link
  <1>11. CASE AuthFails
    <2>1. PICK at \in Asking : ReadLine(at)
      BY <1>11 DEF AuthFails
    <2> QED
      BY <1>11, <2>1, ReadingKeeps DEF AuthFails, TypeOK
  <1> QED
    BY <1>1, <1>2, <1>3, <1>4, <1>5, <1>6, <1>7, <1>8, <1>9, <1>10, <1>11

\* Steps that end an envelope on the same channel.
LEMMA ForgettingSteps ==
  ASSUME SessionInv, Ehlo \/ Rset \/ PayloadTooBig \/ DoorRefuses
  PROVE  SessionInv'
  <1> USE DEF SessionInv, client, flags
  <1>1. /\ Forget /\ UNCHANGED <<onTls, login, history>> /\ oversize' = oversize /\ userOk' = userOk
        /\ phase' = "command"
    BY DEF Ehlo, Rset, PayloadTooBig, DoorRefuses, ReadLine
  <1>2. \/ \E at \in {"command", "data"} : ReadLine(at)
        \/ UNCHANGED connection
    BY DEF Ehlo, Rset, PayloadTooBig, DoorRefuses
  <1>3. /\ wire' \in Seq(Channel) /\ buffered' \in 0 .. Len(wire')
        /\ \A i \in DOMAIN wire' : wire'[i] = Now'
    <2>1. CASE UNCHANGED connection
      BY <1>1, <2>1 DEF connection, Now, TypeOK, Link
    <2>2. CASE \E at \in {"command", "data"} : ReadLine(at)
      BY <1>1, <2>2, ReadLineTypes, ReadKeepsWire
    <2> QED
      BY <1>2, <2>1, <2>2
  <1>4. \/ UNCHANGED <<greeted, helo>>
        \/ greeted' = TRUE /\ helo' = Came /\ Came = Now
    BY ReadKeepsWire DEF Ehlo, Rset, PayloadTooBig, DoorRefuses
  <1>5. TypeOK'
    <2>1. rcpts' \in Seq(Rcpt) /\ mailFrom' = None
      BY <1>1, EmptySeq DEF Forget
    <2>2. greeted' \in BOOLEAN /\ helo' \in Channel \cup {None}
      BY <1>4 DEF TypeOK, Now, Channel
    <2> QED
      BY <1>1, <1>3, <2>1, <2>2 DEF TypeOK, Phase, history
  <1>6. Link'
    BY <1>1, <1>3, <1>4 DEF Link, Now, Asking
  <1>7. SenderInForce' /\ RcptsInForce'
    BY <1>1, SessionAssumption DEF Forget, SenderInForce, RcptsInForce, WithMessage
  <1>8. Commits' /\ LastMessage' /\ RelayNeedsLogin' /\ OneChannel'
    BY <1>1, SameHistory
  <1> QED
    BY <1>5, <1>6, <1>7, <1>8

\* The client and the door touch neither envelope nor history.
LEMMA OutsideSteps ==
  ASSUME SessionInv, SendLine \/ Fill \/ Drop \/ DoorPasses
  PROVE  SessionInv'
  <1> USE DEF SessionInv, client, flags, connection
  <1>1. /\ UNCHANGED <<client, flags, envelope, history>>
        /\ phase' \in {phase, "closed"} \/ (phase = "door" /\ phase' = "commit")
    BY DEF SendLine, Fill, Drop, DoorPasses
  <1>2. /\ wire' \in Seq(Channel) /\ buffered' \in 0 .. Len(wire')
        /\ \A i \in DOMAIN wire' : wire'[i] = Now'
        /\ phase' = "handshake" => buffered' = 0
    <2>1. CASE SendLine
      BY <2>1, AppendProperties DEF SendLine, TypeOK, Link, Now, Channel
    <2>2. CASE Fill
      BY <2>2 DEF Fill, TypeOK, Link, Now, Asking
    <2>3. CASE Drop \/ DoorPasses
      BY <2>3 DEF Drop, DoorPasses, TypeOK, Link, Now
    <2> QED
      BY <2>1, <2>2, <2>3
  <1>3. TypeOK'
    BY <1>1, <1>2 DEF TypeOK, Phase, envelope, history
  <1>4. Link'
    BY <1>1, <1>2 DEF Link, Now, Asking
  <1>5. SenderInForce' /\ RcptsInForce'
    BY <1>1 DEF SenderInForce, RcptsInForce, WithMessage, Now, envelope, history
  <1>6. Commits' /\ LastMessage' /\ RelayNeedsLogin' /\ OneChannel'
    BY <1>1, SameHistory
  <1> QED
    BY <1>3, <1>4, <1>5, <1>6

LEMMA MailFromKeeps ==
  ASSUME SessionInv, MailFrom
  PROVE  SessionInv'
  <1> USE DEF SessionInv, MailFrom
  <1>0. UNCHANGED <<onTls, phase, greeted, helo, login, oversize, userOk, last, commits>>
    BY DEF client, flags
  <1>1. Came = Now /\ \A i \in DOMAIN wire' : wire'[i] = Now'
    BY <1>0, ReadKeepsWire
  <1>2. phase = "command"
    BY DEF ReadLine
  <1>3. mails' \in 1 .. MaxMails /\ mails' = mails + 1 /\ Came \in Channel
    BY SessionAssumption, ReadLineTypes DEF TypeOK
  <1>4. mailFrom' = [id |-> mails', ch |-> Now'] /\ mailFrom' \in Sender /\ rcpts' = <<>>
    BY <1>0, <1>1, <1>3 DEF Sender, Now
  <1>5. TypeOK'
    BY <1>0, <1>3, <1>4, ReadLineTypes, EmptySeq DEF TypeOK
  <1>6. Link'
    BY <1>0, <1>1, <1>2 DEF Link, Now, Asking
  <1>7. commits'[mails'] = 0 /\ greeted'
    BY <1>0, <1>3 DEF Commits, TypeOK
  <1>8. SenderInForce' /\ RcptsInForce'
    BY <1>0, <1>2, <1>4, <1>7, SessionAssumption DEF SenderInForce, RcptsInForce, WithMessage
  <1>9. Commits' /\ LastMessage' /\ RelayNeedsLogin' /\ OneChannel'
    BY <1>0, <1>3 DEF Commits, LastMessage, RelayNeedsLogin, OneChannel, TypeOK
  <1> QED
    BY <1>5, <1>6, <1>8, <1>9

LEMMA RcptToKeeps ==
  ASSUME SessionInv, NEW r \in Recipients, RcptTo(r)
  PROVE  SessionInv'
  <1> USE DEF SessionInv, RcptTo
  <1>0. UNCHANGED <<onTls, phase, greeted, helo, login, oversize, userOk, mailFrom, mails, last, commits>>
    BY DEF client, flags, history
  <1>1. Came = Now /\ \A i \in DOMAIN wire' : wire'[i] = Now'
    BY <1>0, ReadKeepsWire
  <1>2. phase = "command"
    BY DEF ReadLine
  <1>3. mailFrom \in Sender /\ mailFrom.id = mails /\ mails \in 1 .. MaxMails /\ mailFrom.ch = Now
    BY DEF TypeOK, SenderInForce, Sender
  <1> DEFINE new == [to |-> r, of |-> mailFrom.id, ch |-> Came]
  <1>4. new \in Rcpt /\ new.to = r /\ new.of = mails /\ new.ch = Now'
    BY <1>0, <1>1, <1>3, ReadLineTypes DEF Rcpt, Now
  <1>5. rcpts' = Append(rcpts, new) /\ rcpts \in Seq(Rcpt)
    BY DEF TypeOK
  <1> HIDE DEF new
  <1>6. /\ rcpts' \in Seq(Rcpt) /\ Len(rcpts') = Len(rcpts) + 1
        /\ \A i \in 1 .. Len(rcpts) : rcpts'[i] = rcpts[i]
        /\ rcpts'[Len(rcpts) + 1] = new
    BY <1>4, <1>5, AppendProperties
  <1>7. TypeOK'
    BY <1>0, <1>6, ReadLineTypes DEF TypeOK
  <1>8. Link'
    BY <1>0, <1>1, <1>2 DEF Link, Now, Asking
  <1>9. SenderInForce'
    BY <1>0 DEF SenderInForce, Now
  <1>10. RcptsInForce'
    <2>1. Len(rcpts') <= MaxRcpt
      BY <1>5, <1>6, SessionAssumption
    <2>2. ASSUME NEW i \in DOMAIN rcpts'
          PROVE  rcpts'[i].ch = Now' /\ rcpts'[i].of = mails'
                 /\ (login' = None => rcpts'[i].to \in Deliverable)
      <3>1. i \in 1 .. Len(rcpts) \/ i = Len(rcpts) + 1
        BY <1>5, <1>6
      <3>2. CASE i = Len(rcpts) + 1
        BY <1>0, <1>4, <1>6, <3>2
      <3>3. CASE i \in 1 .. Len(rcpts)
        BY <1>0, <1>5, <1>6, <3>3 DEF RcptsInForce, Now
      <3> QED
        BY <3>1, <3>2, <3>3
    <2> QED
      BY <1>0, <1>2, <2>1, <2>2 DEF RcptsInForce, WithMessage
  <1>11. Commits' /\ LastMessage' /\ RelayNeedsLogin' /\ OneChannel'
    BY <1>0 DEF Commits, LastMessage, RelayNeedsLogin, OneChannel
  <1> QED
    BY <1>7, <1>8, <1>9, <1>10, <1>11

\* The message handed over is the envelope in force; its MAIL is spent.
LEMMA HandOverKeeps ==
  ASSUME SessionInv, HandOver
  PROVE  SessionInv'
  <1> USE DEF SessionInv, HandOver
  <1>0. /\ UNCHANGED <<wire, buffered, onTls, greeted, helo, login, oversize, userOk, mails>>
        /\ phase = "commit" /\ phase' = "command" /\ mailFrom' = None /\ rcpts' = <<>>
    BY DEF connection, client, flags, Forget
  <1>1. rcpts # <<>> /\ mailFrom # None
    BY <1>0 DEF RcptsInForce, WithMessage
  <1>2. /\ mailFrom \in Sender /\ mailFrom.id = mails /\ mails \in 1 .. MaxMails
        /\ mailFrom.ch = Now /\ helo = Now /\ commits[mails] = 0 /\ Now \in Channel
    BY <1>1 DEF TypeOK, SenderInForce, Link, Sender, Now, Channel
  <1> DEFINE m == [from |-> mailFrom, rcpts |-> rcpts, helo |-> helo, login |-> login, ch |-> Now]
  <1>3. /\ m \in Message /\ m.from = mailFrom /\ m.rcpts = rcpts /\ m.helo = helo
        /\ m.login = login /\ m.ch = Now
    BY <1>2 DEF Message, TypeOK
  <1>4. last' = m
    OBVIOUS
  <1> HIDE DEF m
  <1>5. commits' = [commits EXCEPT ![mails] = 1]
    BY <1>2
  <1>6. TypeOK'
    <2>1. rcpts' \in Seq(Rcpt) /\ phase' \in Phase /\ last' \in Message \cup {None}
      BY <1>0, <1>3, <1>4, EmptySeq DEF Phase
    <2>2. commits' \in [1 .. MaxMails -> Nat]
      <3>1. commits \in [1 .. MaxMails -> Nat]
        BY DEF TypeOK
      <3> HIDE DEF SessionInv, HandOver
      <3> QED
        BY <1>5, <3>1
    <2> HIDE DEF HandOver
    <2> QED
      BY <1>0, <2>1, <2>2 DEF TypeOK
  <1>7. Link'
    BY <1>0 DEF Link, Now, Asking
  <1>8. SenderInForce' /\ RcptsInForce'
    BY <1>0, SessionAssumption DEF SenderInForce, RcptsInForce, WithMessage
  <1>9. Commits'
    BY <1>0, <1>2, <1>5 DEF Commits, TypeOK
  <1>10. Len(rcpts) \in 1 .. MaxRcpt
    BY <1>1, SessionAssumption DEF RcptsInForce, TypeOK
  <1>11. LastMessage'
    BY <1>2, <1>3, <1>4, <1>10 DEF LastMessage, RcptsInForce
  <1>12. RelayNeedsLogin'
    BY <1>3, <1>4 DEF RelayNeedsLogin, RcptsInForce, Link, Now
  <1>13. OneChannel'
    BY <1>2, <1>3, <1>4 DEF OneChannel, RcptsInForce
  <1> QED
    BY <1>6, <1>7, <1>8, <1>9, <1>11, <1>12, <1>13

\* Nothing is left unread when the channel changes.
LEMMA HandshakeKeeps ==
  ASSUME SessionInv, Handshake
  PROVE  SessionInv' /\ wire = <<>>
  <1> USE DEF SessionInv, Handshake
  <1>0. /\ UNCHANGED <<helo, oversize, userOk, mails, last, commits>>
        /\ phase' = "command" /\ mailFrom' = None /\ rcpts' = <<>> /\ login' = None
    BY DEF flags, history, Forget
  <1>1. TypeOK'
    <2>1. /\ rcpts' \in Seq(Rcpt) /\ phase' \in Phase
          /\ wire' \in Seq(Channel) /\ buffered' \in 0 .. Len(wire')
      BY <1>0, EmptySeq DEF Phase
    <2>2. onTls' = TRUE /\ greeted' = FALSE
      OBVIOUS
    <2> HIDE DEF Handshake
    <2> QED
      BY <1>0, <2>1, <2>2 DEF TypeOK
  <1>2. Link'
    BY <1>0, SessionAssumption DEF Link, Asking
  <1>3. SenderInForce' /\ RcptsInForce'
    BY <1>0, SessionAssumption DEF SenderInForce, RcptsInForce, WithMessage
  <1>4. Commits' /\ LastMessage' /\ RelayNeedsLogin' /\ OneChannel'
    BY <1>0, SameHistory DEF history
  <1>5. wire = <<>>
    BY EmptySeq DEF Link, TypeOK
  <1> QED
    BY <1>1, <1>2, <1>3, <1>4, <1>5

LEMMA StepKeeps == SessionInv /\ [Next]_vars => SessionInv'
  <1> SUFFICES ASSUME SessionInv, [Next]_vars PROVE SessionInv'
    OBVIOUS
  <1>1. CASE SendLine \/ Fill \/ Drop \/ DoorPasses
    BY <1>1, OutsideSteps
  <1>2. CASE Ehlo \/ Rset \/ PayloadTooBig \/ DoorRefuses
    BY <1>2, ForgettingSteps
  <1>3. CASE \/ Data \/ NoEffect \/ Quit \/ PayloadLine \/ PayloadEnd \/ StartTls
             \/ AuthInline \/ AuthAsk \/ AuthUser \/ AuthSucceeds \/ AuthFails
    BY <1>3, ReadingSteps
  <1>4. CASE MailFrom
    BY <1>4, MailFromKeeps
  <1>5. CASE \E r \in Recipients : RcptTo(r)
    BY <1>5, RcptToKeeps
  <1>6. CASE HandOver
    BY <1>6, HandOverKeeps
  <1>7. CASE Handshake
    BY <1>7, HandshakeKeeps
  <1>8. CASE UNCHANGED vars
    BY <1>8 DEF vars, connection, client, flags, envelope, history, SessionInv, TypeOK,
       Link, SenderInForce, RcptsInForce, Commits, LastMessage, RelayNeedsLogin, OneChannel,
       Now
  <1> QED
    BY <1>1, <1>2, <1>3, <1>4, <1>5, <1>6, <1>7, <1>8 DEF Next

------------------------------------------------------------------------------
\* The invariant of the whole session: session.rs, `serve`.
THEOREM Session_Invariant == Spec => []SessionInv
  BY InitSession, StepKeeps, PTL DEF Spec

\* The state of a session has its types, its buffer never claims more lines
\* than there are, and every sender, recipient and message is well formed.
THEOREM SessionTypes == Spec => []TypeOK
  BY Session_Invariant, PTL DEF SessionInv

\* Never an open relay, whatever the policy and however logins, STARTTLS and
\* recipients are interleaved.
THEOREM NeverOpenRelay == Spec => []RelayNeedsLogin
  BY Session_Invariant, PTL DEF SessionInv

\* No message mixes what was said before STARTTLS with what was said after.
THEOREM ChannelsNeverMix == Spec => []OneChannel
  BY Session_Invariant, PTL DEF SessionInv

\* A message has the recipients of its own MAIL and a MAIL at most one message.
THEOREM EnvelopesNeverMix == Spec => []OneEnvelope
  <1>1. SessionInv => OneEnvelope
    BY DEF SessionInv, LastMessage, Commits, OneEnvelope
  <1> QED
    BY <1>1, Session_Invariant, PTL

\* The upgrade to TLS starts from an empty wire.
THEOREM UpgradeIsClean == Spec => CleanUpgrade
  <1>1. SessionInv /\ [Next]_vars => [~ onTls /\ onTls' => wire = <<>>]_vars
    <2> SUFFICES ASSUME SessionInv, Next, ~ onTls, onTls' PROVE wire = <<>>
      BY DEF vars
    <2>1. Handshake
      BY DEF Next, SendLine, Fill, Drop, Ehlo, MailFrom, Data, Rset, NoEffect, Quit, RcptTo,
         PayloadLine, PayloadEnd, PayloadTooBig, DoorPasses, DoorRefuses, HandOver, StartTls,
         AuthInline, AuthAsk, AuthUser, AuthSucceeds, AuthFails, client
    <2> QED
      BY <2>1, HandshakeKeeps
  <1> QED
    BY <1>1, Session_Invariant, PTL DEF Spec, CleanUpgrade
------------------------------------------------------------------------------
LEMMA InboundIsSession == InNext => [Next]_vars
  BY DEF InNext, Next, Plain, Upgrade, TypeUser, LogIn, LogInFails, Arrive, Judge, Commit,
     CommitRefuses

\* A session with the parts it consults (module Inbound) is a session: what is
\* proved of every session holds of it.
THEOREM SessionWithParts == InSpec => Spec
  <1>1. InInit => Init
    BY DEF InInit
  <1>2. [InNext]_<<vars, parts>> => [Next]_vars
    BY InboundIsSession
  <1> QED
    BY <1>1, <1>2, PTL DEF InSpec, Spec

\* The account a login is in the name of.
EnabledAccount(r) == \E i \in DOMAIN Accounts : Accounts[i] = [address |-> r, enabled |-> TRUE]

\* What the parts have found out is still about the client and the message of
\* the moment.
GInv ==
  /\ who = None <=> login = None
  /\ who # None => EnabledAccount(who)
  /\ phase = "door" => login = None /\ verdict \in Verdict
  /\ phase = "commit" /\ login = None => verdict \in Verdict /\ ~ Rejects(verdict)
  /\ QueuedAsGranted

\* A set of positions that is not empty has a first.
LEMMA First ==
  ASSUME NEW S \in SUBSET Nat, S # {}
  PROVE  \E i \in S : \A j \in S : i <= j
  <1> DEFINE Below == {p \in Nat \X Nat : p[1] < p[2]}
  <1>1. OpToRel(<, Nat) = Below
    BY DEF OpToRel
  <1>2. PICK i \in S : \A j \in S : ~ (<<j, i>> \in Below)
    BY <1>1, NatLessThanWellFounded, WFMin
  <1>3. ASSUME NEW j \in S
        PROVE  i <= j
    <2>1. i \in Nat /\ j \in Nat /\ ~ (<<j, i>> \in Below)
      BY <1>2
    <2>2. j < i => <<j, i>> \in Below
      BY <2>1
    <2> QED
      BY <2>1, <2>2
  <1> QED
    BY <1>2, <1>3

\* The registry knows only the entries of the file, and the first of a name.
LEMMA LookupFinds ==
  ASSUME NEW r \in Recipients, IsRecipient(r)
  PROVE  EnabledAccount(r)
  <1> DEFINE found == {i \in DOMAIN Accounts : Accounts[i].address = r}
  <1>1. found # {} /\ Lookup(r) = Accounts[CHOOSE i \in found : \A j \in found : i <= j]
        /\ Lookup(r).enabled
    BY DEF IsRecipient, Lookup
  <1>2. found \subseteq Nat
    BY InboundAssumption
  <1>3. \E i \in found : \A j \in found : i <= j
    BY <1>1, <1>2, First
  <1>4. PICK i \in found : Lookup(r) = Accounts[i]
    BY <1>1, <1>3
  <1>5. Accounts[i] \in [address : Recipients, enabled : BOOLEAN]
    <2>1. Accounts \in Seq([address : Recipients, enabled : BOOLEAN]) /\ i \in 1 .. Len(Accounts)
      BY <1>4, InboundAssumption
    <2> QED
      BY <2>1, ElementOfSeq
  <1>6. Accounts[i].address = r /\ Accounts[i].enabled = TRUE
    BY <1>1, <1>4, <1>5
  <1> QED
    BY <1>4, <1>5, <1>6 DEF EnabledAccount

LEMMA InitGranted == InInit => GInv
  BY DEF InInit, Init, GInv, QueuedAsGranted

\* Steps that leave login, parts and phase in place, or go where nothing is
\* asked of them.
LEMMA AsideGranted ==
  ASSUME GInv, UNCHANGED <<login, who, verdict, entry>>,
         phase' \in {"door", "commit"} => phase' = phase
  PROVE  GInv'
  BY DEF GInv, QueuedAsGranted

LEMMA PlainGranted == GInv /\ Plain => GInv'
  <1> SUFFICES ASSUME GInv, Plain PROVE GInv'
    OBVIOUS
  <1>1. UNCHANGED <<login, who, verdict, entry>>
    BY DEF Plain, SendLine, Fill, Drop, Ehlo, MailFrom, Data, Rset, NoEffect, Quit, RcptTo,
       PayloadLine, PayloadTooBig, StartTls, AuthAsk, parts, client
  <1>2. phase' \in {"door", "commit"} => phase' = phase
    BY DEF Plain, SendLine, Fill, Drop, Ehlo, MailFrom, Data, Rset, NoEffect, Quit, RcptTo,
       PayloadLine, PayloadTooBig, StartTls, AuthAsk
  <1> QED
    BY <1>1, <1>2, AsideGranted

LEMMA LoginGranted ==
  ASSUME SessionInv, GInv, Upgrade \/ TypeUser \/ LogIn \/ LogInFails
  PROVE  GInv'
  <1>1. CASE Upgrade
    BY <1>1 DEF Upgrade, Handshake, GInv, QueuedAsGranted
  <1>2. CASE TypeUser
    BY <1>2, AsideGranted DEF TypeUser, AuthUser, client
  <1>3. CASE LogInFails
    BY <1>3, AsideGranted DEF LogInFails, AuthFails, client
  <1>4. CASE LogIn
    <2>1. PICK r \in Recipients, password \in {Right, Wrong} :
            /\ AuthInline \/ AuthSucceeds
            /\ Verify(r, password)
            /\ who' = r
            /\ UNCHANGED <<verdict, entry>>
      BY <1>4 DEF LogIn
    <2>2. EnabledAccount(r) /\ r # None
      BY <2>1, LookupFinds, InboundAssumption DEF Verify
    <2>3. EnabledAccount(who')
      BY <2>1, <2>2
    <2>4. login' \in Channel /\ phase' = "command"
      <3>1. PICK at : ReadLine(at) /\ login' = Came
        BY <2>1 DEF AuthInline, AuthSucceeds
      <3>2. login' \in Channel
        BY <3>1, ReadLineTypes DEF SessionInv
      <3> QED
        BY <2>1, <3>2 DEF AuthInline, AuthSucceeds, ReadLine
    <2>5. login' # None
      BY <2>4, SessionAssumption DEF Channel
    <2> QED
      BY <2>1, <2>2, <2>3, <2>4, <2>5 DEF GInv, QueuedAsGranted
  <1> QED
    BY <1>1, <1>2, <1>3, <1>4

\* The payload has come, and the door has judged it.
LEMMA JudgedGranted ==
  ASSUME GInv, Arrive \/ Judge
  PROVE  GInv'
  <1>1. CASE Arrive
    BY <1>1, InboundAssumption DEF Arrive, PayloadEnd, client, GInv, QueuedAsGranted
  <1>2. CASE Judge
    BY <1>2 DEF Judge, DoorPasses, DoorRefuses, client, GInv, QueuedAsGranted
  <1> QED
    BY <1>1, <1>2

\* What the policy grants a recipient.
LEMMA PolicyGrants ==
  ASSUME NEW r \in Deliverable
  PROVE  LET mine == {a \in ToSet(Accounts) : DomainOf[a.address] = DomainOf[r]}
         IN  /\ DomainOf[r] \in Hosted
             /\ \/ [address |-> r, enabled |-> TRUE] \in mine
                \/ r \in Forwards /\ "forward" \in LocalTargets
                \/ mine = {}
  <1> DEFINE mine == {a \in ToSet(Accounts) : DomainOf[a.address] = DomainOf[r]}
  <1>1. r \in Recipients /\ AcceptRecipient(r)
    BY Assembled
  <1>2. CASE IsRecipient(r)
    <2>1. PICK i \in DOMAIN Accounts : Accounts[i] = [address |-> r, enabled |-> TRUE]
      BY <1>1, <1>2, LookupFinds DEF EnabledAccount
    <2>2. Accounts[i] \in mine
      BY <2>1 DEF ToSet
    <2> QED
      BY <1>1, <2>1, <2>2 DEF AcceptRecipient
  <1>3. CASE r \in Forwards
    BY <1>1, <1>3 DEF AcceptRecipient, LocalTargets
  <1>4. CASE ~ HostsDomain(DomainOf[r])
    BY <1>1, <1>4 DEF AcceptRecipient, HostsDomain, ToSet
  <1> QED
    BY <1>1, <1>2, <1>3, <1>4 DEF AcceptRecipient

LEMMA CommitGranted ==
  ASSUME SessionInv, GInv, Commit \/ CommitRefuses
  PROVE  GInv'
  <1>1. CASE CommitRefuses
    BY <1>1 DEF CommitRefuses, HandOver, client, GInv, QueuedAsGranted
  <1>2. CASE Commit
    <2>1. /\ last' = [from |-> mailFrom, rcpts |-> rcpts, helo |-> helo, login |-> login, ch |-> Now]
          /\ entry' = [message |-> last', by |-> who, verdict |-> verdict,
                       targets |-> IF who # None THEN {"outbound"} ELSE LocalTargets]
          /\ phase = "commit" /\ phase' = "command" /\ UNCHANGED <<login, who>>
      BY <1>2 DEF Commit, HandOver, client
    <2>2. CASE who # None
      <3>1. login = "tls" /\ Now = "tls" /\ EnabledAccount(who)
        BY <2>2 DEF GInv, SessionInv, Link, Now
      <3>2. QueuedAsGranted'
        BY <2>1, <2>2, <3>1 DEF QueuedAsGranted, EnabledAccount
      <3> QED
        BY <2>1, <3>2 DEF GInv
    <2>3. CASE who = None
      <3>1. login = None /\ verdict \in Verdict /\ ~ Rejects(verdict)
        BY <2>1, <2>3 DEF GInv
      <3>2. Enforce /\ verdict.parses => verdict.dmarcPass \/ verdict.policy = "none"
        BY <3>1 DEF Verdict, Rejects
      <3>3. \A i \in DOMAIN rcpts : rcpts[i].to \in Deliverable
        BY <3>1 DEF SessionInv, RcptsInForce
      <3>4. "outbound" \notin LocalTargets
        BY DEF LocalTargets
      <3>5. QueuedAsGranted'
        BY <2>1, <2>3, <3>1, <3>2, <3>3, <3>4, PolicyGrants DEF QueuedAsGranted
      <3> QED
        BY <2>1, <3>5 DEF GInv
    <2> QED
      BY <2>2, <2>3
  <1> QED
    BY <1>1, <1>2

LEMMA StepGranted == SessionInv /\ GInv /\ [InNext]_<<vars, parts>> => GInv'
  <1> SUFFICES ASSUME SessionInv, GInv, [InNext]_<<vars, parts>> PROVE GInv'
    OBVIOUS
  <1>1. CASE Plain
    BY <1>1, PlainGranted
  <1>2. CASE Upgrade \/ TypeUser \/ LogIn \/ LogInFails
    BY <1>2, LoginGranted
  <1>3. CASE Arrive \/ Judge
    BY <1>3, JudgedGranted
  <1>4. CASE Commit \/ CommitRefuses
    BY <1>4, CommitGranted
  <1>5. CASE UNCHANGED <<vars, parts>>
    BY <1>5, AsideGranted DEF vars, parts, client
  <1> QED
    BY <1>1, <1>2, <1>3, <1>4, <1>5 DEF InNext

\* What a message is queued for is what the accounts, the policy, the aliases
\* and the door grant to whoever brought it, for every configuration.
THEOREM QueueIsGranted == InSpec => []QueuedAsGranted
  <1>1. InSpec => []SessionInv
    BY SessionWithParts, Session_Invariant, PTL
  <1>2. InSpec => []GInv
    BY InitGranted, StepGranted, <1>1, PTL DEF InSpec
  <1> QED
    BY <1>2, PTL DEF GInv
==============================================================================
