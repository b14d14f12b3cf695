-------------------------- MODULE ConversationProofs --------------------------
(***************************************************************************)
(* Theorems of modules Conversation and Delivery, for any number of        *)
(* recipients and any letter: what the dialogue reports is true (it        *)
(* implements module Attempt), no letter goes out for part of an envelope, *)
(* nothing private is written in the clear, and what is taken is the whole *)
(* letter, which shows what its author put in.                             *)
(***************************************************************************)
EXTENDS Delivery, Sums, SequenceTheorems, TLAPS

Opening == {"greeting", "EHLO", "STARTTLS", "handshake"}

\* Before the first RCPT.
Early == Opening \cup {"AUTH PLAIN", "AUTH LOGIN", "user", "password", "MAIL"}

\* The reply that answers the last line is there to be read.
Answered == sent /\ replies # <<>>

\* One line or its reply is under way, never both; what comes unasked is a 421.
Exchange ==
  /\ request # None => replies = <<>> /\ sent /\ at \in {request, "done"}
  /\ link = "up" /\ ~ sent => replies = <<>>
  /\ link = "up" => replies = <<>> \/ Len(replies) = 1
  /\ link = "up" /\ sent /\ request = None => replies # <<>>
  /\ \A i \in DOMAIN replies : i > 1 \/ ~ sent => replies[i].severity = 4
  /\ at = "handshake" => ~ sent

\* The outcome is open until the goodbye.
Verdict == outcome = None <=> at \notin {"QUIT", "done"}

\* Whether the server has the message, at each point of the dialogue.
Truth ==
  /\ at \in Early \cup {"RCPT", "DATA"} => taken = 0
  /\ at = "payload" => (~ sent => taken = 0)
  /\ at = "payload" /\ Answered => (Head(replies).severity = 2 <=> taken = 1)
  /\ request = "payload" => taken = 0 /\ outcome \notin {"Delivered", "Deferred", "Rejected"}
  /\ request \in {"MAIL", "RCPT"} => taken = 0
  /\ outcome = "Delivered" => taken = 1
  /\ outcome \in {"Deferred", "Rejected"} => taken = 0

\* The recipients as the client and as the server count them.
Envelope ==
  /\ at \in Early => named = 0 /\ accepted = 0
  /\ at = "RCPT" =>
       /\ named < NRcpt
       /\ ~ sent \/ request = "RCPT" => accepted = named
       /\ Answered /\ Head(replies).severity = 2 => accepted = named + 1
  /\ at \in {"DATA", "payload"} => accepted = NRcpt
  /\ request = "RCPT" => accepted < NRcpt
  /\ request = "payload" => accepted = NRcpt
  /\ taken > 0 => accepted = NRcpt

\* What has been written, and what the server offered, before TLS.
Privacy ==
  /\ at \in Opening \/ request = "EHLO" => exposed = {}
  /\ mode = "submitTls" /\ ~ onTls => at \in Opening \cup {"QUIT", "done"}
  /\ mode = "deliverTls" /\ ~ onTls /\ at \notin Opening \cup {"QUIT", "done"} => ~ offered
  /\ at = "greeting" \/ (at = "EHLO" /\ ~ onTls /\ (~ sent \/ request = "EHLO")) => ~ offered
  /\ at = "EHLO" /\ ~ onTls /\ Answered /\ Head(replies).severity = 2 =>
       (offered <=> "STARTTLS" \in Head(replies).capabilities)
  /\ NothingInClear

CInv ==
  /\ TypeOK
  /\ Exchange
  /\ Verdict
  /\ Truth
  /\ Envelope
  /\ Privacy

------------------------------------------------------------------------------
\* The marker is none of the names.
LEMMA NoneIsApart ==
  /\ None # "greeting" /\ None # "EHLO" /\ None # "STARTTLS" /\ None # "handshake"
  /\ None # "AUTH PLAIN" /\ None # "AUTH LOGIN" /\ None # "user" /\ None # "password"
  /\ None # "MAIL" /\ None # "RCPT" /\ None # "DATA" /\ None # "payload"
  /\ None # "QUIT" /\ None # "done"
  /\ None # "Delivered" /\ None # "Deferred" /\ None # "Rejected" /\ None # "Wire"
  BY ConversationAssumption DEF Point, Step, Outcome

LEMMA SomeRcpt == NRcpt \in Nat /\ NRcpt > 0
  BY ConversationAssumption

LEMMA InitC == Init => CInv
  <1> SUFFICES ASSUME Init PROVE CInv
    OBVIOUS
  <1> USE SomeRcpt
  <1>1. mode \in Mode /\ onTls \in BOOLEAN
    BY DEF Init
  <1>2. replies \in Seq(Reply) /\ replies = <<>> /\ Len(replies) = 0
    BY EmptySeq DEF Init
  <1>3. TypeOK
    <2>1. sent \in BOOLEAN /\ offered \in BOOLEAN /\ exposed \subseteq Private \X {"clear", "tls"}
      BY DEF Init
    <2>2. at \in Point /\ request \in Step \cup {None} /\ link \in {"up", "shut", "cut"}
      BY DEF Init, Point, Step
    <2>3. named \in 0 .. NRcpt /\ accepted \in 0 .. NRcpt /\ taken \in 0 .. 1
      BY DEF Init
    <2>4. outcome \in Outcome \cup {None}
      BY DEF Init
    <2> QED
      BY <1>1, <1>2, <2>1, <2>2, <2>3, <2>4 DEF TypeOK
  <1>a. request # None /\ outcome \notin {"Delivered", "Deferred", "Rejected"}
    BY NoneIsApart DEF Init
  <1>4. Exchange /\ Verdict /\ Truth
    BY <1>2, <1>a DEF Init, Exchange, Verdict, Truth, Answered, Early, Opening
  <1>5. Envelope /\ Privacy
    BY <1>2 DEF Init, Envelope, Privacy, Answered, Early, Opening, NothingInClear
  <1> QED
    BY <1>3, <1>4, <1>5 DEF CInv

\* A reply appended to none is the one reply.
LEMMA OneReply ==
  ASSUME NEW reply \in Reply, replies = <<>>
  PROVE  /\ Append(replies, reply) \in Seq(Reply)
         /\ Len(Append(replies, reply)) = 1
         /\ Append(replies, reply) # <<>>
         /\ Head(Append(replies, reply)) = reply
         /\ Append(replies, reply)[1] = reply
  <1>1. replies \in Seq(Reply) /\ Len(replies) = 0
    BY EmptySeq
  <1> QED
    BY <1>1, AppendProperties, HeadTailProperties

LEMMA AnswerKeeps ==
  ASSUME CInv, NEW reply \in Reply, Answer(reply)
  PROVE  CInv'
  <1> USE DEF CInv, Answer
  <1>0. replies = <<>> /\ at \in {request, "done"} /\ request' = None /\ request # None
        /\ sent
        /\ UNCHANGED <<mode, at, sent, named, onTls, outcome, exposed, link>>
    BY DEF Exchange, client
  <1>a. request' \notin {"EHLO", "MAIL", "RCPT", "payload"}
    BY <1>0, NoneIsApart
  <1>b. at # "handshake"
    BY <1>0 DEF TypeOK, Step
  <1>1. /\ replies' \in Seq(Reply)
        /\ \A i \in DOMAIN replies' : i = 1
        /\ \/ link # "up" /\ replies' = <<>>
           \/ link = "up" /\ replies' # <<>> /\ Len(replies') = 1 /\ Head(replies') = reply
    BY <1>0, OneReply, EmptySeq DEF TypeOK
  <1>2. reply.severity \in 2 .. 5 /\ reply.capabilities \in SUBSET Capability
    BY DEF Reply
  <1>3. /\ accepted' \in 0 .. NRcpt /\ taken' \in 0 .. 1 /\ offered' \in BOOLEAN
        /\ request = "RCPT" /\ reply.severity = 2 => accepted' = accepted + 1
        /\ request = "MAIL" => accepted' = 0
        /\ request \notin {"MAIL", "RCPT"} => accepted' = accepted
        /\ request = "payload" /\ reply.severity = 2 => taken' = 1
        /\ request # "payload" \/ reply.severity # 2 => taken' = taken
        /\ request # "EHLO" => offered' = offered
    BY SomeRcpt, <1>2 DEF TypeOK, Envelope, Truth
  <1>c. offered \in BOOLEAN
    BY DEF TypeOK
  <1>d. offered' <=> offered \/ "STARTTLS" \in reply.capabilities
    BY <1>c
  <1> HIDE DEF Answer
  <1>4. TypeOK'
    BY <1>0, <1>1, <1>3 DEF TypeOK
  <1>5. Exchange'
    BY <1>0, <1>1, <1>b DEF Exchange
  <1>55. Verdict'
    BY <1>0 DEF Verdict
  <1>6. Truth'
    <2> USE <1>0, <1>a, <1>1, <1>3 DEF Truth
    <2>1. at' \in Early \cup {"RCPT", "DATA"} => taken' = 0
      BY DEF Early, Opening
    <2>2. at' = "payload" /\ Answered' => (Head(replies').severity = 2 <=> taken' = 1)
      BY DEF Answered
    <2>3. /\ outcome' = "Delivered" => taken' = 1
          /\ outcome' \in {"Deferred", "Rejected"} => taken' = 0
      OBVIOUS
    <2> QED
      BY <2>1, <2>2, <2>3
  <1>7. Envelope'
    <2> USE <1>0, <1>a, <1>1, <1>3 DEF Envelope
    <2>1. at' \in Early => named' = 0 /\ accepted' = 0
      BY DEF Early, Opening
    <2>2. at' = "RCPT" => /\ named' < NRcpt
                          /\ Answered' /\ Head(replies').severity = 2 => accepted' = named' + 1
      BY DEF Answered
    <2>3. at' \in {"DATA", "payload"} => accepted' = NRcpt
      OBVIOUS
    <2>4. taken' > 0 => accepted' = NRcpt
      BY DEF Truth
    <2> QED
      BY <2>1, <2>2, <2>3, <2>4
  <1>8. Privacy'
    <2> USE <1>0, <1>a, <1>1, <1>3 DEF Privacy
    <2>1. at' = "EHLO" /\ ~ onTls' /\ Answered' /\ Head(replies').severity = 2 =>
            (offered' <=> "STARTTLS" \in Head(replies').capabilities)
      BY <1>d DEF Answered
    <2>2. at' = "greeting" \/ (at' = "EHLO" /\ ~ onTls' /\ (~ sent' \/ request' = "EHLO")) => ~ offered'
      OBVIOUS
    <2>3. mode' = "deliverTls" /\ ~ onTls' /\ at' \notin Opening \cup {"QUIT", "done"} => ~ offered'
      BY DEF Opening
    <2>4. NothingInClear'
      BY DEF NothingInClear
    <2> QED
      BY <2>1, <2>2, <2>3, <2>4
  <1> QED
    BY <1>4, <1>5, <1>55, <1>6, <1>7, <1>8

LEMMA NetworkKeeps ==
  ASSUME CInv, Shutdown \/ Cut
  PROVE  CInv'
  <1> USE DEF CInv
  <1>0. /\ UNCHANGED <<mode, at, sent, named, onTls, outcome, exposed, accepted, taken, offered>>
        /\ link' # "up" /\ link' \in {"shut", "cut"} /\ request' \in {request, None}
    BY DEF Shutdown, Cut, client, server
  <1>1. /\ replies' \in Seq(Reply)
        /\ request' # None => replies' = <<>>
        /\ \A i \in DOMAIN replies' : i > 1 \/ ~ sent' => replies'[i].severity = 4
        /\ replies' # <<>> => \/ replies # <<>> /\ Head(replies') = Head(replies)
                              \/ replies = <<>> /\ Head(replies').severity = 4
    <2>1. CASE Cut
      <3>1. replies' \in Seq(Reply) /\ (replies' = replies \/ (replies' = <<>> /\ Len(replies') = 0))
        <4>1. replies \in Seq(Reply)
          BY DEF TypeOK
        <4>2. replies' = replies \/ replies' = <<>>
          BY <2>1 DEF Cut
        <4>3. <<>> \in Seq(Reply) /\ Len(<<>>) = 0
          BY EmptySeq
        <4> QED
          BY <4>1, <4>2, <4>3
      <3> QED
        BY <1>0, <3>1 DEF Exchange
    <2>2. CASE Shutdown
      <3> DEFINE bye == [severity |-> 4, capabilities |-> {}]
      <3>1. bye \in Reply /\ bye.severity = 4
        BY DEF Reply
      <3>2. replies \in Seq(Reply) /\ (replies = <<>> \/ Len(replies) = 1) /\ replies' = Append(replies, bye)
        BY <2>2 DEF Shutdown, TypeOK, Exchange
      <3> HIDE DEF bye
      <3>3. /\ replies' \in Seq(Reply) /\ Len(replies') = Len(replies) + 1
            /\ \A i \in 1 .. Len(replies) : replies'[i] = replies[i]
            /\ replies'[Len(replies) + 1] = bye /\ Head(replies') = replies'[1]
        BY <3>1, <3>2, AppendProperties, HeadTailProperties
      <3>4. replies # <<>> => Head(replies') = Head(replies)
        BY <3>2, <3>3, HeadTailProperties
      <3>5. replies = <<>> => Head(replies').severity = 4
        BY <3>1, <3>2, <3>3
      <3>6. ~ sent => replies = <<>>
        BY <2>2 DEF Shutdown, Exchange
      <3>7. \A i \in DOMAIN replies' : i > 1 \/ ~ sent' => replies'[i].severity = 4
        BY <1>0, <3>1, <3>2, <3>3, <3>6
      <3> QED
        BY <2>2, <3>3, <3>4, <3>5, <3>7 DEF Shutdown
    <2> QED
      BY <2>1, <2>2
  <1>2. TypeOK'
    BY <1>0, <1>1 DEF TypeOK
  <1>a. request' \in {"EHLO", "MAIL", "RCPT", "payload"} => request' = request
    BY <1>0, NoneIsApart
  <1>2a. at = "payload" /\ sent /\ replies = <<>> => taken = 0
    <2>1. SUFFICES ASSUME at = "payload", sent, replies = <<>> PROVE taken = 0
      OBVIOUS
    <2>2. request # None /\ at \in {request, "done"}
      BY <1>0, <2>1 DEF Exchange, Shutdown, Cut
    <2> QED
      BY <2>1, <2>2 DEF Truth
  <1>3. Exchange' /\ Verdict'
    BY <1>0, <1>1 DEF Exchange, Verdict
  <1>4. Truth'
    <2> USE <1>0, <1>a, <1>1 DEF Truth
    <2>1. at' = "payload" /\ Answered' => (Head(replies').severity = 2 <=> taken' = 1)
      <3> SUFFICES ASSUME at = "payload", sent, replies' # <<>>
                   PROVE  Head(replies').severity = 2 <=> taken = 1
        BY DEF Answered
      <3>1. CASE replies # <<>> /\ Head(replies') = Head(replies)
        BY <3>1 DEF Answered
      <3>2. CASE replies = <<>> /\ Head(replies').severity = 4
        <4>1. taken = 0
          BY <3>2, <1>2a
        <4> QED
          BY <3>2, <4>1
      <3> QED
        BY <3>1, <3>2
    <2> QED
      BY <2>1 DEF Early, Opening
  <1>5. Envelope'
    <2> USE <1>0, <1>a, <1>1 DEF Envelope
    <2>1. at' = "RCPT" /\ Answered' /\ Head(replies').severity = 2 => accepted' = named' + 1
      BY DEF Answered
    <2> QED
      BY <2>1 DEF Early, Opening
  <1>6. Privacy'
    <2> USE <1>0, <1>a, <1>1 DEF Privacy
    <2>1. at' = "EHLO" /\ ~ onTls' /\ Answered' /\ Head(replies').severity = 2 =>
            (offered' <=> "STARTTLS" \in Head(replies').capabilities)
      BY DEF Answered
    <2>2. NothingInClear'
      BY DEF NothingInClear
    <2> QED
      BY <2>1, <2>2 DEF Opening
  <1> QED
    BY <1>2, <1>3, <1>4, <1>5, <1>6

\* Before the line that is answered, the network had nothing else to say.
LEMMA Reading ==
  ASSUME CInv, ReadReply
  PROVE  /\ UNCHANGED <<mode, onTls, exposed, link, accepted, taken, offered>>
         /\ sent /\ sent' = FALSE /\ Answered
         /\ request = None /\ request' = None
         /\ request' \notin {"EHLO", "MAIL", "RCPT", "payload"}
         /\ replies' \in Seq(Reply)
         /\ link = "up" => replies' = <<>>
         /\ \A i \in DOMAIN replies' : replies'[i].severity = 4
         /\ Head(replies) \in Reply /\ Head(replies).severity \in 2 .. 5
  <1>1. /\ UNCHANGED <<mode, onTls, exposed, link, accepted, taken, offered>>
        /\ sent /\ sent' = FALSE /\ Answered /\ replies' = Tail(replies) /\ request' = request
    BY DEF ReadReply, server, Answered
  <1>2. request = None
    BY <1>1 DEF CInv, Exchange, Answered
  <1>3. replies \in Seq(Reply) /\ replies # <<>>
    BY <1>1 DEF CInv, TypeOK, Answered
  <1>4. /\ replies' \in Seq(Reply) /\ Head(replies) \in Reply
        /\ Len(replies') = Len(replies) - 1 /\ Len(replies) \in Nat
        /\ \A i \in 1 .. Len(replies') : replies'[i] = replies[i + 1]
    BY <1>1, <1>3, HeadTailProperties
  <1>5. link = "up" => replies' = <<>>
    <2>1. ASSUME link = "up" PROVE Len(replies') = 0
      <3>1. Len(replies) = 1
        BY <1>3, <2>1 DEF CInv, Exchange
      <3> QED
        BY <1>4, <3>1
    <2> QED
      BY <1>4, <2>1, EmptySeq
  <1>6. ASSUME NEW i \in DOMAIN replies' PROVE replies'[i].severity = 4
    <2>1. i \in 1 .. Len(replies') /\ i + 1 \in DOMAIN replies /\ i + 1 > 1
      BY <1>3, <1>4, <1>6
    <2>2. replies[i + 1].severity = 4
      BY <2>1 DEF CInv, Exchange
    <2> QED
      BY <1>4, <2>1, <2>2
  <1>7. Head(replies).severity \in 2 .. 5
    BY <1>4 DEF Reply
  <1>8. request' \notin {"EHLO", "MAIL", "RCPT", "payload"}
    BY <1>1, <1>2, NoneIsApart
  <1> QED
    BY <1>1, <1>2, <1>4, <1>5, <1>6, <1>7, <1>8

\* A reply that ends the dialogue: the verdict fits what the server has.
LEMMA PartingKeeps ==
  ASSUME CInv, NoTlsOffered \/ Accepted \/ Refused
  PROVE  /\ CInv'
         /\ \E o \in Outcome : Attempted!Report(o)
  <1> USE DEF CInv
  <1>0. ReadReply /\ named' = named /\ at \in Step \ {"QUIT"} /\ at' = "QUIT"
    BY DEF NoTlsOffered, Accepted, Refused, Goodbye, Step
  <1> HIDE DEF CInv
  <1>1. /\ UNCHANGED <<mode, onTls, exposed, link, accepted, taken, offered>>
        /\ sent /\ sent' = FALSE /\ Answered
        /\ request = None /\ request' = None
        /\ request' \notin {"EHLO", "MAIL", "RCPT", "payload"}
        /\ replies' \in Seq(Reply)
        /\ link = "up" => replies' = <<>>
        /\ \A i \in DOMAIN replies' : replies'[i].severity = 4
    BY <1>0, Reading
  <1> USE DEF CInv
  <1>2. outcome = None
    BY <1>0 DEF Verdict, Step
  <1>3. taken \in 0 .. 1
    BY DEF TypeOK
  <1>4. /\ outcome' \in {"Delivered", "Deferred", "Rejected"}
        /\ outcome' = "Delivered" => taken = 1
        /\ outcome' \in {"Deferred", "Rejected"} => taken = 0
    <2>1. CASE NoTlsOffered
      BY <2>1 DEF NoTlsOffered, Goodbye, Truth, Early, Opening
    <2>2. CASE Accepted
      BY <1>1, <2>2 DEF Accepted, Goodbye, Truth
    <2>3. CASE Refused
      <3>1. outcome' \in {"Deferred", "Rejected"}
        BY <2>3 DEF Refused, Goodbye
      <3>2. CASE at = "payload"
        <4>1. Head(replies).severity # 2
          BY <2>3, <3>2 DEF Refused, Expected
        <4> QED
          BY <1>1, <1>3, <3>1, <3>2, <4>1 DEF Truth
      <3>3. CASE at # "payload"
        <4>1. at \in Early \cup {"RCPT", "DATA"}
          BY <1>0, <3>3 DEF Step, Early, Opening
        <4> QED
          BY <3>1, <4>1 DEF Truth
      <3> QED
        BY <3>2, <3>3
    <2> QED
      BY <2>1, <2>2, <2>3
  <1>5. outcome' \in Outcome /\ outcome' # None
    BY <1>4, NoneIsApart DEF Outcome
  <1>6. \E o \in Outcome : Attempted!Report(o)
    BY <1>1, <1>2, <1>4, <1>5 DEF Attempted!Report
  <1>7. TypeOK'
    BY <1>0, <1>1, <1>5 DEF TypeOK, Point, Step
  <1>8. Exchange' /\ Verdict'
    BY <1>0, <1>1, <1>5 DEF Exchange, Verdict
  <1>9. Truth'
    BY <1>0, <1>1, <1>4 DEF Truth, Early, Opening
  <1>10. Envelope'
    BY <1>0, <1>1 DEF Envelope, Early, Opening
  <1>11. Privacy'
    BY <1>0, <1>1 DEF Privacy, Opening, NothingInClear
  <1> QED
    BY <1>6, <1>7, <1>8, <1>9, <1>10, <1>11

\* Where an answer that was hoped for leads.
LEMMA NextSentence ==
  ASSUME CInv, Heard
  PROVE  /\ at = "greeting" => at' = "EHLO"
         /\ at = "EHLO" =>
              \/ at' = "STARTTLS" /\ ~ onTls
              \/ at' \in {"AUTH PLAIN", "AUTH LOGIN"} /\ mode \in Submitting /\ (mode = "submitTls" => onTls)
              \/ at' = "MAIL" /\ mode \notin Submitting
                   /\ (mode = "deliverTls" /\ ~ onTls => "STARTTLS" \notin Head(replies).capabilities)
         /\ at = "STARTTLS" => at' = "handshake"
         /\ at = "AUTH LOGIN" => at' = "user"
         /\ at = "user" => at' = "password"
         /\ at \in {"AUTH PLAIN", "password"} => at' = "MAIL"
         /\ at = "MAIL" => at' = "RCPT"
         /\ at = "RCPT" => at' = IF named + 1 < NRcpt THEN "RCPT" ELSE "DATA"
         /\ at = "DATA" => at' = "payload"
         /\ at \in {"greeting", "EHLO", "STARTTLS", "MAIL", "RCPT", "AUTH PLAIN", "password"} =>
              Head(replies).severity = 2
         /\ named' = (IF at = "RCPT" THEN named + 1 ELSE named)
         /\ outcome' = outcome
         /\ at \in Step \ {"payload", "QUIT"}
  <1>1. /\ at \in Step \ {"payload", "QUIT"} /\ Head(replies).severity = Expected(at)
        /\ at' = Follow(Head(replies).capabilities) /\ at' # None
        /\ named' = (IF at = "RCPT" THEN named + 1 ELSE named) /\ outcome' = outcome
    BY DEF Heard
  <1>2. at = "EHLO" => at' = AfterEhlo(Head(replies).capabilities)
    BY <1>1 DEF Follow
  <1>3. at = "EHLO" =>
              \/ at' = "STARTTLS" /\ ~ onTls
              \/ at' \in {"AUTH PLAIN", "AUTH LOGIN"} /\ mode \in Submitting /\ (mode = "submitTls" => onTls)
              \/ at' = "MAIL" /\ mode \notin Submitting
                   /\ (mode = "deliverTls" /\ ~ onTls => "STARTTLS" \notin Head(replies).capabilities)
    BY <1>1, <1>2 DEF AfterEhlo, Authenticate, WithStartTls
  <1>4. at = "RCPT" => at' = IF named + 1 < NRcpt THEN "RCPT" ELSE "DATA"
    BY <1>1 DEF Follow, AfterRcpt
  <1>5. /\ at = "greeting" => at' = "EHLO"
        /\ at = "STARTTLS" => at' = "handshake"
        /\ at = "AUTH LOGIN" => at' = "user"
        /\ at = "user" => at' = "password"
        /\ at \in {"AUTH PLAIN", "password"} => at' = "MAIL"
        /\ at = "MAIL" => at' = "RCPT"
        /\ at = "DATA" => at' = "payload"
    BY <1>1 DEF Follow
  <1>6. at \in {"greeting", "EHLO", "STARTTLS", "MAIL", "RCPT", "AUTH PLAIN", "password"} =>
              Head(replies).severity = 2
    BY <1>1 DEF Expected
  <1> QED
    BY <1>1, <1>3, <1>4, <1>5, <1>6

LEMMA HeardKeeps ==
  ASSUME CInv, Heard
  PROVE  CInv'
  <1>0. ReadReply
    BY DEF Heard
  <1>1. /\ UNCHANGED <<mode, onTls, exposed, link, accepted, taken, offered>>
        /\ sent /\ sent' = FALSE /\ Answered
        /\ request = None /\ request' = None
        /\ request' \notin {"EHLO", "MAIL", "RCPT", "payload"}
        /\ replies' \in Seq(Reply)
        /\ link = "up" => replies' = <<>>
        /\ \A i \in DOMAIN replies' : replies'[i].severity = 4
    BY <1>0, Reading
  <1>2. at \in Step \ {"payload", "QUIT"} /\ outcome' = outcome
        /\ named' = (IF at = "RCPT" THEN named + 1 ELSE named)
    BY NextSentence
  <1>3. at' \in Step \cup {"handshake"} /\ at' \notin {"QUIT", "done"}
    <2>1. at \in Step \ {"payload", "QUIT"}
      BY <1>2
    <2> QED
      BY <2>1, NextSentence DEF Step
  <1>4. taken = 0
    <2>1. at \in Early \cup {"RCPT", "DATA"}
      BY <1>2 DEF Step, Early, Opening
    <2> QED
      BY <2>1 DEF CInv, Truth
  <1>5. named' \in 0 .. NRcpt
    BY <1>2, SomeRcpt DEF CInv, TypeOK, Envelope
  <1>6. TypeOK'
    BY <1>1, <1>2, <1>3, <1>5 DEF CInv, TypeOK, Point
  <1>7. Exchange' /\ Verdict'
    <2>1. at \notin {"QUIT", "done"}
      BY <1>2 DEF Step
    <2>2. Exchange'
      BY <1>1 DEF Exchange
    <2> QED
      BY <2>1, <2>2, <1>2, <1>3 DEF CInv, Verdict
  <1>8. Truth'
    <2>1. outcome' \notin {"Delivered", "Deferred", "Rejected"}
      <3>1. outcome = None
        BY <1>2 DEF CInv, Verdict, Step
      <3> QED
        BY <1>2, <3>1, NoneIsApart
    <2>2. taken' = 0 /\ ~ Answered' /\ request' # "payload"
      BY <1>1, <1>4 DEF Answered
    <2> QED
      BY <2>1, <2>2 DEF Truth
  <1>9. Envelope'
    <2> USE <1>1, <1>2
    <2>1. at' \in Early => at \in Early /\ named' = 0 /\ accepted' = 0
      <3> SUFFICES ASSUME at' \in Early PROVE at \in Early
        BY DEF CInv, Envelope, Early, Opening
      <3> QED
        BY NextSentence DEF Step, Early, Opening
    <2>2. CASE at = "RCPT"
      <3>1. named \in Nat /\ named < NRcpt /\ accepted = named + 1 /\ Head(replies).severity = 2
        BY <2>2, NextSentence DEF CInv, Envelope, TypeOK
      <3>2. (at' = "RCPT" /\ named + 1 < NRcpt) \/ (at' = "DATA" /\ named + 1 = NRcpt)
        BY <2>2, <3>1, NextSentence, SomeRcpt
      <3> QED
        BY <1>4, <2>1, <2>2, <3>1, <3>2 DEF Envelope, Answered
    <2>3. CASE at = "MAIL"
      <3>1. at' = "RCPT" /\ named' = 0 /\ accepted' = 0
        BY <2>3, NextSentence DEF CInv, Envelope, Early
      <3> QED
        BY <1>4, <2>1, <3>1, SomeRcpt DEF Envelope, Answered
    <2>4. CASE at = "DATA"
      <3>1. at' = "payload" /\ accepted' = NRcpt
        BY <2>4, NextSentence DEF CInv, Envelope
      <3> QED
        BY <1>4, <2>1, <3>1 DEF Envelope, Answered
    <2>5. CASE at \notin {"RCPT", "MAIL", "DATA"}
      <3>1. at' \in Early
        BY <2>5, NextSentence DEF Step, Early, Opening
      <3>2. at' \notin {"RCPT", "DATA", "payload"}
        BY <3>1 DEF Early, Opening
      <3>3. taken' = 0 /\ request' \notin {"RCPT", "payload"}
        BY <1>4
      <3>4. named' = 0 /\ accepted' = 0
        BY <2>1, <3>1
      <3> HIDE <1>1, <1>2
      <3> QED
        BY <3>2, <3>3, <3>4 DEF Envelope
    <2> QED
      BY <2>2, <2>3, <2>4, <2>5
  <1>10. Privacy'
    <2> USE <1>1
    <2>1. at' \in Opening => at \in Opening
      BY <1>2, NextSentence DEF Step, Opening
    <2>2. exposed = {} \/ at' \notin Opening
      BY <2>1 DEF CInv, Privacy
    <2>3. mode = "submitTls" /\ ~ onTls => at' \in Opening
      <3> SUFFICES ASSUME mode = "submitTls", ~ onTls PROVE at' \in Opening
        OBVIOUS
      <3>1. at \in Opening
        BY <1>2 DEF CInv, Privacy, Step
      <3> QED
        BY <1>2, <3>1, NextSentence DEF Step, Opening, Submitting
    <2>4. mode = "deliverTls" /\ ~ onTls /\ at' \notin Opening => ~ offered
      <3> SUFFICES ASSUME mode = "deliverTls", ~ onTls, at' \notin Opening PROVE ~ offered
        OBVIOUS
      <3>1. CASE at \in Opening
        <4>1. at = "EHLO"
          BY <1>2, <3>1, NextSentence DEF Step, Opening
        <4>2. Head(replies).severity = 2 /\ "STARTTLS" \notin Head(replies).capabilities
          BY <4>1, NextSentence DEF Opening, Submitting
        <4> QED
          BY <4>1, <4>2 DEF CInv, Privacy
      <3>2. CASE at \notin Opening
        BY <1>2, <3>2 DEF CInv, Privacy, Step
      <3> QED
        BY <3>1, <3>2
    <2>5. at' = "EHLO" => at = "greeting" /\ ~ offered
      <3> SUFFICES ASSUME at' = "EHLO" PROVE at = "greeting"
        BY DEF CInv, Privacy
      <3> QED
        BY <1>2, NextSentence DEF Step
    <2>6. at' # "greeting"
      BY <1>2, NextSentence DEF Step
    <2>7. NothingInClear'
      BY DEF CInv, Privacy, NothingInClear
    <2>8. ~ Answered' /\ request' # "EHLO"
      BY DEF Answered
    <2> QED
      BY <2>2, <2>3, <2>4, <2>5, <2>6, <2>7, <2>8 DEF Privacy
  <1> QED
    BY <1>6, <1>7, <1>8, <1>9, <1>10 DEF CInv

LEMMA SayKeeps ==
  ASSUME CInv, Say
  PROVE  CInv'
  <1>1. /\ at \in Step /\ ~ sent /\ sent' = TRUE
        /\ UNCHANGED <<mode, at, named, onTls, outcome, replies, link, accepted, taken, offered>>
        /\ \/ link = "up" /\ request' = at
           \/ link # "up" /\ request' = None
        /\ \/ at \in Private /\ exposed' = exposed \cup {<<at, Now>>}
           \/ at \notin Private /\ exposed' = exposed
    BY DEF Say, server
  <1>2. replies \in Seq(Reply) /\ outcome \in Outcome \cup {None}
    BY DEF CInv, TypeOK
  <1>3. link = "up" => replies = <<>>
    BY <1>1 DEF CInv, Exchange
  <1>4. replies # <<>> => Head(replies).severity = 4
    <2> SUFFICES ASSUME replies # <<>> PROVE Head(replies).severity = 4
      OBVIOUS
    <2>1. 1 \in DOMAIN replies /\ Head(replies) = replies[1]
      BY <1>2, HeadTailProperties, EmptySeq
    <2> QED
      BY <1>1, <2>1 DEF CInv, Exchange
  <1>5. request' \in {"EHLO", "MAIL", "RCPT", "payload"} => request' = at
    BY <1>1, NoneIsApart
  <1>6. TypeOK'
    <2>1. exposed' \subseteq Private \X {"clear", "tls"}
      BY <1>1 DEF CInv, TypeOK, Now
    <2> QED
      BY <1>1, <2>1 DEF CInv, TypeOK
  <1>7. Exchange' /\ Verdict'
    <2>1. request' # None => replies' = <<>> /\ sent' /\ at' \in {request', "done"}
      BY <1>1, <1>3
    <2>2. link' = "up" /\ sent' /\ request' = None => replies' # <<>>
      BY <1>1, NoneIsApart DEF Step
    <2>3. \A i \in DOMAIN replies' : replies'[i].severity = 4
      BY <1>1 DEF CInv, Exchange
    <2>4. link' = "up" => replies' = <<>>
      BY <1>1, <1>3
    <2>5. at' # "handshake"
      BY <1>1 DEF Step
    <2>6. Verdict'
      BY <1>1 DEF CInv, Verdict
    <2> QED
      BY <1>1, <2>1, <2>2, <2>3, <2>4, <2>5, <2>6 DEF Exchange
  <1>8. Truth'
    <2> USE <1>1, <1>4, <1>5 DEF Truth
    <2>1. at' = "payload" => taken' = 0
      BY DEF CInv
    <2>2. at' \in {"payload", "MAIL", "RCPT"} => taken' = 0
      BY <2>1 DEF CInv, Early
    <2>3. at' = "payload" /\ Answered' => Head(replies').severity # 2
      BY DEF Answered
    <2>4. at' = "payload" => outcome' \notin {"Delivered", "Deferred", "Rejected"}
      <3>1. at = "payload" => outcome = None
        BY DEF CInv, Verdict
      <3> QED
        BY <3>1, NoneIsApart
    <2>5. /\ at' \in Early \cup {"RCPT", "DATA"} => taken' = 0
          /\ outcome' = "Delivered" => taken' = 1
          /\ outcome' \in {"Deferred", "Rejected"} => taken' = 0
      BY DEF CInv
    <2> QED
      BY <2>1, <2>2, <2>3, <2>4, <2>5
  <1>9. Envelope'
    <2> USE <1>1, <1>5
    <2>1. at' = "RCPT" => named' < NRcpt /\ accepted' = named'
      BY DEF CInv, Envelope
    <2>2. at' = "RCPT" /\ Answered' => Head(replies').severity # 2
      BY <1>4 DEF Answered
    <2>3. request' = "RCPT" => accepted' < NRcpt
      BY <2>1
    <2>4. /\ at' \in {"DATA", "payload"} => accepted' = NRcpt
          /\ at' \in Early => named' = 0 /\ accepted' = 0
          /\ taken' > 0 => accepted' = NRcpt
      BY DEF CInv, Envelope
    <2>5. request' = "payload" => accepted' = NRcpt
      BY <2>4
    <2> QED
      BY <2>1, <2>2, <2>3, <2>4, <2>5 DEF Envelope
  <1>10. Privacy'
    <2>1. at \in Opening => exposed' = {}
      BY <1>1 DEF CInv, Privacy, Opening, Private
    <2>2. request' = "EHLO" => exposed' = {}
      BY <1>5, <2>1 DEF Opening
    <2>3. at = "EHLO" /\ Answered' => Head(replies').severity # 2
      BY <1>1, <1>4 DEF Answered
    <2>4. at = "greeting" \/ (at = "EHLO" /\ ~ onTls) => ~ offered
      BY <1>1 DEF CInv, Privacy
    <2>5. at \in Private => at \notin Opening \cup {"QUIT", "done"}
      BY DEF Private, Opening
    <2>6. NothingInClear'
      <3> SUFFICES ASSUME NEW x \in exposed', x[2] = "clear"
                   PROVE  mode # "submitTls" /\ (mode = "deliverTls" => ~ offered)
        BY <1>1 DEF NothingInClear
      <3>1. CASE x \in exposed
        BY <3>1 DEF CInv, Privacy, NothingInClear
      <3>2. CASE at \in Private /\ x = <<at, Now>>
        BY <2>5, <3>2 DEF CInv, Privacy, Now
      <3> QED
        BY <1>1, <3>1, <3>2
    <2>7. /\ mode = "submitTls" /\ ~ onTls => at \in Opening \cup {"QUIT", "done"}
          /\ mode = "deliverTls" /\ ~ onTls /\ at \notin Opening \cup {"QUIT", "done"} => ~ offered
      BY DEF CInv, Privacy
    <2> QED
      BY <1>1, <2>1, <2>2, <2>3, <2>4, <2>6, <2>7 DEF Privacy
  <1> QED
    BY <1>6, <1>7, <1>8, <1>9, <1>10 DEF CInv

\* Steps that end the dialogue without a word more.
LEMMA EndingKeeps ==
  ASSUME CInv, Fails \/ HandshakeFails \/ Parted
  PROVE  /\ CInv'
         /\ \/ outcome' = outcome
            \/ outcome = None /\ outcome' = "Wire"
         /\ taken' = taken
  <1>1. /\ UNCHANGED <<mode, named, onTls, exposed, request, link, accepted, taken, offered>>
        /\ at' = "done"
    BY DEF Fails, HandshakeFails, Parted, ReadReply, wire, server
  <1>2. \/ replies' = replies /\ sent' = sent
        \/ /\ replies' \in Seq(Reply) /\ sent' = FALSE /\ request = None
           /\ link = "up" => replies' = <<>>
           /\ \A i \in DOMAIN replies' : replies'[i].severity = 4
    <2>1. CASE Parted
      <3>1. ReadReply
        BY <2>1 DEF Parted
      <3> QED
        BY <3>1, Reading
    <2>2. CASE Fails \/ HandshakeFails
      BY <2>2 DEF Fails, HandshakeFails, wire
    <2> QED
      BY <2>1, <2>2
  <1>3. /\ outcome' # None
        /\ \/ outcome' = outcome
           \/ outcome = None /\ outcome' = "Wire"
    <2>1. CASE Parted
      <3>1. at = "QUIT" /\ outcome' = outcome
        BY <2>1 DEF Parted
      <3> QED
        BY <3>1 DEF CInv, Verdict
    <2>2. CASE Fails
      BY <2>2, NoneIsApart DEF Fails
    <2>3. CASE HandshakeFails
      <3>1. at = "handshake" /\ outcome' = "Wire"
        BY <2>3 DEF HandshakeFails
      <3>2. outcome = None
        BY <3>1 DEF CInv, Verdict
      <3> QED
        BY <3>1, <3>2, NoneIsApart
    <2> QED
      BY <2>1, <2>2, <2>3
  <1>4. TypeOK'
    <2>1. outcome' \in Outcome \cup {None}
      BY <1>3 DEF CInv, TypeOK, Outcome
    <2>2. replies' \in Seq(Reply) /\ sent' \in BOOLEAN
      BY <1>2 DEF CInv, TypeOK
    <2>3. at' \in Point
      BY <1>1 DEF Point
    <2> QED
      BY <1>1, <2>1, <2>2, <2>3 DEF CInv, TypeOK
  <1>5. Exchange'
    <2>1. CASE replies' = replies /\ sent' = sent
      BY <1>1, <2>1 DEF CInv, Exchange
    <2>2. CASE /\ sent' = FALSE /\ request = None
               /\ link = "up" => replies' = <<>>
               /\ \A i \in DOMAIN replies' : replies'[i].severity = 4
      BY <1>1, <2>2 DEF Exchange
    <2> QED
      BY <1>2, <2>1, <2>2
  <1>6. Verdict'
    BY <1>1, <1>3 DEF Verdict
  <1>7. Truth'
    <2>1. at' \notin Early \cup {"RCPT", "DATA", "payload"}
      BY <1>1 DEF Early, Opening
    <2> QED
      BY <1>1, <1>3, <2>1 DEF CInv, Truth
  <1>8. Envelope'
    <2>1. at' \notin Early \cup {"RCPT", "DATA", "payload"}
      BY <1>1 DEF Early, Opening
    <2> QED
      BY <1>1, <2>1 DEF CInv, Envelope
  <1>9. Privacy'
    <2>1. at' \notin Opening
      BY <1>1 DEF Opening
    <2> QED
      BY <1>1, <2>1 DEF CInv, Privacy, NothingInClear
  <1> QED
    BY <1>1, <1>3, <1>4, <1>5, <1>6, <1>7, <1>8, <1>9 DEF CInv

LEMMA HandshakeKeeps ==
  ASSUME CInv, Handshake
  PROVE  CInv'
  <1>1. /\ UNCHANGED <<mode, sent, named, outcome, exposed, request, replies, link, accepted,
                       taken, offered>>
        /\ at = "handshake" /\ at' = "EHLO" /\ onTls' = TRUE /\ link = "up"
    BY DEF Handshake, wire, server
  <1>2. ~ sent
    BY <1>1 DEF CInv, Exchange
  <1>3. request = None
    BY <1>2 DEF CInv, Exchange
  <1>4. TypeOK'
    BY <1>1 DEF CInv, TypeOK, Point, Step
  <1>5. Exchange' /\ Verdict'
    <2>1. Exchange'
      BY <1>1, <1>3 DEF CInv, Exchange
    <2>2. Verdict'
      BY <1>1 DEF CInv, Verdict
    <2> QED
      BY <2>1, <2>2
  <1>6. Truth'
    BY <1>1 DEF CInv, Truth, Early, Opening
  <1>7. Envelope'
    BY <1>1 DEF CInv, Envelope, Early, Opening
  <1>8. Privacy'
    BY <1>1 DEF CInv, Privacy, Opening, NothingInClear
  <1> QED
    BY <1>4, <1>5, <1>6, <1>7, <1>8 DEF CInv

LEMMA StepKeeps == CInv /\ [Next]_vars => CInv'
  <1> SUFFICES ASSUME CInv, [Next]_vars PROVE CInv'
    OBVIOUS
  <1>1. CASE \E reply \in Reply : Answer(reply)
    BY <1>1, AnswerKeeps
  <1>2. CASE Shutdown \/ Cut
    BY <1>2, NetworkKeeps
  <1>3. CASE NoTlsOffered \/ Accepted \/ Refused
    BY <1>3, PartingKeeps
  <1>4. CASE Heard
    BY <1>4, HeardKeeps
  <1>5. CASE Say
    BY <1>5, SayKeeps
  <1>6. CASE Fails \/ HandshakeFails \/ Parted
    BY <1>6, EndingKeeps
  <1>7. CASE Handshake
    BY <1>7, HandshakeKeeps
  <1>8. CASE UNCHANGED vars
    <2>1. UNCHANGED <<mode, at, sent, named, onTls, outcome, exposed, request, replies, link,
                      accepted, taken, offered>>
      BY <1>8 DEF vars, client, wire, server
    <2>2. UNCHANGED Answered
      BY <2>1 DEF Answered
    <2>3. TypeOK' /\ Exchange'
      BY <2>1 DEF CInv, TypeOK, Exchange
    <2>4. Verdict'
      BY <2>1 DEF CInv, Verdict
    <2>5. Truth' /\ Envelope'
      BY <2>1, <2>2 DEF CInv, Truth, Envelope
    <2>6. Privacy'
      BY <2>1, <2>2 DEF CInv, Privacy, NothingInClear
    <2> QED
      BY <2>3, <2>4, <2>5, <2>6 DEF CInv
  <1> QED
    BY <1>1, <1>2, <1>3, <1>4, <1>5, <1>6, <1>7, <1>8 DEF Next, Client

\* Each step of a dialogue is one of an attempt, or none.
LEMMA StepRefines ==
  ASSUME CInv, [Next]_vars
  PROVE  [Attempted!Next]_<<outcome, taken>>
  <1>1. CASE \E reply \in Reply : Answer(reply)
    <2> PICK reply \in Reply : Answer(reply)
      BY <1>1
    <2>1. outcome' = outcome
      BY DEF Answer, client
    <2>2. CASE request = "payload" /\ reply.severity = 2
      <3>1. taken = 0 /\ taken' = 1
        BY <2>2 DEF Answer, CInv, Truth
      <3>2. outcome \in {None, "Wire"}
        BY <2>2 DEF CInv, Truth, TypeOK, Outcome
      <3> QED
        BY <2>1, <3>1, <3>2 DEF Attempted!Next, Attempted!Take
    <2>3. CASE ~ (request = "payload" /\ reply.severity = 2)
      BY <2>1, <2>3 DEF Answer
    <2> QED
      BY <2>2, <2>3
  <1>2. CASE NoTlsOffered \/ Accepted \/ Refused
    <2>1. \E o \in Outcome : Attempted!Report(o)
      BY <1>2, PartingKeeps
    <2> QED
      BY <2>1 DEF Attempted!Next, Attempted!Outcome, Outcome
  <1>3. CASE Fails \/ HandshakeFails \/ Parted
    <2>1. /\ taken' = taken
          /\ outcome' = outcome \/ (outcome = None /\ outcome' = "Wire")
      BY <1>3, EndingKeeps
    <2> QED
      BY <2>1 DEF Attempted!Next, Attempted!Report, Attempted!Outcome
  <1>4. CASE Shutdown \/ Cut \/ Heard \/ Say \/ Handshake \/ UNCHANGED vars
    BY <1>4 DEF Shutdown, Cut, Heard, ReadReply, Say, Handshake, vars, client, server
  <1> QED
    BY <1>1, <1>2, <1>3, <1>4 DEF Next, Client

------------------------------------------------------------------------------
\* The invariant of the whole dialogue: send/conversation.rs.
THEOREM Conversation_Invariant == Spec => []CInv
  BY InitC, StepKeeps, PTL DEF Spec

\* The client's and the server's view keep their types: never more recipients
\* counted than there are, and one letter at most taken per dialogue.
THEOREM ConversationTypes == Spec => []TypeOK
  BY Conversation_Invariant, PTL DEF CInv

\* No server takes a letter for part of its envelope, for any number of
\* recipients and wherever the connection is lost.
THEOREM NeverPartOfAnEnvelope == Spec => []WholeEnvelope
  <1>1. CInv => WholeEnvelope
    BY DEF CInv, Envelope, WholeEnvelope
  <1> QED
    BY <1>1, Conversation_Invariant, PTL

\* Neither the password nor the letter of a submission over STARTTLS crosses in
\* the clear, nor a letter whose server offered STARTTLS.
THEOREM NeverInClear == Spec => []NothingInClear
  <1>1. CInv => NothingInClear
    BY DEF CInv, Privacy
  <1> QED
    BY <1>1, Conversation_Invariant, PTL

\* Whatever the server answers and wherever the connection is lost, the outcome
\* reported is true: the dialogue implements the attempt of module Attempt.
THEOREM ReportsTheTruth == Spec => ImplementsAttempt
  <1>1. Init => Attempted!Init
    BY DEF Init, Attempted!Init
  <1> QED
    BY <1>1, StepRefines, Conversation_Invariant, PTL DEF Spec, ImplementsAttempt, Attempted!Spec
------------------------------------------------------------------------------
LEMMA DeliveryIsDialogue == ClientD \/ ServerD => [Next]_vars
  BY DEF ClientD, ServerD, SayPayload, SayOther, Listen, ShutdownD, CutD, Arrive, AnswerD,
     Next, Client

\* The dialogue about a letter (module Delivery) is a dialogue: what is proved of
\* every dialogue holds of it.
THEOREM DialogueWithLetter == SpecD => Spec
  <1>1. InitD => Init
    BY DEF InitD
  <1>2. [ClientD \/ ServerD]_<<vars, parts>> => [Next]_vars
    BY DeliveryIsDialogue
  <1> QED
    BY <1>1, <1>2, PTL DEF SpecD, Spec

------------------------------------------------------------------------------
\* Module Letter: the lines on the wire.

\* Every line is stuffed, and the lone dot ends them.
LEMMA PayloadIs ==
  ASSUME NEW raw, IsLetter(raw)
  PROVE  /\ Len(raw) \in Nat /\ DOMAIN raw = 1 .. Len(raw)
         /\ Len(Payload(raw)) = Len(raw) + 1
         /\ Payload(raw)[Len(raw) + 1] = Lone
         /\ \A i \in 1 .. Len(raw) : Payload(raw)[i] = Stuffed(raw[i])
  <1> DEFINE pieces == IF raw # <<>> /\ Last(raw).end = "none" THEN raw ELSE Append(raw, Nothing)
             lines == IF Last(pieces) = Nothing THEN Front(pieces) ELSE pieces
             stuffed == [i \in DOMAIN lines |-> Stuffed(lines[i])]
  <1>1. raw \in Seq(ALine) /\ Nothing \in ALine
    BY DEF IsLetter, Nothing, ALine, Kind
  <1>2. Len(raw) \in Nat /\ DOMAIN raw = 1 .. Len(raw)
    BY <1>1
  <1>3. lines = raw
    <2>1. CASE raw # <<>> /\ Last(raw).end = "none"
      BY <2>1 DEF IsLetter
    <2>2. CASE ~ (raw # <<>> /\ Last(raw).end = "none")
      <3>1. pieces = Append(raw, Nothing)
        BY <2>2
      <3> HIDE DEF pieces
      <3>2. /\ pieces \in Seq(ALine) /\ Len(pieces) = Len(raw) + 1
            /\ pieces[Len(raw) + 1] = Nothing
            /\ \A i \in 1 .. Len(raw) : pieces[i] = raw[i]
        BY <1>1, <3>1, AppendProperties
      <3>3. Last(pieces) = Nothing
        BY <3>2 DEF Last
      <3>4. Front(pieces) = raw
        <4>1. Front(pieces) = SubSeq(pieces, 1, Len(raw))
          BY <1>2, <3>2 DEF Front
        <4>2. /\ SubSeq(pieces, 1, Len(raw)) \in Seq(ALine)
              /\ Len(SubSeq(pieces, 1, Len(raw))) = Len(raw)
              /\ \A i \in 1 .. Len(raw) : SubSeq(pieces, 1, Len(raw))[i] = pieces[i]
          BY <1>2, <3>2, SubSeqProperties
        <4> QED
          BY <1>1, <3>2, <4>1, <4>2, SeqEqual
      <3> QED
        BY <3>3, <3>4
    <2> QED
      BY <2>1, <2>2
  <1>4. Payload(raw) = Append(stuffed, Lone)
    BY DEF Payload
  <1> HIDE DEF lines
  <1>5. stuffed \in Seq({Stuffed(raw[i]) : i \in 1 .. Len(raw)} \cup {Lone})
        /\ Len(stuffed) = Len(raw) /\ \A i \in 1 .. Len(raw) : stuffed[i] = Stuffed(raw[i])
    BY <1>2, <1>3
  <1> HIDE DEF stuffed
  <1> QED
    BY <1>2, <1>4, <1>5, AppendProperties

\* A line of a letter, stuffed, is not the lone dot.
LEMMA StuffedIsNotLone ==
  ASSUME NEW raw, IsLetter(raw), NEW i \in 1 .. Len(raw)
  PROVE  /\ raw[i].dots \in Nat
         /\ raw[i] = [dots |-> raw[i].dots, is |-> raw[i].is, boundary |-> raw[i].boundary,
                      end |-> raw[i].end]
         /\ Stuffed(raw[i]).dots # 1 /\ Stuffed(raw[i]) # Lone
  <1>1. raw[i] \in ALine
    BY ElementOfSeq DEF IsLetter
  <1>2. /\ raw[i].dots \in Nat
        /\ raw[i] = [dots |-> raw[i].dots, is |-> raw[i].is, boundary |-> raw[i].boundary,
                     end |-> raw[i].end]
    BY <1>1 DEF ALine
  <1>3. Stuffed(raw[i]).dots # 1
    BY <1>2 DEF Stuffed
  <1>4. Lone.dots = 1
    BY DEF Lone, Line
  <1> QED
    BY <1>2, <1>3, <1>4

\* What has come is a beginning of the payload.
LEMMA StreamIs ==
  ASSUME NEW raw, IsLetter(raw), NEW k \in 0 .. Len(Payload(raw))
  PROVE  LET stream == SubSeq(Payload(raw), 1, k)
         IN  /\ DOMAIN stream = 1 .. k
             /\ \A i \in 1 .. k : stream[i] = Payload(raw)[i]
  <1>1. k \in Int /\ 1 \in Int /\ k - 1 + 1 = k /\ (1 <= k \/ k = 0)
    BY PayloadIs
  <1> DEFINE S == {Payload(raw)[i] : i \in 1 .. k}
             stream == SubSeq(Payload(raw), 1, k)
  <1>2. \A i \in 1 .. k : Payload(raw)[i] \in S
    OBVIOUS
  <1> HIDE DEF S
  <1>3. /\ stream \in Seq(S) /\ Len(stream) = k
        /\ \A i \in 1 .. k : stream[i] = Payload(raw)[1 + i - 1]
    BY <1>1, <1>2, SubSeqProperties
  <1> HIDE DEF stream
  <1>4. \A i \in 1 .. k : stream[i] = Payload(raw)[i]
    BY <1>1, <1>3
  <1>5. DOMAIN stream = 1 .. k
    BY <1>3
  <1> QED
    BY <1>4, <1>5 DEF stream

\* The server sees the end when it has everything, and not before.
LEMMA EndIsTheEnd ==
  ASSUME NEW raw, IsLetter(raw), NEW k \in 0 .. Len(Payload(raw))
  PROVE  Complete(SubSeq(Payload(raw), 1, k)) <=> k = Len(raw) + 1
  <1>1. ASSUME NEW i \in 1 .. k, Payload(raw)[i] = Lone
        PROVE  k = Len(raw) + 1
    <2>1. ASSUME i \in 1 .. Len(raw) PROVE FALSE
      <3>1. Payload(raw)[i] = Stuffed(raw[i])
        BY <2>1, PayloadIs
      <3>2. Stuffed(raw[i]) # Lone
        BY <2>1, StuffedIsNotLone
      <3> QED
        BY <1>1, <3>1, <3>2
    <2> QED
      BY <1>1, <2>1, PayloadIs
  <1>2. k = Len(raw) + 1 => k \in 1 .. k /\ Payload(raw)[k] = Lone
    BY PayloadIs
  <1> QED
    BY <1>1, <1>2, StreamIs DEF Complete

\* What is read is what was written, but for how the lines end.
LEMMA ReadsBack ==
  ASSUME NEW raw, IsLetter(raw), NEW k \in 0 .. Len(Payload(raw)),
         Complete(SubSeq(Payload(raw), 1, k))
  PROVE  /\ Words(ReadPayload(SubSeq(Payload(raw), 1, k))) = Words(raw)
         /\ (\A i \in 1 .. Len(raw) : raw[i].end = "crlf")
              => ReadPayload(SubSeq(Payload(raw), 1, k)) = raw
  <1> DEFINE stream == SubSeq(Payload(raw), 1, k)
             IsEnd(i) == stream[i] = Lone /\ \A j \in 1 .. (i - 1) : stream[j] # Lone
             end == CHOOSE i \in DOMAIN stream : IsEnd(i)
             unstuffed == [i \in 1 .. (end - 1) |->
                             [stream[i] EXCEPT !.dots = IF @ > 0 THEN @ - 1 ELSE @]]
  <1>1. k = Len(raw) + 1
    BY EndIsTheEnd
  <1>2. /\ Len(raw) \in Nat /\ DOMAIN raw = 1 .. Len(raw)
        /\ DOMAIN stream = 1 .. Len(raw) + 1
        /\ stream[Len(raw) + 1] = Lone
        /\ \A i \in 1 .. Len(raw) : stream[i] = Stuffed(raw[i])
    BY <1>1, PayloadIs, StreamIs
  <1> HIDE DEF stream
  <1>3. \A i \in 1 .. Len(raw) : stream[i] # Lone
    BY <1>2, StuffedIsNotLone
  <1>4. \A i \in DOMAIN stream : IsEnd(i) <=> i = Len(raw) + 1
    BY <1>2, <1>3
  <1>5. end = Len(raw) + 1
    <2>1. Len(raw) + 1 \in DOMAIN stream /\ IsEnd(Len(raw) + 1)
      BY <1>2, <1>4
    <2> HIDE DEF IsEnd
    <2>2. end \in DOMAIN stream /\ IsEnd(end)
      BY <2>1
    <2> QED
      BY <1>4, <2>2
  <1>6. ReadPayload(stream) = unstuffed
    BY DEF ReadPayload
  <1> HIDE DEF end
  <1>7. end - 1 = Len(raw)
    BY <1>2, <1>5
  <1>8. ASSUME NEW i \in 1 .. Len(raw)
        PROVE  /\ <<unstuffed[i].dots, unstuffed[i].is, unstuffed[i].boundary>>
                    = <<raw[i].dots, raw[i].is, raw[i].boundary>>
               /\ raw[i].end = "crlf" => unstuffed[i] = raw[i]
    <2>1. unstuffed[i] = [stream[i] EXCEPT !.dots = IF @ > 0 THEN @ - 1 ELSE @]
      BY <1>7
    <2>2. /\ raw[i].dots \in Nat
          /\ raw[i] = [dots |-> raw[i].dots, is |-> raw[i].is, boundary |-> raw[i].boundary,
                       end |-> raw[i].end]
      BY StuffedIsNotLone
    <2>3. stream[i] = [raw[i] EXCEPT !.dots = IF @ > 0 THEN @ + 1 ELSE @, !.end = "crlf"]
      BY <1>2 DEF Stuffed
    <2>4. /\ stream[i].dots = (IF raw[i].dots > 0 THEN raw[i].dots + 1 ELSE raw[i].dots)
          /\ stream[i].is = raw[i].is /\ stream[i].boundary = raw[i].boundary
          /\ stream[i] = [dots |-> stream[i].dots, is |-> raw[i].is,
                          boundary |-> raw[i].boundary, end |-> "crlf"]
      BY <2>2, <2>3
    <2> QED
      BY <2>1, <2>2, <2>4
  <1>9. unstuffed = [i \in DOMAIN raw |-> unstuffed[i]] /\ DOMAIN unstuffed = DOMAIN raw
    BY <1>2, <1>7
  <1> HIDE DEF unstuffed
  <1>10. Words(unstuffed) = Words(raw)
    BY <1>2, <1>8, <1>9 DEF Words
  <1>11. (\A i \in 1 .. Len(raw) : raw[i].end = "crlf") => unstuffed = raw
    <2>1. raw = [i \in DOMAIN raw |-> raw[i]]
      BY <1>2 DEF IsLetter
    <2> QED
      BY <1>2, <1>8, <1>9, <2>1
  <1> QED
    BY <1>6, <1>10, <1>11 DEF stream

------------------------------------------------------------------------------
(***************************************************************************)
(* Module Letter: what is put together here, and what is seen in it.       *)
(***************************************************************************)

\* The lines of what is composed.
CrLine == [dots : Nat, is : Kind, boundary : Nat, end : {"crlf"}]

\* What a mail program makes of a line where it stands.
Content == Kind \ {"seal", "multipart", "open", "close"}

State(inside, over, seen) == [inside |-> inside, over |-> over, seen |-> seen]

\* h[n] is what has been made of the first n lines.
Follows(h, lines) == \A n \in 1 .. Len(lines) : h[n] = Reads(h[n - 1], lines[n])

Occurs(p, lines, o) ==
  o \in Nat /\ o + Len(p) <= Len(lines) /\ \A i \in 1 .. Len(p) : lines[o + i] = p[i]

\* Wherever p occurs, it leads a reader from state s to state t.
Leads(p, s, t) ==
  \A h, o : \A lines \in Seq(CrLine) :
    Follows(h, lines) /\ Occurs(p, lines, o) /\ h[o] = s => h[o + Len(p)] = t

\* The part p, inside others with boundaries that are not in B, shows S.
Shows(p, S, B, multipart) ==
  /\ p \in Seq(CrLine) \ {<<>>} /\ S \in Seq(Content)
  /\ \A I \in Seq(Nat), z \in Seq(Content) :
       (\A i \in DOMAIN I : I[i] \notin B)
         => Leads(p, State(I, FALSE, z), State(I, multipart /\ I = <<>>, z \o S))

LEMMA LeadsOn ==
  ASSUME NEW p \in Seq(CrLine), NEW q \in Seq(CrLine), NEW s, NEW t, NEW u,
         Leads(p, s, t), Leads(q, t, u)
  PROVE  Leads(p \o q, s, u)
  <1>1. /\ Len(p) \in Nat /\ Len(q) \in Nat /\ Len(p \o q) = Len(p) + Len(q)
        /\ \A i \in 1 .. Len(p) : (p \o q)[i] = p[i]
        /\ \A i \in 1 .. Len(q) : (p \o q)[Len(p) + i] = q[i]
    OBVIOUS
  <1> DEFINE r == p \o q
  <1> HIDE DEF r
  <1>2. SUFFICES ASSUME NEW h, NEW o, NEW lines \in Seq(CrLine), Follows(h, lines),
                        Occurs(r, lines, o), h[o] = s
                 PROVE  h[o + Len(r)] = u
    BY DEF Leads, r
  <1>3. o \in Nat /\ Len(lines) \in Nat /\ o + (Len(p) + Len(q)) <= Len(lines)
    BY <1>1, <1>2 DEF Occurs, r
  <1>4. Occurs(p, lines, o)
    <2>1. ASSUME NEW i \in 1 .. Len(p) PROVE lines[o + i] = p[i]
      <3>1. i \in 1 .. Len(r) /\ r[i] = p[i]
        BY <1>1, <2>1 DEF r
      <3> QED
        BY <1>2, <3>1 DEF Occurs
    <2> QED
      BY <1>1, <1>3, <2>1 DEF Occurs
  <1>5. Occurs(q, lines, o + Len(p))
    <2>1. ASSUME NEW i \in 1 .. Len(q) PROVE lines[(o + Len(p)) + i] = q[i]
      <3>1. Len(p) + i \in 1 .. Len(r) /\ r[Len(p) + i] = q[i]
        BY <1>1, <2>1 DEF r
      <3>2. lines[o + (Len(p) + i)] = q[i]
        BY <1>2, <3>1 DEF Occurs
      <3>3. o + (Len(p) + i) = (o + Len(p)) + i
        BY <1>1, <1>3, <2>1
      <3> QED
        BY <3>2, <3>3
    <2>2. o + Len(p) \in Nat /\ (o + Len(p)) + Len(q) <= Len(lines)
      BY <1>1, <1>3
    <2> QED
      BY <2>1, <2>2 DEF Occurs
  <1>6. h[o + Len(p)] = t
    BY <1>2, <1>4 DEF Leads
  <1>7. h[(o + Len(p)) + Len(q)] = u
    BY <1>2, <1>5, <1>6 DEF Leads
  <1>8. (o + Len(p)) + Len(q) = o + Len(r)
    BY <1>1, <1>3 DEF r
  <1> QED
    BY <1>7, <1>8

LEMMA OneLine ==
  ASSUME NEW l \in CrLine, NEW s
  PROVE  <<l>> \in Seq(CrLine) /\ Leads(<<l>>, s, Reads(s, l))
  <1>1. Len(<<l>>) = 1 /\ <<l>>[1] = l /\ <<l>> \in Seq(CrLine)
    OBVIOUS
  <1>2. ASSUME NEW h, NEW o, NEW lines \in Seq(CrLine), Follows(h, lines),
               Occurs(<<l>>, lines, o), h[o] = s
        PROVE  h[o + Len(<<l>>)] = Reads(s, l)
    <2>1. o \in Nat /\ o + 1 \in 1 .. Len(lines) /\ lines[o + 1] = l
      BY <1>1, <1>2 DEF Occurs
    <2>2. h[o + 1] = Reads(h[(o + 1) - 1], lines[o + 1])
      BY <1>2, <2>1 DEF Follows
    <2> QED
      BY <1>1, <1>2, <2>1, <2>2
  <1> QED
    BY <1>1, <1>2 DEF Leads

\* What Seen computes.
LEMMA SeenIs ==
  ASSUME NEW lines \in Seq(CrLine), NEW t, Leads(lines, Unread, t)
  PROVE  Seen(lines) = t.seen
  <1> DEFINE N == Len(lines)
             Is(h, k) == h = [n \in 0 .. k |-> IF n = 0 THEN Unread ELSE Reads(h[n - 1], lines[n])]
             Up == {k \in Nat : \E h : Is(h, k)}
             h0 == CHOOSE h : Is(h, N)
  <1>1. N \in Nat
    OBVIOUS
  <1>2. 0 \in Up
    <2>1. Is([n \in 0 .. 0 |-> Unread], 0)
      OBVIOUS
    <2> QED
      BY <2>1
  <1>3. \A k \in Up : k + 1 \in Up
    <2>1. SUFFICES ASSUME NEW k \in Nat, NEW h, Is(h, k) PROVE \E g : Is(g, k + 1)
      OBVIOUS
    <2> DEFINE g == [n \in 0 .. (k + 1) |-> IF n \in 0 .. k THEN h[n] ELSE Reads(h[k], lines[k + 1])]
    <2>2. ASSUME NEW n \in 0 .. (k + 1)
          PROVE  g[n] = IF n = 0 THEN Unread ELSE Reads(g[n - 1], lines[n])
      <3>1. CASE n \in 0 .. k
        <4>1. h[n] = IF n = 0 THEN Unread ELSE Reads(h[n - 1], lines[n])
          BY <2>1, <3>1
        <4>2. g[n] = h[n] /\ (n # 0 => g[n - 1] = h[n - 1])
          BY <3>1
        <4> QED
          BY <4>1, <4>2
      <3>2. CASE n = k + 1
        <4>1. n # 0 /\ n - 1 = k /\ n \notin 0 .. k
          BY <3>2
        <4>2. g[n - 1] = h[k] /\ g[n] = Reads(h[k], lines[k + 1])
          BY <4>1
        <4> QED
          BY <3>2, <4>1, <4>2
      <3> QED
        BY <3>1, <3>2
    <2>3. Is(g, k + 1)
      BY <2>2
    <2> QED
      BY <2>3
  <1>4. Up = Nat
    <2> HIDE DEF Is
    <2> QED
      BY <1>2, <1>3, Induction
  <1>5. Is(h0, N)
    <2> HIDE DEF Is
    <2> QED
      BY <1>1, <1>4
  <1>6. Seen(lines) = h0[N].seen
    BY DEF Seen
  <1>7. h0[0] = Unread /\ Follows(h0, lines)
    <2> HIDE DEF h0
    <2>1. h0[0] = Unread
      BY <1>1, <1>5
    <2>2. ASSUME NEW n \in 1 .. N PROVE h0[n] = Reads(h0[n - 1], lines[n])
      BY <1>1, <1>5, <2>2
    <2> QED
      BY <2>1, <2>2 DEF Follows
  <1>8. Occurs(lines, lines, 0)
    BY <1>1 DEF Occurs
  <1>9. h0[0 + N] = t
    <2> HIDE DEF h0
    <2> QED
      BY <1>7, <1>8 DEF Leads
  <1> QED
    BY <1>1, <1>6, <1>9

\* A line that is no boundary shows what it is.
LEMMA ContentReads ==
  ASSUME NEW I, NEW z \in Seq(Content), NEW l \in CrLine, l.is \in Content
  PROVE  Reads(State(I, FALSE, z), l) = State(I, FALSE, z \o <<l.is>>)
  <1>1. l.is \notin {"seal", "multipart", "open", "close"}
    BY DEF Content
  <1>2. Append(z, l.is) = z \o <<l.is>>
    OBVIOUS
  <1> QED
    BY <1>1, <1>2 DEF Reads, State

LEMMA SealReads ==
  ASSUME NEW I, NEW z, NEW l, l.is = "seal"
  PROVE  Reads(State(I, FALSE, z), l) = State(I, FALSE, z)
  BY DEF Reads, State

LEMMA MultipartReads ==
  ASSUME NEW I, NEW z, NEW l, l.is = "multipart"
  PROVE  Reads(State(I, FALSE, z), l) = State(Append(I, l.boundary), FALSE, z)
  BY DEF Reads, State

\* A boundary of the innermost multipart, if no other has the same.
LEMMA BoundaryReads ==
  ASSUME NEW I \in Seq(Nat), NEW z, NEW l, l.boundary \in Nat,
         \A i \in DOMAIN I : I[i] # l.boundary
  PROVE  /\ l.is = "open" =>
              Reads(State(Append(I, l.boundary), FALSE, z), l) = State(Append(I, l.boundary), FALSE, z)
         /\ l.is = "close" =>
              Reads(State(Append(I, l.boundary), FALSE, z), l) = State(I, I = <<>>, z)
  <1> DEFINE b == l.boundary
             J == Append(I, b)
             s == State(J, FALSE, z)
             levels == {i \in DOMAIN s.inside : s.inside[i] = b}
             outermost == CHOOSE i \in levels : \A j \in levels : i <= j
  <1>1. /\ Len(I) \in Nat /\ DOMAIN J = 1 .. Len(I) + 1 /\ J[Len(I) + 1] = b /\ J \in Seq(Nat)
        /\ \A i \in 1 .. Len(I) : J[i] = I[i]
        /\ DOMAIN I = 1 .. Len(I) /\ Len(J) = Len(I) + 1
    OBVIOUS
  <1>2. s = [inside |-> J, over |-> FALSE, seen |-> z] /\ s.inside = J /\ s.over = FALSE
    BY DEF State
  <1>3. levels = {Len(I) + 1}
    <2> HIDE DEF J, s
    <2>1. \A i \in DOMAIN J : J[i] = b <=> i = Len(I) + 1
      BY <1>1
    <2>2. Len(I) + 1 \in DOMAIN J
      BY <1>1
    <2> QED
      BY <1>2, <2>1, <2>2
  <1>4. outermost = Len(I) + 1
    <2> HIDE DEF levels
    <2> QED
      BY <1>1, <1>3
  <1>5. SubSeq(J, 1, Len(I) + 1) = J
    BY <1>1, SubSeqFull
  <1>6. SubSeq(J, 1, (Len(I) + 1) - 1) = I
    <2>1. (Len(I) + 1) - 1 = Len(I)
      BY <1>1
    <2> HIDE DEF J
    <2>2. /\ SubSeq(J, 1, Len(I)) \in Seq(Nat) /\ Len(SubSeq(J, 1, Len(I))) = Len(I)
          /\ \A i \in 1 .. Len(I) : SubSeq(J, 1, Len(I))[i] = J[i]
      BY <1>1
    <2>3. SubSeq(J, 1, Len(I)) = I
      BY <1>1, <2>2, SeqEqual
    <2> QED
      BY <2>1, <2>3
  <1>7. levels # {}
    BY <1>3
  <1>8. Len(I) + 1 = 1 <=> I = <<>>
    BY <1>1
  <1>9. l.is = "open" => Reads(s, l) = [s EXCEPT !.inside = SubSeq(J, 1, outermost)]
    <2> HIDE DEF levels, outermost
    <2> QED
      BY <1>2, <1>7 DEF Reads, levels, outermost
  <1>10. l.is = "close" =>
           Reads(s, l) = [s EXCEPT !.inside = SubSeq(J, 1, outermost - 1), !.over = outermost = 1]
    <2> HIDE DEF levels, outermost
    <2> QED
      BY <1>2, <1>7 DEF Reads, levels, outermost
  <1> HIDE DEF J, levels, outermost
  <1>11. l.is = "open" => Reads(s, l) = s
    BY <1>2, <1>4, <1>5, <1>9
  <1>12. l.is = "close" => Reads(s, l) = State(I, I = <<>>, z)
    BY <1>2, <1>4, <1>6, <1>8, <1>10 DEF State
  <1> QED
    BY <1>11, <1>12 DEF J

\* The parts behind the first, each of one line.
Lines(K) == [i \in DOMAIN K |-> <<Line(0, K[i], 0)>>]

LEMMA LineIs ==
  ASSUME NEW n \in Nat, NEW k \in Kind, NEW b \in Nat
  PROVE  Line(n, k, b) \in CrLine /\ Line(n, k, b).is = k /\ Line(n, k, b).boundary = b
  BY DEF Line, CrLine

\* What FlattenSeq computes.
LEMMA FlatIs ==
  ASSUME NEW seqs, NEW N \in Nat \ {0}, Len(seqs) = N
  PROVE  \E f : /\ FlattenSeq(seqs) = f[N] /\ f[1] = seqs[1]
               /\ \A i \in 1 .. (N - 1) : f[i + 1] = f[i] \o seqs[i + 1]
  <1> DEFINE Is(f, k) == f = [i \in 1 .. k |-> IF i = 1 THEN seqs[i] ELSE f[i - 1] \o seqs[i]]
             Up == {k \in Nat : \E f : Is(f, k)}
             flat == CHOOSE f : Is(f, N)
  <1>1. 0 \in Up
    <2>1. Is([i \in 1 .. 0 |-> 0], 0)
      OBVIOUS
    <2> QED
      BY <2>1
  <1>2. \A k \in Up : k + 1 \in Up
    <2> HIDE DEF Is
    <2>1. SUFFICES ASSUME NEW k \in Nat, NEW f, Is(f, k) PROVE \E g : Is(g, k + 1)
      OBVIOUS
    <2> USE DEF Is
    <2> DEFINE last == IF k = 0 THEN seqs[1] ELSE f[k] \o seqs[k + 1]
               g == [i \in 1 .. (k + 1) |-> IF i \in 1 .. k THEN f[i] ELSE last]
    <2>2. ASSUME NEW i \in 1 .. (k + 1)
          PROVE  g[i] = IF i = 1 THEN seqs[i] ELSE g[i - 1] \o seqs[i]
      <3>1. CASE i \in 1 .. k
        <4>1. f[i] = IF i = 1 THEN seqs[i] ELSE f[i - 1] \o seqs[i]
          BY <2>1, <3>1
        <4>2. g[i] = f[i] /\ (i # 1 => g[i - 1] = f[i - 1])
          BY <3>1
        <4> QED
          BY <4>1, <4>2
      <3>2. CASE i = k + 1
        <4>1. g[i] = last
          BY <3>2
        <4>2. i # 1 => k # 0 /\ g[i - 1] = f[k]
          BY <3>2
        <4> QED
          BY <3>2, <4>1, <4>2
      <3> QED
        BY <3>1, <3>2
    <2>3. Is(g, k + 1)
      BY <2>2
    <2> QED
      BY <2>3
  <1> HIDE DEF Is
  <1>3. Up = Nat
    BY <1>1, <1>2, Induction
  <1>4. Is(flat, N)
    BY <1>3
  <1> HIDE DEF flat
  <1>5. flat = [i \in 1 .. N |-> IF i = 1 THEN seqs[i] ELSE flat[i - 1] \o seqs[i]]
    BY <1>4 DEF Is
  <1>6. ASSUME NEW i \in 1 .. (N - 1) PROVE flat[i + 1] = flat[i] \o seqs[i + 1]
    <2>1. i + 1 \in 1 .. N /\ i + 1 # 1 /\ (i + 1) - 1 = i
      OBVIOUS
    <2> QED
      BY <1>5, <2>1
  <1>7. flat[1] = seqs[1]
    BY <1>5
  <1>8. FlattenSeq(seqs) = flat[N]
    BY DEF FlattenSeq, flat, Is
  <1> QED
    BY <1>6, <1>7, <1>8

\* A multipart is a line, its parts with a line before each, and a line.
LEMMA MultipartIs ==
  ASSUME NEW p \in Seq(CrLine), NEW b \in Nat, NEW K \in Seq(Content)
  PROVE  \E flat :
           /\ Multipart(b, <<p>> \o Lines(K)) =
                (<<Line(0, "multipart", b)>> \o flat[Len(K) + 1]) \o <<Line(0, "close", b)>>
           /\ flat[1] = <<Line(0, "open", b)>> \o p
           /\ \A i \in 1 .. Len(K) :
                flat[i + 1] = flat[i] \o (<<Line(0, "open", b)>> \o <<Line(0, K[i], 0)>>)
  <1> DEFINE pieces == <<p>> \o Lines(K)
             opened == [i \in DOMAIN pieces |-> <<Line(0, "open", b)>> \o pieces[i]]
             N == Len(K) + 1
  <1>1. Len(K) \in Nat /\ DOMAIN K = 1 .. Len(K) /\ Content \subseteq Kind
    BY DEF Content
  <1>2. \A i \in 1 .. Len(K) : Line(0, K[i], 0) \in CrLine /\ Line(0, K[i], 0).is = K[i]
    BY <1>1, LineIs
  <1>3. Lines(K) \in Seq(Seq(CrLine)) /\ Len(Lines(K)) = Len(K)
    <2>1. \A i \in 1 .. Len(K) : <<Line(0, K[i], 0)>> \in Seq(CrLine)
      BY <1>2
    <2> QED
      BY <1>1, <2>1 DEF Lines
  <1>4. \A i \in 1 .. Len(K) : Lines(K)[i] = <<Line(0, K[i], 0)>>
    BY <1>1 DEF Lines
  <1>5. /\ DOMAIN pieces = 1 .. N /\ pieces[1] = p
        /\ \A i \in 1 .. Len(K) : pieces[i + 1] = <<Line(0, K[i], 0)>>
    <2>1. <<p>> \in Seq(Seq(CrLine)) /\ Len(<<p>>) = 1 /\ <<p>>[1] = p
      BY <1>1
    <2> DEFINE one == <<p>>
               rest == Lines(K)
    <2> HIDE DEF one, rest
    <2>2. /\ Len(one \o rest) = Len(one) + Len(rest) /\ one \o rest \in Seq(Seq(CrLine))
          /\ \A i \in 1 .. Len(one) : (one \o rest)[i] = one[i]
          /\ \A i \in 1 .. Len(rest) : (one \o rest)[Len(one) + i] = rest[i]
      BY <1>3, <2>1 DEF one, rest
    <2>3. \A i \in 1 .. Len(K) : 1 + i = i + 1
      BY <1>1
    <2> QED
      BY <1>1, <1>3, <1>4, <2>1, <2>2, <2>3 DEF one, rest
  <1> HIDE DEF pieces
  <1>6. /\ Len(opened) = N /\ DOMAIN opened = 1 .. N
        /\ opened[1] = <<Line(0, "open", b)>> \o p
        /\ \A i \in 1 .. Len(K) : opened[i + 1] = <<Line(0, "open", b)>> \o <<Line(0, K[i], 0)>>
    <2> DEFINE T == {<<Line(0, "open", b)>> \o pieces[i] : i \in 1 .. N}
    <2>1. N \in Nat /\ 1 \in 1 .. N /\ \A i \in 1 .. Len(K) : i + 1 \in 1 .. N
      BY <1>1
    <2>2. opened = [i \in 1 .. N |-> <<Line(0, "open", b)>> \o pieces[i]]
      BY <1>5
    <2>3. opened \in [1 .. N -> T]
      BY <2>2
    <2> HIDE DEF T, opened
    <2>4. Len(opened) = N /\ DOMAIN opened = 1 .. N
      BY <2>1, <2>3
    <2> HIDE DEF N
    <2>5. opened[1] = <<Line(0, "open", b)>> \o p
      BY <1>5, <2>1, <2>2
    <2>6. ASSUME NEW i \in 1 .. Len(K)
          PROVE  opened[i + 1] = <<Line(0, "open", b)>> \o <<Line(0, K[i], 0)>>
      <3>1. opened[i + 1] = <<Line(0, "open", b)>> \o pieces[i + 1]
        BY <2>1, <2>2
      <3> QED
        BY <1>5, <3>1
    <2> QED
      BY <2>4, <2>5, <2>6
  <1> HIDE DEF opened
  <1>7. PICK flat :
          /\ FlattenSeq(opened) = flat[N] /\ flat[1] = opened[1]
          /\ \A i \in 1 .. Len(K) : flat[i + 1] = flat[i] \o opened[i + 1]
    <2>1. N \in Nat \ {0} /\ N - 1 = Len(K)
      BY <1>1
    <2> HIDE DEF N
    <2>2. PICK f : /\ FlattenSeq(opened) = f[N] /\ f[1] = opened[1]
                   /\ \A i \in 1 .. (N - 1) : f[i + 1] = f[i] \o opened[i + 1]
      BY <1>6, <2>1, FlatIs
    <2> QED
      BY <2>1, <2>2
  <1>8. Multipart(b, pieces) = (<<Line(0, "multipart", b)>> \o flat[N]) \o <<Line(0, "close", b)>>
    <2>1. FlattenSeq(opened) = flat[N]
      BY <1>7
    <2> QED
      BY <2>1 DEF Multipart, opened
  <1> QED
    BY <1>6, <1>7, <1>8 DEF pieces

LEMMA MultipartLines ==
  ASSUME NEW p \in Seq(CrLine), NEW b \in Nat, NEW K \in Seq(Content)
  PROVE  Multipart(b, <<p>> \o Lines(K)) \in Seq(CrLine) \ {<<>>}
  <1>1. PICK flat :
          /\ Multipart(b, <<p>> \o Lines(K)) =
               (<<Line(0, "multipart", b)>> \o flat[Len(K) + 1]) \o <<Line(0, "close", b)>>
          /\ flat[1] = <<Line(0, "open", b)>> \o p
          /\ \A i \in 1 .. Len(K) :
               flat[i + 1] = flat[i] \o (<<Line(0, "open", b)>> \o <<Line(0, K[i], 0)>>)
    BY MultipartIs
  <1> DEFINE Up == {k \in Nat : k <= Len(K) => flat[k + 1] \in Seq(CrLine)}
             open == Line(0, "open", b)
             first == Line(0, "multipart", b)
             last == Line(0, "close", b)
  <1>2. Len(K) \in Nat /\ open \in CrLine /\ first \in CrLine /\ last \in CrLine
    BY LineIs DEF Kind
  <1>3. 0 \in Up
    <2> HIDE DEF open
    <2>1. <<open>> \o p \in Seq(CrLine)
      BY <1>2
    <2>2. flat[1] = <<open>> \o p
      BY <1>1 DEF open
    <2>3. 0 + 1 = 1 /\ flat[1] \in Seq(CrLine)
      BY <2>1, <2>2
    <2>4. flat[0 + 1] \in Seq(CrLine)
      BY <2>3
    <2> QED
      BY <2>4
  <1>4. \A k \in Up : k + 1 \in Up
    <2>1. SUFFICES ASSUME NEW k \in Nat, k + 1 <= Len(K), flat[k + 1] \in Seq(CrLine)
                   PROVE  flat[(k + 1) + 1] \in Seq(CrLine)
      BY <1>2
    <2> DEFINE l == Line(0, K[k + 1], 0)
    <2>2. k + 1 \in 1 .. Len(K)
      BY <1>2, <2>1
    <2>3. l \in CrLine
      BY <2>2, LineIs DEF Content
    <2>4. flat[(k + 1) + 1] = flat[k + 1] \o (<<open>> \o <<l>>)
      BY <1>1, <2>2
    <2> HIDE DEF open, l
    <2> QED
      BY <1>2, <2>1, <2>3, <2>4
  <1>5. Len(K) \in Up
    <2>1. Up \subseteq Nat
      OBVIOUS
    <2> HIDE DEF Up
    <2> QED
      BY <1>2, <1>3, <1>4, <2>1, Induction
  <1> DEFINE mid == flat[Len(K) + 1]
  <1>6. mid \in Seq(CrLine)
    BY <1>2, <1>5
  <1> HIDE DEF first, last, mid
  <1>7. (<<first>> \o mid) \o <<last>> \in Seq(CrLine) \ {<<>>}
    BY <1>2, <1>6
  <1> QED
    BY <1>1, <1>7 DEF first, last, mid

LEMMA MultipartShows ==
  ASSUME NEW p, NEW S, NEW B, NEW m, Shows(p, S, B, m), B \subseteq Nat,
         NEW b \in Nat \ B, NEW K \in Seq(Content)
  PROVE  Shows(Multipart(b, <<p>> \o Lines(K)), S \o K, B \cup {b}, TRUE)
  <1>1. /\ p \in Seq(CrLine) /\ p # <<>> /\ S \in Seq(Content) /\ Len(K) \in Nat
        /\ DOMAIN K = 1 .. Len(K) /\ Content \subseteq Kind
    BY DEF Shows, Content
  <1>2. \A i \in 1 .. Len(K) : Line(0, K[i], 0) \in CrLine /\ Line(0, K[i], 0).is = K[i]
    BY <1>1, LineIs
  <1> DEFINE N == Len(K) + 1
  <1>7. PICK flat :
          /\ Multipart(b, <<p>> \o Lines(K)) =
               (<<Line(0, "multipart", b)>> \o flat[N]) \o <<Line(0, "close", b)>>
          /\ flat[1] = <<Line(0, "open", b)>> \o p
          /\ \A i \in 1 .. Len(K) :
               flat[i + 1] = flat[i] \o (<<Line(0, "open", b)>> \o <<Line(0, K[i], 0)>>)
    BY <1>1, MultipartIs, ZenonT(30)
  <1> DEFINE open == Line(0, "open", b)
             Shown(k) == S \o SubSeq(K, 1, k)
             Holds(k) ==
               /\ flat[k + 1] \in Seq(CrLine) /\ Shown(k) \in Seq(Content)
               /\ \A I \in Seq(Nat), z \in Seq(Content) :
                    (\A i \in DOMAIN I : I[i] \notin B \cup {b})
                      => Leads(flat[k + 1], State(Append(I, b), FALSE, z),
                               State(Append(I, b), FALSE, z \o Shown(k)))
             Up == {k \in Nat : k <= Len(K) => Holds(k)}
  <1>9. open \in CrLine /\ open.is = "open" /\ open.boundary = b
    BY LineIs DEF Kind
  <1>10. ASSUME NEW I \in Seq(Nat), \A i \in DOMAIN I : I[i] \notin B \cup {b}, NEW z \in Seq(Content)
         PROVE  LET s == State(Append(I, b), FALSE, z)
                IN  /\ <<open>> \in Seq(CrLine) /\ Leads(<<open>>, s, s)
                    /\ Append(I, b) \in Seq(Nat) /\ Append(I, b) # <<>>
                    /\ \A i \in DOMAIN Append(I, b) : Append(I, b)[i] \notin B
    <2>1. Reads(State(Append(I, b), FALSE, z), open) = State(Append(I, b), FALSE, z)
      <3> HIDE DEF open
      <3>1. open.boundary \in Nat /\ \A i \in DOMAIN I : I[i] # open.boundary
        BY <1>9, <1>10
      <3>2. Reads(State(Append(I, open.boundary), FALSE, z), open) = State(Append(I, open.boundary), FALSE, z)
        BY <1>9, <3>1, BoundaryReads, ZenonT(30)
      <3> QED
        BY <1>9, <3>2
    <2>2. /\ Append(I, b) \in Seq(Nat) /\ Append(I, b) # <<>>
          /\ DOMAIN Append(I, b) = 1 .. Len(I) + 1 /\ DOMAIN I = 1 .. Len(I)
          /\ Append(I, b)[Len(I) + 1] = b /\ \A i \in 1 .. Len(I) : Append(I, b)[i] = I[i]
      BY SMTT(30)
    <2>3. \A i \in DOMAIN Append(I, b) : Append(I, b)[i] \notin B
      <3> DEFINE J == Append(I, b)
      <3> HIDE DEF J
      <3>1. ASSUME NEW i \in DOMAIN J PROVE J[i] \notin B
        <4>1. i \in 1 .. Len(I) \/ i = Len(I) + 1
          BY <2>2, <3>1 DEF J
        <4> QED
          BY <1>10, <2>2, <4>1 DEF J
      <3> QED
        BY <3>1 DEF J
    <2> HIDE DEF open
    <2> QED
      BY <1>9, <2>1, <2>2, <2>3, OneLine
  <1> HIDE DEF open
  <1>11. Holds(0)
    <2>1. Shown(0) = S
      BY <1>1
    <2>2. flat[1] = <<open>> \o p /\ flat[1] \in Seq(CrLine)
      BY <1>1, <1>7, <1>9 DEF open
    <2>3. ASSUME NEW I \in Seq(Nat), \A i \in DOMAIN I : I[i] \notin B \cup {b}, NEW z \in Seq(Content)
          PROVE  Leads(flat[1], State(Append(I, b), FALSE, z), State(Append(I, b), FALSE, z \o S))
      <3> DEFINE J == Append(I, b)
      <3>1. /\ <<open>> \in Seq(CrLine) /\ Leads(<<open>>, State(J, FALSE, z), State(J, FALSE, z))
            /\ J \in Seq(Nat) /\ J # <<>> /\ \A i \in DOMAIN J : J[i] \notin B
        BY <1>10, <2>3
      <3> HIDE DEF J
      <3>2. Leads(p, State(J, FALSE, z), State(J, m /\ J = <<>>, z \o S))
        BY <3>1 DEF Shows
      <3>3. (m /\ J = <<>>) = FALSE
        BY <3>1
      <3>4. Leads(p, State(J, FALSE, z), State(J, FALSE, z \o S))
        BY <3>2, <3>3
      <3>5. Leads(<<open>> \o p, State(J, FALSE, z), State(J, FALSE, z \o S))
        BY <1>1, <3>1, <3>4, LeadsOn
      <3> QED
        BY <2>2, <3>5 DEF J
    <2>4. 0 + 1 = 1
      OBVIOUS
    <2> HIDE DEF Shown
    <2> QED
      BY <1>1, <2>1, <2>2, <2>3, <2>4
  <1>12. ASSUME NEW k \in Nat, k + 1 <= Len(K), Holds(k) PROVE Holds(k + 1)
    <2>2. k <= Len(K) /\ k + 1 \in 1 .. Len(K) /\ K[k + 1] \in Content
      BY <1>1, <1>12
    <2>3. /\ flat[k + 1] \in Seq(CrLine) /\ Shown(k) \in Seq(Content)
          /\ \A I \in Seq(Nat), z \in Seq(Content) :
               (\A i \in DOMAIN I : I[i] \notin B \cup {b})
                 => Leads(flat[k + 1], State(Append(I, b), FALSE, z),
                          State(Append(I, b), FALSE, z \o Shown(k)))
      BY <1>12
    <2> DEFINE l == Line(0, K[k + 1], 0)
    <2>4. l \in CrLine /\ l.is = K[k + 1]
      BY <1>2, <2>2
    <2>5. flat[(k + 1) + 1] = flat[k + 1] \o (<<open>> \o <<l>>)
      BY <1>7, <2>2 DEF open
    <2>6. Shown(k + 1) = Shown(k) \o <<K[k + 1]>> /\ Shown(k + 1) \in Seq(Content)
      <3>1. /\ SubSeq(K, 1, k + 1) = Append(SubSeq(K, 1, k), K[k + 1])
            /\ SubSeq(K, 1, k) \in Seq(Content)
        BY <1>1, <2>2
      <3> DEFINE A == SubSeq(K, 1, k)
      <3> HIDE DEF A
      <3>2. A \in Seq(Content) /\ <<K[k + 1]>> \in Seq(Content)
            /\ Append(A, K[k + 1]) = A \o <<K[k + 1]>>
        BY <2>2, <3>1 DEF A
      <3>3. S \o (A \o <<K[k + 1]>>) = (S \o A) \o <<K[k + 1]>>
        BY <1>1, <3>2, ConcatAssociative, SMTT(30)
      <3>4. S \o (A \o <<K[k + 1]>>) \in Seq(Content)
        BY <1>1, <3>2
      <3> QED
        BY <3>1, <3>2, <3>3, <3>4 DEF A
    <2> HIDE DEF l, Shown
    <2>7. <<open>> \o <<l>> \in Seq(CrLine) /\ flat[k + 1] \o (<<open>> \o <<l>>) \in Seq(CrLine)
      BY <1>9, <2>3, <2>4
    <2>8. ASSUME NEW I \in Seq(Nat), \A i \in DOMAIN I : I[i] \notin B \cup {b}, NEW z \in Seq(Content)
          PROVE  Leads(flat[(k + 1) + 1], State(Append(I, b), FALSE, z),
                       State(Append(I, b), FALSE, z \o Shown(k + 1)))
      <3> DEFINE J == Append(I, b)
                 y == z \o Shown(k)
      <3>1. y \in Seq(Content) /\ z \o Shown(k + 1) = y \o <<K[k + 1]>>
        <4>1. Shown(k) \in Seq(Content) /\ <<K[k + 1]>> \in Seq(Content)
          BY <2>2, <2>3
        <4>2. z \o (Shown(k) \o <<K[k + 1]>>) = (z \o Shown(k)) \o <<K[k + 1]>>
          BY <4>1, ConcatAssociative
        <4>3. z \o Shown(k) \in Seq(Content)
          BY <4>1
        <4>4. z \o Shown(k + 1) = z \o (Shown(k) \o <<K[k + 1]>>)
          BY <2>6
        <4> QED
          BY <4>2, <4>3, <4>4
      <3>2. <<open>> \in Seq(CrLine) /\ Leads(<<open>>, State(J, FALSE, y), State(J, FALSE, y))
        BY <1>10, <2>8, <3>1
      <3>3. Leads(flat[k + 1], State(J, FALSE, z), State(J, FALSE, y))
        BY <2>3, <2>8
      <3> HIDE DEF J, y
      <3>4. Leads(<<l>>, State(J, FALSE, y), State(J, FALSE, y \o <<K[k + 1]>>))
        <4>1. Leads(<<l>>, State(J, FALSE, y), Reads(State(J, FALSE, y), l))
          BY <2>4, OneLine
        <4>2. Reads(State(J, FALSE, y), l) = State(J, FALSE, y \o <<l.is>>)
          BY <2>2, <2>4, <3>1, ContentReads
        <4> QED
          BY <2>4, <4>1, <4>2
      <3>5. Leads(<<open>> \o <<l>>, State(J, FALSE, y), State(J, FALSE, y \o <<K[k + 1]>>))
        BY <2>4, <3>2, <3>4, OneLine, LeadsOn
      <3>6. Leads(flat[k + 1] \o (<<open>> \o <<l>>), State(J, FALSE, z), State(J, FALSE, y \o <<K[k + 1]>>))
        BY <2>3, <2>7, <3>3, <3>5, LeadsOn
      <3> QED
        BY <2>5, <3>1, <3>6 DEF J
    <2> QED
      BY <2>5, <2>6, <2>7, <2>8
  <1>13. Holds(Len(K))
    <2> HIDE DEF Holds
    <2>1. 0 \in Up
      BY <1>11
    <2>2. \A k \in Up : k + 1 \in Up
      <3>1. SUFFICES ASSUME NEW k \in Nat, k + 1 <= Len(K), k \in Up PROVE Holds(k + 1)
        OBVIOUS
      <3>2. k <= Len(K)
        BY <1>1, <3>1
      <3> QED
        BY <1>12, <3>1, <3>2
    <2>3. Up = Nat
      <3>1. Up \subseteq Nat
        OBVIOUS
      <3> HIDE DEF Up
      <3> QED
        BY <2>1, <2>2, <3>1, Induction
    <2> QED
      BY <1>1, <2>3
  <1>14. Shown(Len(K)) = S \o K
    BY <1>1, SubSeqFull
  <1> HIDE DEF Holds, Shown, N
  <1> DEFINE first == Line(0, "multipart", b)
             last == Line(0, "close", b)
             mid == flat[N]
  <1>15. /\ first \in CrLine /\ first.is = "multipart" /\ first.boundary = b
         /\ last \in CrLine /\ last.is = "close" /\ last.boundary = b
    BY LineIs DEF Kind
  <1>16. /\ mid \in Seq(CrLine) /\ S \o K \in Seq(Content)
         /\ \A I \in Seq(Nat), z \in Seq(Content) :
              (\A i \in DOMAIN I : I[i] \notin B \cup {b})
                => Leads(mid, State(Append(I, b), FALSE, z), State(Append(I, b), FALSE, z \o (S \o K)))
    BY <1>13, <1>14 DEF Holds, N
  <1> HIDE DEF first, last, mid
  <1>17. /\ <<first>> \in Seq(CrLine) /\ <<last>> \in Seq(CrLine) /\ <<first>> \o mid \in Seq(CrLine)
         /\ (<<first>> \o mid) \o <<last>> \in Seq(CrLine) \ {<<>>}
    BY <1>15, <1>16
  <1>18. ASSUME NEW I \in Seq(Nat), NEW z \in Seq(Content), \A i \in DOMAIN I : I[i] \notin B \cup {b}
         PROVE  Leads((<<first>> \o mid) \o <<last>>, State(I, FALSE, z),
                      State(I, TRUE /\ I = <<>>, z \o (S \o K)))
    <2> DEFINE J == Append(I, b)
               y == z \o (S \o K)
    <2>1. Leads(<<first>>, State(I, FALSE, z), State(J, FALSE, z))
      BY <1>15, OneLine, MultipartReads, ZenonT(30)
    <2>2. Leads(mid, State(J, FALSE, z), State(J, FALSE, y))
      BY <1>16, <1>18
    <2>3. Leads(<<last>>, State(J, FALSE, y), State(I, I = <<>>, y))
      <3>1. last.boundary \in Nat /\ \A i \in DOMAIN I : I[i] # last.boundary
        BY <1>15, <1>18
      <3>2. Reads(State(Append(I, last.boundary), FALSE, y), last) = State(I, I = <<>>, y)
        <4>1. last.is = "close"
          BY <1>15
        <4> HIDE DEF y
        <4> QED
          BY <3>1, <4>1, BoundaryReads, ZenonT(30)
      <3> QED
        BY <1>15, <3>2, OneLine
    <2> HIDE DEF J, y
    <2>4. Leads(<<first>> \o mid, State(I, FALSE, z), State(J, FALSE, y))
      BY <1>16, <1>17, <2>1, <2>2, LeadsOn
    <2>5. Leads((<<first>> \o mid) \o <<last>>, State(I, FALSE, z), State(I, I = <<>>, y))
      BY <1>17, <2>3, <2>4, LeadsOn
    <2> QED
      BY <2>5 DEF y
  <1>19. Multipart(b, <<p>> \o Lines(K)) = (<<first>> \o mid) \o <<last>>
    BY <1>7 DEF first, last, mid
  <1> QED
    BY <1>16, <1>17, <1>18, <1>19 DEF Shows

\* One line shows itself.
LEMMA PartShows ==
  ASSUME NEW l \in CrLine, l.is \in Content
  PROVE  Shows(<<l>>, <<l.is>>, {}, FALSE)
  <1>1. <<l>> \in Seq(CrLine) \ {<<>>} /\ <<l.is>> \in Seq(Content)
    OBVIOUS
  <1>2. ASSUME NEW I \in Seq(Nat), NEW z \in Seq(Content)
        PROVE  Leads(<<l>>, State(I, FALSE, z), State(I, FALSE /\ I = <<>>, z \o <<l.is>>))
    <2>1. Leads(<<l>>, State(I, FALSE, z), Reads(State(I, FALSE, z), l))
      BY OneLine
    <2>2. Reads(State(I, FALSE, z), l) = State(I, FALSE, z \o <<l.is>>)
      BY ContentReads
    <2>3. (FALSE /\ I = <<>>) = FALSE
      OBVIOUS
    <2> QED
      BY <2>1, <2>2, <2>3
  <1> QED
    BY <1>1, <1>2 DEF Shows

LEMMA ShowsAmong ==
  ASSUME NEW p, NEW S, NEW B, NEW C, NEW m, Shows(p, S, B, m), B \subseteq C
  PROVE  Shows(p, S, C, m)
  BY DEF Shows

\* Pictures and files are parts of one line.
LEMMA CopiesAreLines ==
  ASSUME NEW k \in Content, NEW n \in Nat
  PROVE  /\ Copies(k, n) \in Seq(Content) /\ Len(Copies(k, n)) = n
         /\ Copies(ToPart(k), n) = Lines(Copies(k, n))
         /\ Copies(ToPart(k), n) \in Seq({<<l>> : l \in CrLine}) /\ Len(Copies(ToPart(k), n)) = n
  <1>1. Copies(k, n) \in [1 .. n -> Content]
    BY DEF Copies
  <1>2. Copies(k, n) \in Seq(Content) /\ Len(Copies(k, n)) = n
    BY <1>1
  <1>3. Line(0, k, 0) \in CrLine
    BY LineIs DEF Content
  <1>4. Copies(ToPart(k), n) \in [1 .. n -> {<<l>> : l \in CrLine}]
    BY <1>3 DEF Copies, ToPart
  <1>5. Copies(ToPart(k), n) \in Seq({<<l>> : l \in CrLine}) /\ Len(Copies(ToPart(k), n)) = n
    BY <1>4
  <1>6. Copies(ToPart(k), n) = Lines(Copies(k, n))
    BY DEF Copies, ToPart, Lines
  <1> QED
    BY <1>2, <1>5, <1>6

LEMMA LinesOfBoth ==
  ASSUME NEW K \in Seq(Content), NEW M \in Seq(Content)
  PROVE  /\ Lines(K) \o Lines(M) = Lines(K \o M)
         /\ Lines(K) = <<>> <=> K = <<>>
  <1> DEFINE T == {<<Line(0, k, 0)>> : k \in Content}
  <1>1. ASSUME NEW L \in Seq(Content)
        PROVE  /\ Lines(L) \in Seq(T) /\ Len(Lines(L)) = Len(L)
               /\ \A i \in 1 .. Len(L) : Lines(L)[i] = <<Line(0, L[i], 0)>>
    <2>1. DOMAIN L = 1 .. Len(L) /\ Len(L) \in Nat /\ \A i \in 1 .. Len(L) : L[i] \in Content
      OBVIOUS
    <2>2. Lines(L) \in [1 .. Len(L) -> T]
      BY <2>1 DEF Lines
    <2> QED
      BY <2>1, <2>2 DEF Lines
  <1> HIDE DEF T
  <1>2. /\ K \o M \in Seq(Content) /\ Len(K \o M) = Len(K) + Len(M)
        /\ \A i \in 1 .. Len(K) + Len(M) :
             (K \o M)[i] = IF i <= Len(K) THEN K[i] ELSE M[i - Len(K)]
        /\ Len(K) \in Nat /\ Len(M) \in Nat
    OBVIOUS
  <1> DEFINE A == Lines(K)
             C == Lines(M)
  <1>3. A \in Seq(T) /\ C \in Seq(T) /\ Len(A) = Len(K) /\ Len(C) = Len(M)
    BY <1>1
  <1> HIDE DEF A, C
  <1>4. /\ A \o C \in Seq(T) /\ Len(A \o C) = Len(A) + Len(C)
        /\ \A i \in 1 .. Len(A) + Len(C) : (A \o C)[i] = IF i <= Len(A) THEN A[i] ELSE C[i - Len(A)]
    BY <1>3
  <1>5. Lines(K \o M) \in Seq(T) /\ Len(Lines(K \o M)) = Len(A \o C)
    BY <1>1, <1>2, <1>3, <1>4
  <1>6. ASSUME NEW i \in 1 .. Len(K) + Len(M) PROVE Lines(K \o M)[i] = (A \o C)[i]
    <2>1. Lines(K \o M)[i] = <<Line(0, (K \o M)[i], 0)>>
      BY <1>1, <1>2
    <2>2. CASE i <= Len(K)
      <3>1. i \in 1 .. Len(K)
        BY <1>2, <2>2
      <3>2. A[i] = <<Line(0, K[i], 0)>>
        BY <1>1, <3>1 DEF A
      <3> QED
        BY <1>2, <1>3, <1>4, <2>1, <2>2, <3>2
    <2>3. CASE ~ (i <= Len(K))
      <3>1. i - Len(K) \in 1 .. Len(M)
        BY <1>2, <2>3
      <3>2. C[i - Len(K)] = <<Line(0, M[i - Len(K)], 0)>>
        BY <1>1, <3>1 DEF C
      <3> QED
        BY <1>2, <1>3, <1>4, <2>1, <2>3, <3>2
    <2> QED
      BY <2>2, <2>3
  <1>7. Lines(K \o M) = A \o C
    BY <1>2, <1>3, <1>4, <1>5, <1>6, SeqEqual
  <1>8. Lines(K) = <<>> <=> K = <<>>
    BY <1>1, <1>3 DEF A
  <1> QED
    BY <1>7, <1>8 DEF A, C

\* What is composed is made of lines, and shows each part its author put in
\* unless two of the boundaries that were drawn are the same.
LEMMA RichShows ==
  ASSUME NEW d \in Draft
  PROVE  /\ Rich(d) \in Seq(CrLine) \ {<<>>}
         /\ (\A i, j \in DOMAIN d.clock : i # j => d.clock[i] # d.clock[j])
              => \E B, m : Shows(Rich(d), Meant(d), B, m)
  <1> DEFINE text == TextPart("plain", d.text)
             pictures == Copies(ToPart("inline"), d.pictures)
             files == (IF d.html THEN <<>> ELSE pictures) \o Copies(ToPart("attachment"), d.files)
             body == IF d.html THEN Multipart(d.clock[1], <<text, TextPart("html", 0)>>) ELSE text
             related == IF d.html /\ d.pictures > 0 THEN Multipart(d.clock[2], <<body>> \o pictures)
                        ELSE body
             Inline == Copies("inline", d.pictures)
             Attached == Copies("attachment", d.files)
             Html == IF d.html THEN <<"html">> ELSE <<>>
             Beside == (IF d.html THEN <<>> ELSE Inline) \o Attached
             Within == IF d.html THEN Inline ELSE <<>>
             Apart == \A i, j \in DOMAIN d.clock : i # j => d.clock[i] # d.clock[j]
  <1>1. /\ d.text \in Nat /\ d.html \in BOOLEAN /\ d.pictures \in Nat /\ d.files \in Nat
        /\ d.clock \in [1 .. 3 -> Nat]
    BY DEF Draft
  <1>2. d.clock[1] \in Nat /\ d.clock[2] \in Nat /\ d.clock[3] \in Nat
        /\ (Apart => d.clock[1] # d.clock[2] /\ d.clock[1] # d.clock[3] /\ d.clock[2] # d.clock[3])
    BY <1>1
  <1> HIDE DEF Apart
  <1>3. {"plain", "html", "inline", "attachment"} \subseteq Content /\ Content \subseteq Kind
    BY DEF Content, Kind
  <1>4. /\ Inline \in Seq(Content) /\ Attached \in Seq(Content)
        /\ pictures = Lines(Inline) /\ Copies(ToPart("attachment"), d.files) = Lines(Attached)
        /\ Len(Inline) = d.pictures
    BY <1>1, <1>3, CopiesAreLines
  <1> HIDE DEF Inline, Attached, pictures
  <1>5. /\ Html \in Seq(Content) /\ <<"plain">> \in Seq(Content) /\ <<>> \in Seq(Content)
        /\ <<"html">> \in Seq(Content)
    BY <1>3
  <1>6. files = Lines(Beside) /\ Beside \in Seq(Content) /\ (files = <<>> <=> Beside = <<>>)
    <2>1. Lines(<<>>) = <<>>
      BY <1>5, LinesOfBoth
    <2>2. files = Lines(IF d.html THEN <<>> ELSE Inline) \o Lines(Attached)
      BY <1>4, <2>1
    <2>3. (IF d.html THEN <<>> ELSE Inline) \in Seq(Content)
      BY <1>4, <1>5
    <2> DEFINE X == IF d.html THEN <<>> ELSE Inline
    <2> HIDE DEF X
    <2>4. X \in Seq(Content)
      BY <2>3 DEF X
    <2>5. Lines(X) \o Lines(Attached) = Lines(X \o Attached) /\ X \o Attached \in Seq(Content)
      BY <1>4, <2>4, LinesOfBoth
    <2>6. files = Lines(X \o Attached) /\ Beside = X \o Attached
      BY <2>2, <2>5 DEF X
    <2> HIDE DEF files, Beside
    <2> QED
      BY <1>4, <2>5, <2>6, LinesOfBoth
  <1>7. /\ text \in Seq(CrLine) \ {<<>>} /\ \E m : Shows(text, <<"plain">>, {}, m)
    <2>1. Line(d.text, "plain", 0) \in CrLine /\ Line(d.text, "plain", 0).is = "plain"
      BY <1>1 DEF Line, CrLine, Kind
    <2> DEFINE l == Line(d.text, "plain", 0)
    <2>2. l \in CrLine /\ l.is = "plain" /\ l.is \in Content /\ text = <<l>>
      BY <1>3, <2>1 DEF TextPart
    <2> HIDE DEF l, text
    <2>3. Shows(<<l>>, <<l.is>>, {}, FALSE)
      BY <2>2, PartShows
    <2>4. <<l>> \in Seq(CrLine) \ {<<>>}
      BY <2>2
    <2> QED
      BY <2>2, <2>3, <2>4
  <1> HIDE DEF text, files, Beside
  <1>8. /\ body \in Seq(CrLine) \ {<<>>}
        /\ \E m : Shows(body, <<"plain">> \o Html, {d.clock[1]}, m)
    <2>1. CASE d.html
      <3>1. <<text, TextPart("html", 0)>> = <<text>> \o Lines(<<"html">>)
        <4>1. Lines(<<"html">>) = <<TextPart("html", 0)>>
          BY DEF Lines, TextPart
        <4> DEFINE t == TextPart("html", 0)
        <4> HIDE DEF t
        <4>2. <<text, t>> = <<text>> \o <<t>>
          OBVIOUS
        <4> QED
          BY <4>1, <4>2 DEF t
      <3>2. Multipart(d.clock[1], <<text>> \o Lines(<<"html">>)) \in Seq(CrLine) \ {<<>>}
        BY <1>2, <1>5, <1>7, MultipartLines
      <3>3. Shows(Multipart(d.clock[1], <<text>> \o Lines(<<"html">>)), <<"plain">> \o <<"html">>,
                  {} \cup {d.clock[1]}, TRUE)
        <4>1. PICK m : Shows(text, <<"plain">>, {}, m)
          BY <1>7
        <4> QED
          BY <1>2, <1>5, <4>1, MultipartShows
      <3>4. {} \cup {d.clock[1]} = {d.clock[1]}
        OBVIOUS
      <3>5. Shows(Multipart(d.clock[1], <<text>> \o Lines(<<"html">>)), <<"plain">> \o <<"html">>,
                  {d.clock[1]}, TRUE)
        BY <3>3, <3>4
      <3>6. body = Multipart(d.clock[1], <<text>> \o Lines(<<"html">>)) /\ Html = <<"html">>
        BY <2>1, <3>1
      <3> QED
        BY <3>2, <3>5, <3>6
    <2>2. CASE ~ d.html
      <3>1. body = text /\ Html = <<>> /\ <<"plain">> \o Html = <<"plain">>
        BY <2>2
      <3>2. PICK m : Shows(text, <<"plain">>, {}, m)
        BY <1>7
      <3>3. Shows(text, <<"plain">>, {d.clock[1]}, m)
        BY <3>2, ShowsAmong
      <3> HIDE DEF body, Html
      <3> QED
        BY <1>7, <3>1, <3>3
    <2> QED
      BY <2>1, <2>2
  <1> DEFINE Start == <<"plain">> \o Html
  <1>9. Start \in Seq(Content)
    BY <1>5
  <1> HIDE DEF body, Html, Start
  <1>10. /\ related \in Seq(CrLine) \ {<<>>}
         /\ Apart => \E m : Shows(related, Start \o Within, {d.clock[1], d.clock[2]}, m)
    <2>1. CASE d.html /\ d.pictures > 0
      <3>1. related = Multipart(d.clock[2], <<body>> \o Lines(Inline)) /\ Within = Inline
        BY <1>4, <2>1
      <3>2. Multipart(d.clock[2], <<body>> \o Lines(Inline)) \in Seq(CrLine) \ {<<>>}
        BY <1>2, <1>4, <1>8, MultipartLines
      <3>3. ASSUME Apart
            PROVE  Shows(Multipart(d.clock[2], <<body>> \o Lines(Inline)), Start \o Inline,
                         {d.clock[1]} \cup {d.clock[2]}, TRUE)
        <4>1. PICK m : Shows(body, Start, {d.clock[1]}, m)
          BY <1>8 DEF Start
        <4>2. d.clock[2] \in Nat \ {d.clock[1]} /\ {d.clock[1]} \subseteq Nat
          BY <1>2, <3>3
        <4> QED
          BY <1>4, <4>1, <4>2, MultipartShows
      <3>4. {d.clock[1]} \cup {d.clock[2]} = {d.clock[1], d.clock[2]}
        OBVIOUS
      <3> HIDE DEF related, Within
      <3> QED
        BY <3>1, <3>2, <3>3, <3>4
    <2>2. CASE ~ (d.html /\ d.pictures > 0)
      <3>1. related = body
        BY <2>2
      <3>2. Within = <<>>
        BY <1>1, <1>4, <2>2
      <3>3. Start \o Within = Start
        BY <1>9, <3>2, ConcatEmptySeq
      <3>4. PICK m : Shows(body, Start, {d.clock[1]}, m)
        BY <1>8 DEF Start
      <3>5. Shows(body, Start, {d.clock[1], d.clock[2]}, m)
        BY <3>4, ShowsAmong
      <3> HIDE DEF related, Within
      <3> QED
        BY <1>8, <3>1, <3>3, <3>5
    <2> QED
      BY <2>1, <2>2
  <1>11. Rich(d) = IF files # <<>> THEN Multipart(d.clock[3], <<related>> \o files) ELSE related
    BY DEF Rich, related, body, files, pictures, text
  <1>12. Within \in Seq(Content) /\ Start \o Within \in Seq(Content)
    BY <1>4, <1>5, <1>9
  <1>13. Meant(d) = (Start \o Within) \o Beside
    <2>1. Meant(d) = (Start \o Inline) \o Attached
      BY DEF Meant, Start, Html, Inline, Attached
    <2>2. CASE d.html
      <3>1. Within = Inline
        BY <2>2
      <3>2. Beside = <<>> \o Attached
        BY <2>2 DEF Beside
      <3>3. <<>> \o Attached = Attached
        BY <1>4, ConcatEmptySeq
      <3> QED
        BY <2>1, <3>1, <3>2, <3>3
    <2>3. CASE ~ d.html
      <3>1. Within = <<>> /\ Beside = Inline \o Attached
        BY <2>3 DEF Beside
      <3>2. Start \o Within = Start
        BY <1>9, <3>1, ConcatEmptySeq
      <3>3. (Start \o Inline) \o Attached = Start \o (Inline \o Attached)
        BY <1>4, <1>9, ConcatAssociative
      <3> QED
        BY <2>1, <3>1, <3>2, <3>3
    <2> QED
      BY <2>2, <2>3
  <1> HIDE DEF related, Within
  <1>14. CASE files = <<>>
    <2>1. Rich(d) = related /\ Beside = <<>>
      BY <1>6, <1>11, <1>14
    <2>2. Meant(d) = Start \o Within
      BY <1>12, <1>13, <2>1, ConcatEmptySeq
    <2> QED
      BY <1>10, <2>1, <2>2 DEF Apart
  <1>15. CASE files # <<>>
    <2>1. Rich(d) = Multipart(d.clock[3], <<related>> \o Lines(Beside))
      BY <1>6, <1>11, <1>15
    <2>2. Rich(d) \in Seq(CrLine) \ {<<>>}
      BY <1>2, <1>6, <1>10, <2>1, MultipartLines
    <2>3. ASSUME Apart PROVE \E B, m : Shows(Rich(d), Meant(d), B, m)
      <3> DEFINE A == {d.clock[1], d.clock[2]}
      <3>1. PICK m : Shows(related, Start \o Within, A, m)
        BY <1>10, <2>3
      <3>2. A \subseteq Nat /\ d.clock[3] \in Nat \ A
        BY <1>2, <2>3
      <3> HIDE DEF A
      <3>3. Shows(Multipart(d.clock[3], <<related>> \o Lines(Beside)), (Start \o Within) \o Beside,
                  A \cup {d.clock[3]}, TRUE)
        BY <1>6, <3>1, <3>2, MultipartShows
      <3> QED
        BY <1>13, <2>1, <3>3
    <2> QED
      BY <2>2, <2>3 DEF Apart
  <1> QED
    BY <1>14, <1>15

\* The seal changes nothing of this.
LEMMA ComposedShows ==
  ASSUME NEW d \in Draft, NEW raw \in {Rich(d), Sealed(Rich(d))}
  PROVE  /\ raw \in Seq(CrLine) \ {<<>>}
         /\ (\A i, j \in DOMAIN d.clock : i # j => d.clock[i] # d.clock[j]) => Seen(raw) = Meant(d)
  <1> DEFINE seal == Line(0, "seal", 0)
             rich == Rich(d)
             Apart == \A i, j \in DOMAIN d.clock : i # j => d.clock[i] # d.clock[j]
  <1>1. seal \in CrLine /\ seal.is = "seal" /\ Sealed(rich) = <<seal>> \o rich
    BY LineIs DEF Kind, Sealed
  <1>2. rich \in Seq(CrLine) \ {<<>>} /\ (Apart => \E B, m : Shows(rich, Meant(d), B, m))
    BY RichShows
  <1> HIDE DEF seal, rich, Apart
  <1>3. raw \in Seq(CrLine) \ {<<>>}
    <2>1. <<seal>> \o rich \in Seq(CrLine) \ {<<>>}
      BY <1>1, <1>2
    <2> QED
      BY <1>1, <1>2, <2>1 DEF rich
  <1>4. ASSUME Apart PROVE Seen(raw) = Meant(d)
    <2>1. PICK B, m : Shows(rich, Meant(d), B, m)
      BY <1>2, <1>4
    <2>2. Meant(d) \in Seq(Content) /\ <<>> \in Seq(Nat) /\ <<>> \in Seq(Content)
      BY <2>1 DEF Shows
    <2>3. \A i \in DOMAIN <<>> : <<>>[i] \notin B
      OBVIOUS
    <2> DEFINE over == m /\ <<>> = <<>>
    <2>4. Leads(rich, State(<<>>, FALSE, <<>>), State(<<>>, over, <<>> \o Meant(d)))
      BY <2>1, <2>2, <2>3 DEF Shows
    <2> HIDE DEF over
    <2>5. <<>> \o Meant(d) = Meant(d) /\ Unread = State(<<>>, FALSE, <<>>)
          /\ State(<<>>, over, Meant(d)).seen = Meant(d)
      BY <2>2, ConcatEmptySeq DEF Unread, State
    <2>6. Leads(rich, Unread, State(<<>>, over, Meant(d)))
      BY <2>4, <2>5
    <2>7. Leads(<<seal>>, Unread, Unread)
      BY <1>1, <2>5, OneLine, SealReads
    <2>8. Leads(<<seal>> \o rich, Unread, State(<<>>, over, Meant(d)))
      BY <1>1, <1>2, <2>6, <2>7, OneLine, LeadsOn
    <2>9. Leads(raw, Unread, State(<<>>, over, Meant(d)))
      BY <1>1, <2>6, <2>8 DEF rich
    <2> QED
      BY <1>3, <2>5, <2>9, SeenIs
  <1> QED
    BY <1>3, <1>4 DEF Apart

\* What is composed is a letter.
LEMMA ComposedIsLetter ==
  ASSUME NEW raw \in Seq(CrLine) \ {<<>>}
  PROVE  IsLetter(raw) /\ \A i \in 1 .. Len(raw) : raw[i].end = "crlf"
  <1>1. \A i \in 1 .. Len(raw) : raw[i] \in CrLine
    OBVIOUS
  <1>2. \A l \in CrLine : l \in ALine /\ l.end = "crlf"
    BY DEF CrLine, ALine
  <1>3. raw \in Seq(ALine) /\ Len(raw) \in 1 .. Len(raw)
    BY <1>2
  <1>4. Nothing.end = "none"
    BY DEF Nothing
  <1>5. Last(raw) # Nothing
    BY <1>1, <1>2, <1>3, <1>4 DEF Last
  <1> QED
    BY <1>1, <1>2, <1>3, <1>5 DEF IsLetter

------------------------------------------------------------------------------
\* Before the letter is due.
Waiting == Early \cup {"RCPT", "DATA"}

\* A letter of the author's own.
Composed ==
  letter.draft # None =>
    letter.draft \in Draft /\ letter.raw \in {Rich(letter.draft), Sealed(Rich(letter.draft))}

\* How far the letter has come, and what the server has made of it.
OnItsWay ==
  /\ at \in Waiting => arrived = 0
  /\ at = "payload" /\ ~ sent => arrived = 0
  /\ request = "payload" =>
       IsLetter(letter.raw) /\ arrived \in 0 .. Len(Payload(letter.raw)) /\ Composed
  /\ taken > 0 =>
       /\ Words(received) = Words(letter.raw)
       /\ Composed /\ (letter.draft # None => received = letter.raw)

LEMMA InitD_OnItsWay == InitD => OnItsWay
  <1>1. InitD => arrived = 0 /\ request = "greeting" /\ taken = 0
    BY DEF InitD, Init
  <1> QED
    BY <1>1 DEF OnItsWay

LEMMA ClientOnItsWay ==
  ASSUME CInv, OnItsWay, ClientD
  PROVE  OnItsWay'
  <1>1. CASE SayPayload
    <2>1. UNCHANGED <<arrived, received, at, taken>> /\ at = "payload" /\ ~ sent /\ sent'
      BY <1>1 DEF SayPayload, Say, server
    <2>4. IsLetter(letter'.raw) /\ Composed'
      <3>1. CASE \E r \in Raws : letter' = [draft |-> None, raw |-> r]
        BY <3>1, DeliveryAssumption DEF Composed
      <3>2. ASSUME NEW d \in Drafts, NEW raw \in {Rich(d), Sealed(Rich(d))},
                   letter' = [draft |-> d, raw |-> raw]
            PROVE  IsLetter(letter'.raw) /\ Composed'
        <4>1. d \in Draft
          BY DeliveryAssumption
        <4>2. IsLetter(raw)
          BY <4>1, ComposedShows, ComposedIsLetter
        <4> QED
          BY <3>2, <4>1, <4>2 DEF Composed
      <3>3. \/ \E r \in Raws : letter' = [draft |-> None, raw |-> r]
            \/ \E d \in Drafts : \E raw \in {Rich(d), Sealed(Rich(d))} :
                 letter' = [draft |-> d, raw |-> raw]
        BY <1>1 DEF SayPayload
      <3> QED
        BY <3>1, <3>2, <3>3
    <2>2. arrived = 0 /\ taken = 0
      BY <2>1 DEF OnItsWay, Composed, CInv, Truth
    <2>3. Len(Payload(letter'.raw)) \in Nat /\ Len(Payload(letter'.raw)) > 0
      BY <2>4, PayloadIs
    <2> QED
      BY <2>1, <2>2, <2>3, <2>4 DEF OnItsWay, Composed, Waiting, Early, Opening
  <1>2. CASE SayOther
    BY <1>2, NoneIsApart DEF SayOther, Say, OnItsWay, Composed, parts, server
  <1>3. CASE Listen
    <2>1. UNCHANGED <<letter, arrived, received, request, taken>>
      BY <1>3 DEF Listen, Fails, Heard, NoTlsOffered, Accepted, Refused, Parted, Handshake,
         HandshakeFails, ReadReply, parts, wire, server
    <2>2. at' \in Waiting \cup {"payload"} => at \in Waiting \/ (at = "payload" /\ UNCHANGED <<at, sent>>)
      BY <1>3 DEF Listen, Fails, Heard, NoTlsOffered, Accepted, Refused, Parted, Handshake,
         HandshakeFails, Goodbye, Waiting, Early, Opening, Step
    <2> QED
      BY <2>1, <2>2 DEF OnItsWay, Composed
  <1> QED
    BY <1>1, <1>2, <1>3 DEF ClientD

LEMMA ServerOnItsWay ==
  ASSUME CInv, OnItsWay, ServerD
  PROVE  OnItsWay'
  <1>1. CASE ShutdownD
    BY <1>1, NoneIsApart DEF ShutdownD, Shutdown, OnItsWay, Composed, parts, client, server
  <1>2. CASE CutD
    <2>1. UNCHANGED <<at, sent, taken, letter, received>> /\ request' \in {request, None}
      BY <1>2 DEF CutD, Cut, client, server
    <2>2. CASE request = "payload"
      <3>1. IsLetter(letter.raw) /\ arrived \in 0 .. Len(Payload(letter.raw))
            /\ arrived' \in arrived .. Len(Payload(letter.raw))
        BY <1>2, <2>2 DEF CutD, OnItsWay, Composed
      <3>2. Len(Payload(letter.raw)) \in Nat
        BY <3>1, PayloadIs
      <3>3. at \notin Waiting /\ sent
        BY <2>2, NoneIsApart DEF CInv, Exchange, Waiting, Early, Opening
      <3>4. arrived' \in 0 .. Len(Payload(letter.raw))
        BY <3>1, <3>2
      <3> QED
        BY <2>1, <3>1, <3>3, <3>4, NoneIsApart DEF OnItsWay, Composed
    <2>3. CASE request # "payload"
      BY <1>2, <2>1, <2>3, NoneIsApart DEF CutD, OnItsWay, Composed
    <2> QED
      BY <2>2, <2>3
  <1>3. CASE Arrive
    <2>1. request = "payload" /\ ~ Whole /\ arrived' = arrived + 1
          /\ UNCHANGED <<at, sent, taken, letter, received, request>>
      BY <1>3 DEF Arrive, vars, client, server, wire
    <2>2. IsLetter(letter.raw) /\ arrived \in 0 .. Len(Payload(letter.raw))
      BY <2>1 DEF OnItsWay, Composed
    <2>3. arrived # Len(letter.raw) + 1
      BY <2>1, <2>2, EndIsTheEnd DEF Whole, Stream
    <2>4. arrived' \in 0 .. Len(Payload(letter.raw))
      BY <2>1, <2>2, <2>3, PayloadIs
    <2>5. at \in {"payload", "done"} /\ sent
      BY <2>1, NoneIsApart DEF CInv, Exchange
    <2> QED
      BY <2>1, <2>2, <2>4, <2>5 DEF OnItsWay, Composed, Waiting, Early, Opening
  <1>4. ASSUME NEW reply \in Reply, AnswerD(reply)
        PROVE  OnItsWay'
    <2>1. /\ UNCHANGED <<at, sent, letter, arrived>> /\ request' = None
          /\ taken' = IF request = "payload" /\ reply.severity = 2 THEN taken + 1 ELSE taken
          /\ received' = IF request = "payload" /\ reply.severity = 2
                           THEN ReadPayload(Stream) ELSE received
          /\ request = "payload" => Whole
      BY <1>4 DEF AnswerD, Answer, client
    <2>2. CASE request = "payload" /\ reply.severity = 2
      <3>1. Words(received') = Words(letter.raw) /\ Composed
            /\ ((\A i \in 1 .. Len(letter.raw) : letter.raw[i].end = "crlf") => received' = letter.raw)
        BY <2>1, <2>2, ReadsBack DEF OnItsWay, Whole, Stream
      <3>2. letter.draft # None => received' = letter.raw
        BY <3>1, ComposedShows, ComposedIsLetter DEF Composed
      <3> QED
        BY <2>1, <3>1, <3>2, NoneIsApart DEF OnItsWay, Composed
    <2>3. CASE ~ (request = "payload" /\ reply.severity = 2)
      BY <2>1, <2>3, NoneIsApart DEF OnItsWay, Composed
    <2> QED
      BY <2>2, <2>3
  <1> QED
    BY <1>1, <1>2, <1>3, <1>4 DEF ServerD

LEMMA Letter_Invariant == SpecD => [](CInv /\ OnItsWay)
  <1>1. SpecD => []CInv
    BY DialogueWithLetter, Conversation_Invariant, PTL
  <1>2. OnItsWay /\ UNCHANGED <<vars, parts>> => OnItsWay'
    BY DEF OnItsWay, Composed, vars, client, wire, server, parts
  <1>3. CInv /\ OnItsWay /\ [ClientD \/ ServerD]_<<vars, parts>> => OnItsWay'
    BY <1>2, ClientOnItsWay, ServerOnItsWay
  <1> QED
    BY <1>1, <1>3, InitD_OnItsWay, PTL DEF SpecD

\* No letter is cut short or altered on the way, for any letter, any number of
\* recipients and wherever the connection is lost: what the server took is,
\* line by line and dot by dot, what was to be sent, and it took it for everyone.
THEOREM ArrivesIntact == SpecD => []Intact
  <1>1. CInv /\ OnItsWay => Intact
    BY DEF CInv, Envelope, OnItsWay, Intact
  <1> QED
    BY <1>1, Letter_Invariant, PTL

\* And one composed here arrives as it was sealed and shows what its author put
\* in, for any number of pictures and files, unless two of its boundaries are
\* the same.
THEOREM ArrivesAsMeant == SpecD => []LetterArrives
  <1>1. CInv /\ OnItsWay => LetterArrives
    <2>1. SUFFICES ASSUME CInv, OnItsWay PROVE LetterArrives
      OBVIOUS
    <2>2. Intact
      BY <2>1 DEF CInv, Envelope, OnItsWay, Intact
    <2>3. ASSUME taken > 0, letter.draft # None
          PROVE  /\ received = letter.raw
                 /\ (\A i, j \in DOMAIN letter.draft.clock :
                       i # j => letter.draft.clock[i] # letter.draft.clock[j])
                    => Seen(received) = Meant(letter.draft)
      <3>1. /\ received = letter.raw /\ letter.draft \in Draft
            /\ letter.raw \in {Rich(letter.draft), Sealed(Rich(letter.draft))}
        BY <2>1, <2>3 DEF OnItsWay, Composed
      <3> QED
        BY <3>1, ComposedShows
    <2> QED
      BY <2>2, <2>3 DEF LetterArrives
  <1> QED
    BY <1>1, Letter_Invariant, PTL
==============================================================================
