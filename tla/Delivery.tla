------------------------------- MODULE Delivery -------------------------------
(***************************************************************************)
(* The dialogue of module Conversation with the letter it is about: the    *)
(* payload goes over line by line, the connection may be lost in the       *)
(* middle of it, and the server, which reads as read_payload of session.rs *)
(* does, answers once it has read the end.  The letter is one put together *)
(* here, sealed if there is a key, or one that came in from elsewhere and  *)
(* is passed on as it is.                                                  *)
(***************************************************************************)
EXTENDS Conversation, Letter

CONSTANTS
  Drafts,        \* what may be composed: see Rich
  Raws           \* what may be passed on

ASSUME DeliveryAssumption ==
  /\ \A r \in Raws : IsLetter(r)
  /\ Drafts \subseteq Draft

VARIABLES
  letter,        \* draft, or None, and bytes; settled when they are needed
  arrived,       \* lines of the payload that have come to the server
  received       \* what the server has taken

parts == <<letter, arrived, received>>

InitD == Init /\ letter = None /\ arrived = 0 /\ received = None

Stream == SubSeq(Payload(letter.raw), 1, arrived)

Whole == Complete(Stream)

------------------------------------------------------------------------------
\* write_transparent_payload begins; the lines are on their way.
SayPayload ==
  /\ Say /\ at = "payload"
  /\ letter' \in {[draft |-> d, raw |-> IF key THEN Sealed(Rich(d)) ELSE Rich(d)] :
                     d \in Drafts, key \in BOOLEAN}
                   \cup {[draft |-> None, raw |-> r] : r \in Raws}
  /\ UNCHANGED <<arrived, received>>

SayOther == Say /\ at # "payload" /\ UNCHANGED parts

Listen ==
  /\ \/ Fails \/ Heard \/ NoTlsOffered \/ Accepted \/ Refused \/ Parted
     \/ Handshake \/ HandshakeFails
  /\ UNCHANGED parts

\* The server's reader gets one more line.
Arrive ==
  /\ request = "payload" /\ ~ Whole
  /\ arrived' = arrived + 1
  /\ UNCHANGED <<vars, letter, received>>

\* To a payload the server answers when it has read the end of it.
AnswerD(reply) ==
  /\ Answer(reply)
  /\ request = "payload" => Whole
  /\ received' = IF request = "payload" /\ reply.severity = 2
                   THEN ReadPayload(Stream) ELSE received
  /\ UNCHANGED <<letter, arrived>>

\* More of the payload may yet come through a connection that is cut; without
\* its end the server drops what it has.
CutD ==
  /\ Cut
  /\ IF request = "payload"
       THEN /\ arrived' \in arrived .. Len(Payload(letter.raw))
            /\ request' # None => Complete(SubSeq(Payload(letter.raw), 1, arrived'))
       ELSE UNCHANGED arrived
  /\ UNCHANGED <<letter, received>>

ShutdownD == Shutdown /\ UNCHANGED parts

------------------------------------------------------------------------------
ClientD == SayPayload \/ SayOther \/ Listen

ServerD == ShutdownD \/ CutD \/ Arrive \/ \E reply \in Reply : AnswerD(reply)

SpecD == InitD /\ [][ClientD \/ ServerD]_<<vars, parts>>

FairSpecD == SpecD /\ WF_<<vars, parts>>(ClientD) /\ WF_<<vars, parts>>(ServerD)

------------------------------------------------------------------------------
Words(lines) == [i \in DOMAIN lines |-> <<lines[i].dots, lines[i].is, lines[i].boundary>>]

\* What a server takes is the whole letter, for every recipient of the envelope:
\* not a part of it when the connection is lost in between, no line more or less
\* and no dot lost or gained.
Intact == taken > 0 => accepted = NRcpt /\ Words(received) = Words(letter.raw)

\* The letter arrives intact; one composed here arrives with the very bytes it
\* was sealed as, and, if the clock moved between the drawing of its
\* boundaries, shows each text, picture and file its author put in.
LetterArrives ==
  /\ Intact
  /\ taken > 0 /\ letter.draft # None =>
       /\ received = letter.raw
       /\ (\A i, j \in DOMAIN letter.draft.clock :
             i # j => letter.draft.clock[i] # letter.draft.clock[j])
          => Seen(received) = Meant(letter.draft)
==============================================================================
