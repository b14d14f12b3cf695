------------------------------- MODULE Network -------------------------------
(***************************************************************************)
(* Several mailbourne servers that forward mail to one another.  A message *)
(* comes from an outside sender, which keeps it until it has read a 250,   *)
(* and is queued at its server; the one worker of each server takes the    *)
(* entries of its queue to their targets: the mailbox store (route.rs,     *)
(* MailboxTarget), a webhook (webhook.rs), an embedding program's channel  *)
(* (route.rs, ChannelTarget) and the forwarder (forward.rs), which opens a *)
(* dialogue with the server of the next address.                           *)
(*                                                                         *)
(* The queues together are one MailQueue, which module WorkerRefinement    *)
(* shows a spool and its worker to implement; a dialogue is what module    *)
(* Attempt promises: refused, taken and heard of, or cut, and then the     *)
(* message may be taken late; who has been cut off leaves a number behind  *)
(* instead of a name.  A pass that fails is repeated until the retry       *)
(* budget is spent; a server may be killed between any two steps, and a    *)
(* disk error or a kill while settle rewrites a record, or while enqueue   *)
(* creates one, leaves a json that fails every later listing.              *)
(***************************************************************************)
EXTENDS Naturals, Sequences, SequencesExt, FiniteSets

CONSTANTS
  Servers,
  Boxes,         \* addresses
  Home,          \* Home[b]: the server of b
  Rule,          \* Rule[b]: where b's mail is forwarded, or Nil
  Hooked,        \* servers with a webhook
  Embedding,     \* servers with a channel into an embedding program
  Offers,        \* the recipients the outside sender's message may have
  Sender,        \* the outside sender
  Nil,
  MaxReceived,   \* DEFAULT_MAX_RECEIVED
  Buffer,        \* the capacity of a channel
  MaxTries,      \* bound: the passes a lifetime allows
  MaxMishaps,    \* bound: failures, cuts and kills
  MaxEntries     \* bound: entries of all queues; no behaviour comes to it

Ids == 1 .. MaxEntries

Target == {"mailbox", "webhook", "channel", "forward"}

Pass == [of : Ids, left : SUBSET Target, at : Nat, failed : SUBSET Target,
         rewrites : BOOLEAN]

ASSUME NetworkAssumption ==
  /\ Home \in [Boxes -> Servers] /\ Rule \in [Boxes -> Boxes \cup {Nil}]
  /\ Nil \notin Boxes \cup Servers \cup Pass /\ Sender \notin Servers
  /\ (Servers \cup {Sender}) \cap Nat = {}
  /\ Hooked \subseteq Servers /\ Embedding \subseteq Servers
  /\ \A o \in Offers :
       o \in Seq(Boxes) /\ o # <<>> /\ \A i \in DOMAIN o : Home[o[i]] = Home[o[1]]
  /\ {MaxReceived, MaxMishaps} \subseteq Nat
  /\ {Buffer, MaxTries, MaxEntries} \subseteq Nat \ {0}

VARIABLES
  status, owed, handed, waived,   \* the queues
  envelope,      \* envelope[m]: recipients, Received headers, whether the sender is null
  tries,       \* tries[m]: passes that have failed
  listed,      \* listed[s]: the due entries its tick has not come to yet
  work,        \* work[s]: the worker's pass, or Nil
  torn,        \* servers with a json in the spool that does not parse
  flight,      \* dialogues: those a client waits in, and those it was cut from
  sender,      \* "holding" the message, or "done"
  offered,     \* its recipients, and whether its envelope sender is null
  filed,      \* filed[b]: files in b's mailbox
  inbox,       \* inbox[s]: the channel
  open,        \* servers whose embedding program still receives
  got,         \* what embedding programs have received
  mishaps,
  losses       \* history: channels that went down

queue == <<status, owed, handed, waived>>
spool == <<listed, torn>>
mail == <<envelope, tries, filed, offered>>
channel == <<inbox, open, got, losses>>
netVars == <<queue, mail, spool, work, flight, sender, channel, mishaps>>

Q == INSTANCE MailQueue WITH Msgs <- Ids, Targets <- Target

\* The targets serve_cmd sets up; incoming mail goes to all of them.
TargetsOf(s) ==
  {t \in Target : \/ t = "mailbox"
                  \/ t = "webhook" /\ s \in Hooked
                  \/ t = "channel" /\ s \in Embedding
                  \/ t = "forward" /\ \E b \in Boxes : Home[b] = s /\ Rule[b] # Nil}

HomeOf(m) == Home[envelope[m].rcpts[1]]

NetInit ==
  /\ Q!Init
  /\ envelope = [m \in Ids |-> Nil] /\ tries = [m \in Ids |-> 0]
  /\ listed = [s \in Servers |-> {}] /\ work = [s \in Servers |-> Nil] /\ torn = {}
  /\ flight = {} /\ sender = "holding" /\ offered \in [rcpts : Offers, null : BOOLEAN]
  /\ filed = [b \in Boxes |-> 0]
  /\ inbox = [s \in Servers |-> <<>>] /\ open = Embedding /\ got = {}
  /\ mishaps = 0 /\ losses = 0

Mishap == mishaps < MaxMishaps /\ mishaps' = mishaps + 1

------------------------------------------------------------------------------
(***************************************************************************)
(* The worker of server s.                                                 *)
(***************************************************************************)

Entry(s) == work[s].of

Rank == [mailbox |-> 1, webhook |-> 2, channel |-> 3, forward |-> 4]

\* A pass tries its targets in serve_cmd's order.
AtTarget(s, t) ==
  work[s] # Nil /\ t \in work[s].left /\ \A u \in work[s].left : Rank[t] <= Rank[u]

Queued(s) == {m \in Ids : status[m] = "queued" /\ HomeOf(m) = s}

\* list_due: those that are due, or no listing at all.
ListDue(s) ==
  /\ work[s] = Nil /\ listed[s] = {} /\ s \notin torn
  /\ \E due \in (SUBSET Queued(s)) \ {{}} : listed' = [listed EXCEPT ![s] = due]
  /\ UNCHANGED <<queue, mail, work, torn, flight, sender, channel, mishaps>>

BeginPass(s, m) ==
  /\ work[s] = Nil
  /\ m \in listed[s] /\ m \in Queued(s)
  /\ listed' = [listed EXCEPT ![s] = @ \ {m}]
  /\ work' = [work EXCEPT ![s] = [of |-> m, at |-> 1, failed |-> {}, rewrites |-> FALSE,
                                 left |-> TargetsOf(s) \cap owed[m]]]
  /\ UNCHANGED <<queue, mail, torn, flight, sender, channel, mishaps>>

\* The pass goes on to the target behind t.
Without(s, t, failed) ==
  [of |-> Entry(s), left |-> work[s].left \ {t}, at |-> 1, failed |-> failed,
   rewrites |-> FALSE]

\* The target at hand answers Delivered, or Failed.
Done(s, t) ==
  /\ Q!Hand(Entry(s), t)
  /\ work' = [work EXCEPT ![s] = Without(s, t, work[s].failed)]

TargetFails(s, t) ==
  /\ work' = [work EXCEPT ![s] = Without(s, t, work[s].failed \cup {t})]
  /\ UNCHANGED queue

\* A target that has a part of its work for each of some places in the list of
\* recipients does them in order; it is at place i.
Turn(s, places, i) ==
  i \in places /\ work[s].at <= i /\ \A j \in places : work[s].at <= j => i <= j

\* The part for place i is done.
Advance(s, t, places, i) ==
  IF \E j \in places : i < j
    THEN work' = [work EXCEPT ![s].at = i + 1] /\ UNCHANGED queue
    ELSE Done(s, t)

\* MailboxTarget: a copy for each recipient, in order.
Store(s) ==
  /\ AtTarget(s, "mailbox")
  /\ LET rcpts == envelope[Entry(s)].rcpts
     IN  \E i \in DOMAIN rcpts :
           /\ Turn(s, DOMAIN rcpts, i)
           /\ filed' = [filed EXCEPT ![rcpts[i]] = @ + 1]
           /\ Advance(s, "mailbox", DOMAIN rcpts, i)
  /\ UNCHANGED <<envelope, tries, offered, spool, flight, sender, channel, mishaps>>

StoreFails(s) ==
  /\ AtTarget(s, "mailbox")
  /\ Mishap /\ TargetFails(s, "mailbox")
  /\ UNCHANGED <<mail, spool, flight, sender, channel>>

\* WebhookTarget: a 2xx, or anything else, a timeout and a wrong URL among it.
Post(s) ==
  /\ AtTarget(s, "webhook")
  /\ Done(s, "webhook") \/ TargetFails(s, "webhook")
  /\ UNCHANGED <<mail, spool, flight, sender, channel, mishaps>>

\* Variant: one message more than the channel holds.
RoomOneMore(s) == Len(inbox[s]) <= Buffer

Room(s) == Len(inbox[s]) < Buffer

\* ChannelTarget waits for room, unless the receiver is gone.
Hand(s) ==
  /\ AtTarget(s, "channel")
  /\ s \in open /\ Room(s)
  /\ inbox' = [inbox EXCEPT ![s] = Append(@, Entry(s))]
  /\ Done(s, "channel")
  /\ UNCHANGED <<mail, spool, flight, sender, open, got, losses, mishaps>>

HandFails(s) ==
  /\ AtTarget(s, "channel")
  /\ s \notin open
  /\ TargetFails(s, "channel")
  /\ UNCHANGED <<mail, spool, flight, sender, channel, mishaps>>

\* prepare: one Received header more.
Prepare(received) == received + 1

\* The recipients with a rule, by their places; each has one destination.
Aliases(m) == {i \in DOMAIN envelope[m].rcpts : Rule[envelope[m].rcpts[i]] # Nil}

Destination(m, i) == Rule[envelope[m].rcpts[i]]

NothingToForward(s) ==
  /\ AtTarget(s, "forward")
  /\ Aliases(Entry(s)) = {}
  /\ Done(s, "forward")
  /\ UNCHANGED <<mail, spool, flight, sender, channel, mishaps>>

\* The loop guard, and the null sender, to which no Envelope can be made.
RefuseToForward(s) ==
  /\ AtTarget(s, "forward")
  /\ Aliases(Entry(s)) # {}
  /\ envelope[Entry(s)].received >= MaxReceived \/ envelope[Entry(s)].null
  /\ TargetFails(s, "forward")
  /\ UNCHANGED <<mail, spool, flight, sender, channel, mishaps>>

Waits(c) == \E f \in flight : f.by = c

\* A dialogue with the next destination.
Dial(s) ==
  /\ AtTarget(s, "forward") /\ ~ Waits(s)
  /\ LET m == Entry(s)
     IN  /\ envelope[m].received < MaxReceived /\ ~ envelope[m].null
         /\ \E i \in Aliases(m) :
              /\ Turn(s, Aliases(m), i)
              /\ flight' = flight \cup
                   {[by |-> s, rcpts |-> <<Destination(m, i)>>, null |-> FALSE,
                     received |-> Prepare(envelope[m].received), taken |-> FALSE]}
  /\ UNCHANGED <<queue, mail, spool, work, sender, channel, mishaps>>

------------------------------------------------------------------------------
Over(s) == work[s] # Nil /\ work[s].left = {} /\ ~ work[s].rewrites

Finish(s) ==
  /\ Over(s) /\ \A t \in work[s].failed : <<Entry(s), t>> \in waived
  /\ Q!Leave(Entry(s))
  /\ work' = [work EXCEPT ![s] = Nil]
  /\ UNCHANGED <<mail, spool, flight, sender, channel, mishaps>>

Retries(s) == work[s].failed # {} /\ tries[Entry(s)] + 1 < MaxTries

\* settle with survivors truncates the json ...
StartRewrite(s) ==
  /\ Over(s) /\ Retries(s)
  /\ work' = [work EXCEPT ![s].rewrites = TRUE]
  /\ UNCHANGED <<queue, mail, spool, flight, sender, channel, mishaps>>

Rewriting(s) == work[s] # Nil /\ work[s].rewrites

\* Variant: a failed pass does not count against the lifetime.
RescheduleUncounted(s) ==
  /\ Rewriting(s)
  /\ Q!Record(Entry(s), work[s].failed)
  /\ work' = [work EXCEPT ![s] = Nil]
  /\ UNCHANGED <<mail, spool, flight, sender, channel, mishaps>>

\* Variant: a retry goes to every target again.
RescheduleAll(s) ==
  /\ Rewriting(s)
  /\ tries' = [tries EXCEPT ![Entry(s)] = @ + 1]
  /\ work' = [work EXCEPT ![s] = Nil]
  /\ UNCHANGED <<queue, envelope, filed, offered, spool, flight, sender, channel, mishaps>>

\* ... and fills it: what failed stays pending.
Reschedule(s) ==
  /\ Rewriting(s)
  /\ Q!Record(Entry(s), work[s].failed)
  /\ tries' = [tries EXCEPT ![Entry(s)] = @ + 1]
  /\ work' = [work EXCEPT ![s] = Nil]
  /\ UNCHANGED <<envelope, filed, offered, spool, flight, sender, channel, mishaps>>

\* The record is torn in the middle of its rewrite: nobody will read it again.
Tears(s) == Q!Damage(Entry(s)) /\ torn' = torn \cup {s}

\* The json cannot be filled; the error ends the tick.
RewriteFails(s) ==
  /\ Rewriting(s)
  /\ Mishap /\ Tears(s)
  /\ work' = [work EXCEPT ![s] = Nil] /\ listed' = [listed EXCEPT ![s] = {}]
  /\ UNCHANGED <<mail, flight, sender, channel>>

\* The files stay as they were: they could not be removed, which settle does not
\* mind, or the json not be read or opened, which ends the tick.
SettleFails(s) ==
  /\ Over(s) /\ Mishap
  /\ work' = [work EXCEPT ![s] = Nil]
  /\ listed' = [listed EXCEPT ![s] = IF Retries(s) THEN {} ELSE @]
  /\ UNCHANGED <<queue, mail, torn, flight, sender, channel>>

\* The lifetime is spent; Finish follows.
WaiveFailed(s) ==
  /\ Over(s) /\ tries[Entry(s)] + 1 = MaxTries
  /\ \E t \in work[s].failed : <<Entry(s), t>> \notin waived
  /\ Q!Waive(Entry(s), work[s].failed)
  /\ UNCHANGED <<mail, spool, work, flight, sender, channel, mishaps>>

Worker(s) ==
  \/ ListDue(s) \/ \E m \in Ids : BeginPass(s, m)
  \/ Store(s) \/ Post(s) \/ Hand(s) \/ HandFails(s)
  \/ NothingToForward(s) \/ RefuseToForward(s) \/ Dial(s)
  \/ Finish(s) \/ StartRewrite(s) \/ Reschedule(s) \/ WaiveFailed(s)

------------------------------------------------------------------------------
(***************************************************************************)
(* Dialogues.                                                              *)
(***************************************************************************)

SenderDials ==
  /\ sender = "holding" /\ ~ Waits(Sender)
  /\ flight' = flight \cup {[by |-> Sender, rcpts |-> offered.rcpts, null |-> offered.null,
                             received |-> 0, taken |-> FALSE]}
  /\ UNCHANGED <<queue, mail, spool, work, sender, channel, mishaps>>

Waiting(f) == f.by \in Servers \cup {Sender}

\* The server commits the message to its queue.
Take(f) ==
  /\ ~ f.taken
  /\ \E m \in Ids :
       /\ status[m] = "new" /\ \A l \in Ids : l < m => status[l] # "new"
       /\ Q!Accept(m)
       /\ owed'[m] = TargetsOf(Home[f.rcpts[1]])
       /\ envelope' = [envelope EXCEPT ![m] = [rcpts |-> f.rcpts, received |-> f.received,
                                           null |-> f.null]]
  /\ flight' = (flight \ {f}) \cup IF Waiting(f) THEN {[f EXCEPT !.taken = TRUE]} ELSE {}
  /\ UNCHANGED <<tries, filed, offered, spool, work, sender, channel, mishaps>>

\* The forwarder at c is done with the destination at hand.
Forwarded(c) ==
  \E i \in Aliases(Entry(c)) :
    /\ Turn(c, Aliases(Entry(c)), i)
    /\ Advance(c, "forward", Aliases(Entry(c)), i)

\* The client reads the 250.
Hear(f) ==
  /\ Waiting(f) /\ f.taken
  /\ flight' = flight \ {f}
  /\ IF f.by = Sender
       THEN sender' = "done" /\ UNCHANGED <<queue, work>>
       ELSE Forwarded(f.by) /\ UNCHANGED sender
  /\ UNCHANGED <<mail, spool, channel, mishaps>>

\* Variant: who was cut off counts the message as delivered.
DisappointedNot(c) == IF c \in Servers THEN Forwarded(c) ELSE UNCHANGED <<queue, work>>

\* The client's attempt has failed: a worker's target fails, the sender tries
\* again, and who is gone does nothing.
Disappointed(c) ==
  IF c \in Servers THEN TargetFails(c, "forward") ELSE UNCHANGED <<queue, work>>

\* A dialogue that ends without the message taken.
Untaken(f) ==
  /\ ~ f.taken /\ Mishap
  /\ flight' = flight \ {f}
  /\ Disappointed(f.by)
  /\ UNCHANGED <<mail, listed, sender, channel>>

\* A 4xx or 5xx, or nobody there.
Refuse(f) == Waiting(f) /\ Untaken(f) /\ UNCHANGED torn

\* enqueue fails, or dies, inside its write of the json: a 451 or a lost
\* connection, and a half-made entry.
CommitFails(f) == Untaken(f) /\ torn' = torn \cup {Home[f.rcpts[1]]}

\* What becomes of a dialogue without its client: a message that is all there
\* may be taken late.
Orphaned(f) == {{}} \cup IF f.taken THEN {} ELSE {{[f EXCEPT !.by = mishaps']}}

\* The connection is lost, with the reply or without the message.
Cut(f) ==
  /\ Waiting(f)
  /\ Mishap
  /\ \E orphan \in Orphaned(f) : flight' = (flight \ {f}) \cup orphan
  /\ Disappointed(f.by)
  /\ UNCHANGED <<mail, spool, sender, channel>>

------------------------------------------------------------------------------
\* A kill and a restart: the pass and the channel are gone, and a record whose
\* rewrite was under way.  Of the sessions the server had, each is a Cut or a
\* CommitFails of its own.
Crash(s) ==
  /\ Mishap
  /\ IF Rewriting(s) THEN Tears(s) ELSE UNCHANGED <<queue, torn>>
  /\ work' = [work EXCEPT ![s] = Nil] /\ listed' = [listed EXCEPT ![s] = {}]
  /\ inbox' = [inbox EXCEPT ![s] = <<>>]
  /\ open' = open \cup ({s} \cap Embedding)
  /\ losses' = losses + 1
  /\ IF Waits(s)
       THEN LET f == CHOOSE f \in flight : f.by = s
            IN  \E orphan \in Orphaned(f) : flight' = (flight \ {f}) \cup orphan
       ELSE UNCHANGED flight
  /\ UNCHANGED <<mail, sender, got>>

\* The embedding program takes a message, or drops the receiver.
Receive(s) ==
  /\ inbox[s] # <<>>
  /\ got' = got \cup {Head(inbox[s])}
  /\ inbox' = [inbox EXCEPT ![s] = Tail(@)]
  /\ UNCHANGED <<queue, mail, spool, work, flight, sender, open, losses, mishaps>>

DropReceiver(s) ==
  /\ s \in open
  /\ Mishap
  /\ open' = open \ {s}
  /\ inbox' = [inbox EXCEPT ![s] = <<>>]
  /\ losses' = losses + 1
  /\ UNCHANGED <<queue, mail, spool, work, flight, sender, got>>

Answered(c) == \E f \in flight : f.by = c /\ (Take(f) \/ Hear(f))

NetNext ==
  \/ SenderDials
  \/ \E s \in Servers :
       \/ Worker(s) \/ StoreFails(s) \/ RewriteFails(s) \/ SettleFails(s) \/ Crash(s)
       \/ Receive(s) \/ DropReceiver(s)
  \/ \E f \in flight : Take(f) \/ Hear(f) \/ Refuse(f) \/ CommitFails(f) \/ Cut(f)

NetSpec == NetInit /\ [][NetNext]_netVars

\* Each worker goes on, each dialogue is answered, the sender tries again and
\* the embedding programs drain their channels.
NetFairSpec ==
  /\ NetSpec
  /\ WF_netVars(SenderDials)
  /\ \A s \in Servers : WF_netVars(Worker(s)) /\ WF_netVars(Receive(s))
  /\ \A c \in Servers \cup {Sender} : WF_netVars(Answered(c))

------------------------------------------------------------------------------
Envelope == [rcpts : Seq(Boxes), received : Nat, null : BOOLEAN]

NetTypeOK ==
  /\ status \in [Ids -> {"new", "queued", "gone", "damaged"}]
  /\ owed \in [Ids -> SUBSET Target]
  /\ handed \subseteq Ids \X Target /\ waived \subseteq Ids \X Target
  /\ envelope \in [Ids -> Envelope \cup {Nil}] /\ tries \in [Ids -> Nat]
  /\ listed \in [Servers -> SUBSET Ids] /\ torn \subseteq Servers
  /\ work \in [Servers -> Pass \cup {Nil}]
  /\ flight \subseteq [by : Servers \cup {Sender} \cup Nat, rcpts : Seq(Boxes),
                       received : Nat, null : BOOLEAN, taken : BOOLEAN]
  /\ sender \in {"holding", "done"} /\ offered \in [rcpts : Offers, null : BOOLEAN]
  /\ filed \in [Boxes -> Nat]
  /\ inbox \in [Servers -> Seq(Ids)] /\ open \subseteq Embedding /\ got \subseteq Ids
  /\ mishaps \in 0 .. MaxMishaps /\ losses \in Nat

\* Onward[k][b]: where b's mail has come to after k forwardings.
Onward[k \in 0 .. MaxReceived] ==
  [b \in Boxes |-> IF k = 0 THEN b
                   ELSE IF Rule[b] = Nil THEN Nil ELSE Onward[k - 1][Rule[b]]]

\* Target t of entry m leads to a copy in b's mailbox.
Leads(m, t, b) ==
  \E i \in DOMAIN envelope[m].rcpts :
    \/ t = "mailbox" /\ b = envelope[m].rcpts[i]
    \/ t = "forward" /\ \E k \in 1 .. (MaxReceived - envelope[m].received) :
                          b = Onward[k][envelope[m].rcpts[i]]

Visits(b) ==
  {v \in (DOMAIN offered.rcpts) \X (0 .. MaxReceived) : Onward[v[2]][offered.rcpts[v[1]]] = b}

\* Mail is not lost between servers: until a mailbox on the way has its copy,
\* the sender holds the message, some queue owes a target that leads there, or
\* a worker has given up one that would have, whatever is cut, refused, killed
\* or taken late.  The one exception is the spool's own: an entry whose record
\* was torn inside settle's rewrite is read by nobody again, and what it had not
\* handed over stays undone.
NeverLost ==
  sender = "done" =>
    \A b \in Boxes :
      Visits(b) # {} =>
        \/ filed[b] > 0
        \/ \E m \in Ids, t \in {"mailbox", "forward"} :
             /\ \/ <<m, t>> \in waived
                \/ status[m] = "queued" /\ t \in owed[m] /\ <<m, t>> \notin handed
                \/ status[m] = "damaged" /\ <<m, t>> \notin handed
             /\ Leads(m, t, b)

\* Duplicates have a price: a mailbox gets one copy for each way the message
\* comes to it within the loop guard, and as many again for each mishap; passes
\* repeated because a forwarder refuses or a webhook fails add none.
CopiesAccounted ==
  \A b \in Boxes : filed[b] <= Cardinality(Visits(b)) * (1 + mishaps)

\* What an embedding program does not get of the messages its channel took is
\* what was in the channel when it went down, at most Buffer each time.
ChannelLoss ==
  \A s \in Embedding :
    Cardinality({m \in Ids : /\ <<m, "channel">> \in handed /\ HomeOf(m) = s
                             /\ m \notin got /\ m \notin ToSet(inbox[s])})
      <= Buffer * losses

\* Every queue empties, though two servers forward to each other, and though one
\* of them may be stuck: only a server with a json that does not parse keeps
\* what it has, for every listing of its spool fails.
Drains ==
  <>[](/\ sender = "done"
       /\ \A f \in flight : ~ Waiting(f)
       /\ \A m \in Ids : status[m] = "queued" => HomeOf(m) \in torn)
==============================================================================
