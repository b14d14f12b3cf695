# A verification of mailbourne

mailbourne is one binary: an SMTP server with a durable queue, the outbound
engine that mails messages on, the commands and the console that set it up and
say what is wrong with a domain's DNS, and an ACME client.  This directory holds TLA+ models of the parts that keep state
or run beside each other, the TLC runs that check them, and theorems about them
that TLAPS proves.  Paths below are relative to `crates/mailbourne/src`.

## The system

    client --> session --> commit --> spool --> worker --> mailbox (Maildir)
              (server/    (server/   (disk)               +-> forward / outbound --> conversation --> MX host
               inbound)    serve.rs)                      +-> webhook, channel

    commands, console --> mailbourne.toml, keys/*.pem --> server (read at start; keys at each send)
    cert obtain <--> CA, responder on port 80 --> certificate and key files

| Component | State it keeps | Operations | What is hard about it |
|---|---|---|---|
| session (`server/inbound/session.rs`) | sender, recipients, announced name, login, TLS, reader's buffer | EHLO, MAIL, RCPT, DATA, RSET, STARTTLS, AUTH | any order of commands; pipelining over the TLS upgrade |
| commit (`server/serve.rs`) | none of its own | quota check, choice of targets, enqueue | what it measured is old when it stores |
| spool (`server/spool.rs`) | `<id>.eml`, `<id>.json`, a shared byte counter | enqueue, list_due, load, settle, rescan | two files per entry, rewritten in place; kills; sessions and worker at once |
| worker (`server/worker.rs`) | the round in hand | tick | outcomes recorded once per round |
| retry (`send/retry.rs`) | none | next_delay | ceiling, lifetime, saturation |
| mailbox (`server/store.rs`, `server/route.rs`) | files in `tmp`, `new`, `cur` | store, size | several recipients, kills, readers |
| forward, outbound (`server/forward.rs`, `server/outbound.rs`, `send/mod.rs`, `send/route.rs`) | none kept between rounds | deliver | one answer for several destinations |
| conversation (`send/conversation.rs`) | the dialogue | EHLO ... QUIT, with TLS and AUTH | any reply at any point; the wire breaks |
| configuration (`shared/core/config.rs`, `shared/core/edit.rs`, `main.rs`, `cli/`) | `mailbourne.toml`, `keys/*.pem` | add, set, rekey, remove, first run | read, edit, write without a lock; key before text |
| acme (`server/acme/`) | account key, order, tokens, certificate and key files | order flow, responder | the CA asks when it likes; nonces; two files |
| policy, accounts, door (`server/policy.rs`, `server/accounts.rs`, `server/door.rs`) | read-only after start | decide | accounts switched off, aliases, catch-alls, and logins that come and go between the decisions |
| webhook, channel (`server/webhook.rs`, `server/route.rs`) | the channel | deliver | a channel that is full, or lost with what is in it |
| composing, signing (`shared/compose.rs`, `shared/mime.rs`, `send/sign.rs`) | none | plain_text, rich, dkim_sign | nested parts, dots, ends of lines |
| console, inspector (`cli/console.rs`, `inspect/mod.rs`, `inspect/sheet.rs`) | a copy of the configuration, the last sheets | browse, change, inspect | old copies, failed lookups, other people's records |
| several servers | all of the above, and the wire between them | forward to one another | loops, cuts, kills, copies |

`PROJECT.json` lists every part with its source files and how far it is
modelled, the hazards at their lines, and for each definition the lines it
stands for.

## The modules

**The queue.**  `Retry` is the schedule, as a recursive function.  `Spool` holds
the two files of each entry, the byte counter, and `enqueue` file operation by
file operation, so that a session may stop, fail or be killed between any two.
`Worker` adds `tick`: it lists what is due, loads an entry, tries its pending
targets one by one, and settles, where the rewrite of the json is a truncation
and a write, and a removal gives back the bytes, removes the body and then the
json.  `Restart` is a kill and a new start with the rescan, possibly into another
set of targets.  What a target answers is a choice.  `MailQueue` is the abstract
at-least-once queue; `WorkerRefinement` maps `Worker` onto it, where damage to a
record is an action of the abstract queue that the code takes only if a kill or
an error hits the rewrite.  `WorkerClaims` states what comments say and the code
does not do.

**The session.**  `Session` keeps, with every fact the session learns, the
channel it was learned on and the MAIL it belongs to, so that mixing facts of
two channels or two envelopes is visible.  The wire is the lines sent and not
consumed, of which some sit in the reader's buffer: STARTTLS depends on where
that boundary is.  Policy, accounts and the door's verdict are choices there.
`Inbound` is the session with these parts, as `serve_cmd` puts them together
from a configuration: the account registry, `Acceptance`, the door and the
commit.  Each of its steps is a step of `Session` that the parts allow.

**Going out.**  `Attempt` is what one delivery attempt promises: a single
outcome, true of what the receiving server did.  `Conversation` is the client's
dialogue in its four forms (to a host, with STARTTLS, as a submission in the
clear, over mandatory TLS), against a server that answers anything, shuts down
or is cut off.  `Letter` has the bytes of a letter as lines: how `rich` nests its
parts, the seal on top, the dots and line ends as
`write_transparent_payload` sends them, and what `read_payload`, mailbourne's
own, makes of them.  `Delivery` is the dialogue with the letter going over line
by line, and with a connection that may be lost in the middle.  `Relay` is the loop over destinations of the forwarding and the
outbound target with MX planning and rounds; for a dialogue it uses `Attempt`,
which `Conversation` is shown to implement.  Between them they compose the way
out.

**Between servers.**  `Network` has any number of servers that forward to one
another, an outside sender that keeps its message until it has read a 250, a
webhook, and an embedding program behind a bounded channel.  It composes what
the other modules are shown to implement: the queues are one `MailQueue`, and a
dialogue is what `Attempt` promises, taken at one end and heard of at the other,
or cut, and then perhaps taken late.  What an entry owes and has been handed is
the queue's; the pass of each worker, the mailboxes, the channel and the letter
with its Received headers are `Network`'s own.  A pass is at one recipient of
one target: the mailboxes in the order of the envelope, then the destinations of
the forwarder, of which each is dialled once.  The worker lists its spool, which
fails as a whole while there is a json that does not parse (`torn`), and makes a
pass for each entry listed.  A rewrite of a record is two steps: between them a
kill (`Crash`), or a disk error (`RewriteFails`), tears it, which is the queue's
`Damage`; an `enqueue` that does not get through leaves such a json too
(`CommitFails`).  A kill takes the pass, the listing and the channel with it; the
sessions it ends are each cut by a mishap of its own, and so there are no more
of them in a run than the bound allows.  Time is left out: any entries may be
due when the spool is listed, and a lifetime is a number of passes.

**Local mail.**  `Mailboxes` has the quota check of `commit`, directory by
directory, the mailbox target recipient by recipient, and `Maildir::store` file
operation by file operation, with readers that move and remove files.  Handing
over to the spool is one step there: its own steps are in `Spool`.  A mailbox is
the recipient as the client spelled it.  The unique file name is the least
number no file has.

**Setting up.**  `Registry` has the commands that edit `mailbourne.toml`, each
reading, editing and writing with the file empty in between (an empty file is
valid TOML without a table), the keys they mint, and a server that keeps the
text it was started with but reads the key at every send.  A duplicate is looked
for once before the key is minted and once in the edit.  Adding a domain with an
existing key (`--dkim-key`) is left out.

**The console.**  `Sheet` is `build` of `inspect/sheet.rs`: for SPF, DKIM, DMARC
and MX, what there is to do about the record, where an SPF record is a sequence
of mechanisms that cover hosts and let them pass or not.  `Console` adds to
`Registry` the console's process with its two screens and its copy of the
configuration, the inspection in its two steps (the lookups, then the key file
and the verdict), the zones, another provider that edits them, and the operator,
who publishes what a sheet or a command says.  The keys and the file are
`Registry`'s, and so are the steps of a change, the console's as well as those
of a command beside it.

**Certificates.**  `Issuance` is `cert obtain`: the account key file, the port,
the order flow with its nonces and polls, the responder, the two files written
at the end, and a CA that validates and issues on its own.  The first error of
accept ends the responder while its command goes on (`AcceptFails`): its tokens
are answered no more, and the port is free for the next command.  The commands
share directory, names and port.  The command passes one name; the flow takes a list,
and the model orders two.

`MC...` modules give model values and small definitions to TLC.  `...Proofs`
modules hold the theorems, and `Sums` lemmas on numbers and on sums over finite
sets that several of them need.  A definition introduced by "Variant:" is the
changed form of the next one that a plausible bug would give; the properties
are measured against them, and nothing else uses them.

## The runs

| Run | Checks | Instance, and why it is enough |
|---|---|---|
| `worker_durability` | `AcceptedIsKept`, `RedeliveryBounded`, `RefusedIsNotSent`, the refinement `ImplementsQueue` | 2 messages, 3 targets, restart into another configuration, 1 disk error and 1 kill: one entry in any step while another is in any step, each kind of mishap at each step, and both together |
| `worker_capacity` | `UsedIsExact`, `SoftCap` | 4 one-byte messages, cap 1, two sessions at once, 1 kill: the bound of `SoftCap` is reached, so it is tight.  File errors are left out of this run |
| `worker_schedule` | `RetriesSpaced`, `RetryHorizon`, `AcceptedLeaves` | 2 messages, delays 1 and 2, lifetime 2, clock to 4, 1 kill: the doubling reaches its ceiling and the last try comes after the lifetime |
| `session` | `RelayNeedsLogin`, `OneChannel`, `OneEnvelope`, `CleanUpgrade`, `QueuedAsGranted` | 2 MAILs, 2 recipients per message, 2 lines in flight: an envelope before, across and after an upgrade, with a line over the boundary of the buffer; an account, one switched off that is the only one of its domain, an alias and a foreigner; door with and without cause to refuse |
| `conversation` | `NothingInClear`, `LetterArrives`, `ImplementsAttempt`, `Ends` | 2 recipients, all forms, all replies; drafts with and without HTML, picture, file, seal, and with boundaries drawn apart or in one tick; passed-on letters of up to two lines with lone dots, bare line feeds and no end of line; cut at every line |
| `relay` | `DeliveredIsTrue`, `OneCopyPerRound`, `BestHostFirst` | 3 destinations, 3 rounds, each kind of MX answer, 2 hosts |
| `mailboxes` | `ReaderSeesWhole`, `StoredMeansAll`, `CopiesInOrder`, `QuotaHolds` | 2 messages of 1 and 2 bytes, envelopes for two mailboxes, one twice, and an unsafe name; quota 0 or 2; 2 rounds; one error or kill |
| `network` | `NeverLost`, `CopiesAccounted`, `ChannelLoss`, `Drains` | 3 servers: two forward to each other, so that the loop guard (2 here) ends each message for them, and one with a webhook forwards to a plain mailbox.  A message for a forwarded and a plain mailbox, or for the third server's; 2 passes; 1 mishap at any step, among them a torn record and a half-made entry; a null sender or not; a channel of 1.  7 entries: no behaviour needs as many |
| `registry` | `NoUpdateLost`, `SignsAsAnnounced`, `KeyIsThere` | 4 commands of 2 operators, a domain with 2 selectors, an account, the server table; 1 failure or slip |
| `console` | `GreenIsTrue`, `MergeKeeps`, `FollowingSorts` | 1 domain, 2 selectors, the console and a command beside it with 2 changes between them; one failed lookup or one edit by another provider, before, between or after the console's looks |
| `issuance` | `ServedWhileAsked`, `FinalizedWhenValid`, `NonceSpentOnce`, `PairKept`, `EveryRunEnds` | 2 commands, 2 names, 2 polls, 2 mishaps: a second authorization, a last poll, and a second command after or, once an accept has failed, beside the first |
| `claim_crash_loses_nothing` | one statement | refuted, see "Disagreements" |

What the properties mean (each module has a `TypeOK`, which is proved):

- `AcceptedIsKept`: an accepted message is served or still owed on disk, for
  each of its targets; the one exception is a json torn by `settle`'s rewrite.
  `RedeliveryBounded` prices repetition: one per kill or disk error.
- `SoftCap`: the cap is checked before it is counted, so the disk may exceed it
  by one body per session in `enqueue`, and no more.
- `RelayNeedsLogin`: never an open relay, for any order of commands.
- `QueuedAsGranted`: what a queued message is due for is what the configuration
  grants to whoever brought it: the outbound relay only to a login that names a
  live account with its password, local delivery only to recipients that are
  hosted and an account, an alias, or in a domain without accounts, once the
  door has let the message pass.
- `LetterArrives`: a server that takes a letter takes all of it, no line and no
  dot more or less, for every recipient; one composed here arrives as it was
  sealed, and shows each part its author put in.
- `ImplementsAttempt`: the outcome reported is one the server's state allows:
  only a broken wire leaves open whether the message was taken.
- `CopiesInOrder`, `OneCopyPerRound`: how many copies a recipient may get when
  somebody else's delivery fails.
- `QuotaHolds`: a mailbox exceeds its quota only when the check could not know
  of another message under way, of a recipient named twice, or of a repeated
  round; readers that move files while they are counted are no excuse.
- `NeverLost`: mail is never between two servers without an owner: until a
  mailbox has its copy, the sender holds the message, a queue owes a target that
  leads there, or a worker has given one up.  It excepts what `AcceptedIsKept`
  excepts, a record torn inside its rewrite: that entry is read by nobody again.
  `CopiesAccounted` is the price: a copy for each way the message comes by, and
  as many again for each mishap.  `Drains`: every queue empties, though two
  servers forward to each other, and though one of them may be stuck: the
  server whose spool has a json that does not parse keeps what it has.
- `GreenIsTrue`: what "all sorted" on a screen is worth, and the reasons for
  which it may be out of date.  `MergeKeeps`: publishing an SPF row leaves one
  record, and nobody who passed before fails after.  `FollowingSorts`: a row
  that is followed is sorted.  All three are of a sheet that is still true: a
  lookup that failed is a reason, like a change of the zone, for which it is
  not, so the wrong advice it leads to is excused here and listed below.
- `SignsAsAnnounced`: mail is signed, with a pair of selector and key the
  operator was told to publish, except while the server runs with an older
  configuration, a command has replaced a key and not finished, or two commands
  overlapped.  `NoUpdateLost` excuses such overlaps likewise: nothing locks the
  file, so two commands that overlap do lose updates, and what is checked is
  that nothing else does.
- `ServedWhileAsked`: while a challenge is with the CA its token is presented,
  and the port is the command's own unless an accept error has ended its
  responder.
- `PairKept`: certificate and key belong together although nothing locks the
  files: the responder's port, held until after the second write, keeps a second
  command out.  The exceptions last until some command has written both files
  with none beside it: a command that stopped between the two, and two that
  wrote beside each other after an accept error had freed the port of one.
  Commands with different `--http-port` have no such protection.

A `cfg` with `CHECK_DEADLOCK FALSE` is of a system that ends: a session is
closed, a dialogue is over, a message is delivered or dropped, the commands are
used up.  The worker of `Worker` never stops, and its runs do check for deadlock (an
idle tick is a step); a network whose queues are empty is at rest.

**Bounds** are constants of their own: `MaxTime`, `MaxSessions`, `MaxFaults`,
`MaxCrashes`, `MaxMails`, `MaxWire`, `MaxRounds`, `MaxTries`, `MaxMishaps`,
`MaxCommands`, `MaxFailures`, `MaxEntries`.  `MAX_RCPT`, the number of polls and the retry
policy, the loop guard and a channel's capacity are constants of the program
with smaller values in the runs.

**Fairness.**  `Worker`: the runtime goes on with the worker's task and with
every session inside `commit`, time passes, and a target returns with some
outcome; clients owe nothing.  `Conversation`: the client writes when it can,
and the server answers or the connection is lost; `read_reply` itself has no
deadline, so this is an assumption about the world and not about the code.
`Network`: each worker goes on (where it can: one whose spool cannot be listed
does nothing), a dialogue is answered or cut, the sender tries again, and an
embedding program drains its channel.
`Issuance`: a command goes on whenever it can, its requests are answered or
lost; the CA owes nothing.

**Abstractions** to keep in mind: the listing of the spool is one step; the
clock does not go backwards; a finished write is on disk, so loss of power with
unsynced data is left out; the server in `Conversation` sends one reply per
line, save a 421 when it shuts down; a truncated file never parses.

## What is proved

TLAPS checks these for every value of the constants under the stated
assumptions, and for behaviours of any length.  The assumptions are on the
constants, stand in the modules that declare them, and are evaluated by TLC in
the runs.  Three say more than a type: `Assembled` of `Inbound`, that the
session's policy is the one `serve_cmd` builds; `ForeignAssumption` of
`Console`, that other providers' records neither grant nor deny this server by
its address; and `NetworkAssumption`, that the recipients of one offer are of
one server, as the session grants them, and that the names of servers, which
tell whose a dialogue is, are no numbers, which mark those without a client.
One theorem has a hypothesis besides (`RoomInWord`, below).

- **`WorkerProofs`**: `TypeCorrect`, `AcceptedKept`, `RepeatsBounded`,
  `RoutesHold`, `RefusedStays`, `HorizonHolds`.  None of them is inductive: that
  a message is kept while the worker removes its body depends on what the worker
  knows.  `IInv` adds what the parts may assume of each other: `Registers`, what
  the worker's variables mean at each of its points; `SessionFiles`, which files
  exist at each step of `enqueue`; `EntryFiles`, what is on disk of an entry
  after that; `EntryInHand`, how the round relates to the entry's record;
  `Handovers`, how often a target has had the message at this point of the
  round, which gives the bound on repetition.  `Kept_Invariant` proves `IInv`
  inductive, action by action.

  `WorkerIsQueue`: the files on disk are the abstract queue, each step of
  `Worker` a step of `MailQueue` or none.  `RetriesAreSpaced`: the k-th retry
  comes no sooner than k shortest delays; it needs that no delay is shorter than
  the first, or than the ceiling if that is less, which is an induction over the
  recursive schedule, made with `Induction` of `Sums`, and that what the worker
  listed was due (`Spacing`).  `UsedExact`, `CapIsSoft`: the counter is the sum
  of what is stored and not yet counted (`Counting`), and who is counted without
  room for it is in `enqueue`.  Both assume `RoomInWord`: that the cap, with one
  largest message for each session and each error, is less than the counter's
  word; the counter is a `u64`, and a cap near its end would be taken for room.
- **`SessionProofs`**: `SessionTypes`, `NeverOpenRelay`, `ChannelsNeverMix`,
  `EnvelopesNeverMix`, `UpgradeIsClean`, from `SessionInv`: how the lines on the
  wire are tagged (`Link`), that sender and recipients in force belong to the
  current MAIL and channel (`SenderInForce`, `RcptsInForce`), and which MAILs
  were committed (`Commits`).  `SessionWithParts`: `Inbound` implements
  `Session`, so all of this holds of it.  `QueueIsGranted` needs `GInv`, what
  the registry, the policy and the door have found out and of whom it still
  holds.
- **`ConversationProofs`**: `ConversationTypes`, `NeverPartOfAnEnvelope`,
  `NeverInClear`, and `ReportsTheTruth`: `Conversation` implements `Attempt`.
  `CInv` says which reply is awaited and who has it (`Exchange`), how outcome
  and point agree (`Verdict`), what the server's state must be (`Truth`), how
  the envelope grew (`Envelope`) and what was shown on which channel
  (`Privacy`).  `DialogueWithLetter`: `Delivery` implements `Conversation`.
  `ArrivesIntact`: a letter taken is whole, for any letter of any length, from
  `OnItsWay` and from lemmas about the wire: a stuffed line is never the lone
  dot (`StuffedIsNotLone`), the stream is complete only when all of it is there
  (`EndIsTheEnd`), and reading undoes writing (`ReadsBack`).  `ArrivesAsMeant`
  adds what is seen in a composed letter, for any number of pictures and files:
  `Leads` says from which state to which a run of lines takes a reader wherever
  it occurs, `Shows` that of a part inside any others whose boundaries differ,
  and `MultipartShows`, by induction on the parts, that a multipart shows what
  its parts show.
- **`ForwardingProofs`**, of `Relay`: `RelayTypes`, `DeliveredTruly`,
  `CopiesBounded`.  `RInv` says which destinations have had this round's copy
  (`ThisRound`), that a round found a server for all it has passed
  (`ServedBefore`), and that an open dialogue has no outcome.  `BestFirst`: the
  order of the hosts is a stable sort of what DNS said (`PlanSorts`, from the
  places that counting gives), and `Dialled` remembers which were silent.
- **`ForwardingProofs`**, of `Network`: `NetworkTypes`, `NetworkIsQueue` (its
  queues implement `MailQueue`, as `Worker` does), `NoMailIsLost`,
  `ChannelLosesLittle`, `CopiesHaveAPrice`.  `NInv`: a pass is of an entry that
  is queued there, and has done what it left behind (`Passes`, `Progress`), all
  of it once the record is being rewritten; what
  an entry has handed over was taken (`HandedIsDone`); a dialogue belongs to
  the place its client has come to, is the only one there, and if the server
  has taken the message it is in the next queue (`Dialogues`).  The same is
  kept of an entry whose record is damaged, since the exception in `NeverLost` is
  only for what it had not handed over.  `NeverLost` follows by induction on the length of the way (`WayIsOwned`).  `LossInv` is
  what the channel and the programs' books hold between them.

  `CopiesAccounted` is an argument about a quantity: `Due(b)` is the set of what
  is still to come to the box, at entries, in dialogues without a client, and at
  the sender.  Every step leaves it or moves one part of it, storing a copy takes
  one out, and a mishap puts in at most what one message is worth, which is not
  more than the ways to the box (`Worth` goes into `Visits` one to one, by
  `Travel`: what is under way are some of the recipients that were offered, each
  so many forwardings on).
- **`MailboxesProofs`**: `MailboxesTypes`, `ReadersSeeWhole`,
  `StoredReachedAll`, `CopiesAreAccounted`.  `MInv` has the files (what they are
  for, whole before they are renamed, names apart; that a free name is to be
  found is a lemma on finite sets) and the round: who has a copy already, who is
  ahead of whom, and how many rounds there were.  `QuotasHold`: `Quotaed` says
  what a box may hold while a session is between its two looks at the
  directories, and what its count is worth when a reader moves a file from one
  to the other (`HalfCounted`, `Watched`); its steps are sums over files.
- **`IssuanceProofs`**: `IssuanceTypes`, `TokenIsServed`, `NoEarlyFinalize`,
  `NoncesSpentOnce`, `PairStaysPair`.  `IssInv` says what a command has got from
  the CA at each point of the flow (`Stands`) and that, from the request for the
  directory to its last write, it holds the port or an accept error has ended
  its responder.  So of two commands between their two files one is deaf, which
  the history notes; and who writes both files with nobody beside it (`alone`,
  `Aloneness`) leaves a pair, whatever was there before.
- **`ConsoleProofs`**, of `Registry`: `RegistryTypes`, `UpdatesAreKept`, `SignsAsTold`,
  `KeysAreThere`.  `RInv` speaks of the texts in the hands of commands as of the
  one on disk: none names a domain without a key (`KeysFirst`), alone each is
  what the commands add up to with one more (`Summed`), and of each key the
  operator was told, or its domain is an orphan (`ToldAll`).
- **`ConsoleProofs`**, of `Console`: `SortedIsTrue`, `MergeIsSafe`, `FollowedIsSorted`.
  `CInv`: the console's copy is the file while no command beside has written it
  (`Abreast`), what the lookups brought is the zone while that has not changed
  (`AskedOK`), and a sheet is the one the zone calls for (`ShownOK`).  That a
  merge keeps those who passed is a lemma about the first mechanism that covers
  a host.

Every invariant and action property of the runs is thus a theorem.  Only
model-checked is liveness (`AcceptedLeaves`, `Ends`, `EveryRunEnds`, `Drains`),
which needs fairness and ENABLED, out of this prover's reach.  The library's
induction theorems are out of its reach too; where a recursive function, a sum
or a flattened sequence is reasoned about, the induction is over a set of
numbers that has 0 and with each its successor (`Induction` of `Sums`).

## Disagreements between code and text

One is a run of its own, with a trace:

- `claim_crash_loses_nothing`: `server/spool.rs` says a crash after `250` loses
  nothing; a kill inside `settle`'s in-place rewrite leaves an accepted message
  that no listing can read.

Others were met on the way and have no run:

- `server/acme/order.rs:48` says the token is retrievable for as long as
  validation needs it; the responder's loop (`server/acme/challenge.rs:42`) ends
  at the first error of accept, and the command goes on without it.
  `ServedWhileAsked` and `PairKept` except it.
- `server/worker.rs:28` says a single unreadable entry is skipped; `list_due`
  (`server/spool.rs:171`) fails as a whole, and every other message waits for
  ever.
- `send/conversation.rs:182` and `send/route.rs:31` say a permanent refusal and
  a null MX are never retried; both become `Failed` (`server/outbound.rs:83`),
  which the worker retries until the lifetime ends.
- A message stored but not yet forwarded can be stored twice
  (`server/spool.rs` says it is not): the round is recorded after its last
  target.  `RedeliveryBounded` says how often.
- `send/mod.rs` tries hosts "until one answers", but a host name without an
  address ends the attempt with the others untried.
- A recipient behind one that always fails is never tried before the message is
  dropped, and dropping sends no bounce, though `send/mod.rs` speaks of a
  message "delivered or honestly bounced".
- The console's first run is offered, and overwrites `mailbourne.toml`, also
  when that file is there and does not parse.
- The per-account `quota_bytes` of `shared/core/config.rs` is read and never
  enforced.
- `send/sign.rs` asks to fix the configuration instead of sending; the outbound
  target sends unsigned when the key cannot be read.
- A recipient the policy accepts may have a name the store refuses: the message
  is accepted, fails in every round and is dropped.
- `shared/mime.rs` promises a boundary unique within one message; it is the time
  of day, and two that are drawn in one tick are equal.  Then the inner
  multipart's end is taken for the outer one's, and what comes behind it, a
  file perhaps, is not shown.  `LetterArrives` excepts this case.
- `server/forward.rs` says a forwarded message keeps its bytes and their seal; a
  bare line feed in it is sent as CRLF, so a seal over it no longer fits.
- A lookup that fails is taken for a name without records (`inspect/mod.rs`):
  the sheet may then say ADD for a second SPF record, against
  `inspect/sheet.rs:5`.
- With one SPF record and no address for the server's name, the sheet has no SPF
  row, and the domain may be called all sorted while SPF refuses the server.
- The MX row is always ADD, so a domain that receives is never all sorted.
- A grant behind `all` counts as authorizing, and of several DMARC records, or
  of several keys under one selector, only the first is looked at; a
  replacement then leaves the others.
- `domain rekey` does not ask that the selector differ, as the console does.
  After it the console's copy still has the old selector, and its sheet offers
  the new key under the old name.
- A change by command is not seen by the running server before its restart.

## Not modelled, and why

The JSON and HTTP framing of `server/webhook.rs` and `server/acme/http.rs`, the
grammar of `server/inbound/command.rs`, TOML, and header text are pure parsing
or formatting: no state, and no property above tells their results apart.
`shared/dkim.rs`, `server/acme/account.rs` and `server/tls.rs` are cryptography
of libraries.  The checklist of `inspect/` asks DNS and servers once and prints.
An error of accept ends `run` of the server (`server/serve.rs`), and so the
process: for the models a restart at any time.  (That of the responder ends the
responder alone and is modelled.)  `read_reply` has no deadline: a server that stays
silent holds the worker, and no document promises otherwise.
`shared/glossary.rs` is text.  `send/queue.rs` is a comment.

## Plan

Done: the queue, the session with its policy, the conversation with its letter,
relay, mailboxes, registry, console, issuance and the network of servers, each
with its proofs.  Next, in this order:

1. Prove: that each dialogue of `Network` is one of `Attempt`, so that this part
   of the composition is a theorem too.
2. Model: the command parser as an operator on tokens; a second network in which
   a forwarder's destinations fan out.
