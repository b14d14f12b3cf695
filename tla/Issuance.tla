------------------------------ MODULE Issuance ------------------------------
(***************************************************************************)
(* `mailbourne cert obtain`: the ACME order flow (server/acme/order.rs),   *)
(* the HTTP-01 responder (server/acme/challenge.rs), and the command that  *)
(* drives them and writes the account key and the certificate pair         *)
(* (main.rs, cert_cmd and load_or_create_account).                         *)
(*                                                                         *)
(* Commands run at the same time in one directory, for the same names and  *)
(* port.  The CA works on its own: told that a challenge is ready, it      *)
(* fetches the token when it likes.  Each request and its answer are one   *)
(* step of the command that waits for it.                                  *)
(***************************************************************************)
EXTENDS Integers, Sequences, FiniteSets

CONSTANTS
  Commands,      \* runs of the command
  NoCommand,     \* the port is free
  Names,         \* how many names are ordered: obtain takes a list
  MaxPolls,      \* how often a status is asked for: 20 in the code
  MaxMishaps     \* bound: failed writes, lost or refused requests, nonces left
                 \*   out, orders the CA turns down, accept errors, kills,
                 \*   together

ASSUME IssuanceAssumption ==
  /\ IsFiniteSet(Commands) /\ NoCommand \notin Commands
  /\ Names \in Nat \ {0} /\ MaxPolls \in Nat \ {0} /\ MaxMishaps \in Nat

VARIABLES
  at,            \* at[c]: what command c does next
  turn,          \* turn[c]: the authorization it is at
  polls,         \* polls[c]: questions asked in this loop
  nonce,         \* nonce[c]: what the nonce it holds is good for
  withheld,      \* withheld[c]: some answer carried no nonce (history)
  authz,         \* authz[c][i]: the CA's verdict on authorization i
  order,         \* order[c]: the CA's view of the order itself
  tokens,        \* tokens[c]: the challenges c's responder answers
  port,          \* whose responder listens
  deaf,          \* commands whose responder has ended before them
  disk,          \* the account key, certificate and private key files
  cut,           \* history: a command stopped between its two last files, or
                 \*   wrote them beside another, one of the two being deaf
  alone,         \* history: who writes the pair with nobody beside it
  mishaps        \* bound

runVars == <<turn, polls, deaf>>
pair == <<cut, alone>>
caVars == <<authz, order>>
vars == <<at, turn, polls, nonce, withheld, authz, order, tokens, port, deaf, disk,
          cut, alone, mishaps>>

\* The awaits on the CA, in the order obtain makes them.
Requests == {"directory", "nonce", "account", "order", "authz", "ready",
             "poll", "finalize", "pollOrder", "download"}
Local == {"new", "readAccount", "mintAccount", "fillAccount", "bind", "present", "cleanup"}
Writing == {"cert", "fillCert", "key", "fillKey"}
Ended == {"done", "failed", "killed"}

\* What a file holds: a whole account key, or a half of c's pair.
NoFile == "absent"
Emptied == "empty"

TypeOK ==
  /\ at \in [Commands -> Requests \cup Local \cup Writing \cup Ended]
  /\ turn \in [Commands -> 1..Names]
  /\ polls \in [Commands -> 0..MaxPolls]
  /\ nonce \in [Commands -> {"none", "fresh", "spent"}]
  /\ withheld \in [Commands -> BOOLEAN]
  /\ authz \in [Commands -> [1..Names -> {"pending", "processing", "valid", "invalid"}]]
  /\ order \in [Commands -> {"none", "pending", "processing", "valid", "invalid"}]
  /\ tokens \in [Commands -> SUBSET (1..Names)]
  /\ port \in Commands \cup {NoCommand}
  /\ disk \in [account : {NoFile, Emptied, "whole"},
               cert : Commands \cup {NoFile, Emptied},
               key : Commands \cup {NoFile, Emptied}]
  /\ deaf \subseteq Commands
  /\ cut \in BOOLEAN /\ alone \in Commands \cup {NoCommand}
  /\ mishaps \in 0..MaxMishaps

Init ==
  /\ at = [c \in Commands |-> "new"]
  /\ turn = [c \in Commands |-> 1] /\ polls = [c \in Commands |-> 0]
  /\ nonce = [c \in Commands |-> "none"] /\ withheld = [c \in Commands |-> FALSE]
  /\ authz = [c \in Commands |-> [i \in 1..Names |-> "pending"]]
  /\ order = [c \in Commands |-> "none"]
  /\ tokens = [c \in Commands |-> {}] /\ port = NoCommand
  /\ disk \in [account : {NoFile, "whole"}, cert : {NoFile}, key : {NoFile}]
  /\ deaf = {} /\ cut = FALSE /\ alone = NoCommand /\ mishaps = 0

Live(c) == at[c] \notin Ended
Goes(c, to) == at' = [at EXCEPT ![c] = to]
Mishap == mishaps < MaxMishaps /\ mishaps' = mishaps + 1

\* The command returns, and the responder goes with it: nothing it presented
\* is answered any more.
Closes(c) ==
  /\ port' = IF port = c THEN NoCommand ELSE port
  /\ tokens' = [tokens EXCEPT ![c] = {}]

(* ------------------------- the account key file ------------------------- *)

\* load_or_create_account looks before it reads or writes.
LookForAccount(c) ==
  /\ at[c] = "new"
  /\ Goes(c, IF disk.account = NoFile THEN "mintAccount" ELSE "readAccount")
  /\ UNCHANGED <<runVars, nonce, withheld, caVars, tokens, port, disk, pair, mishaps>>

\* A key file that does not parse ends the command.
ReadAccount(c) ==
  /\ at[c] = "readAccount"
  /\ Goes(c, IF disk.account = "whole" THEN "bind" ELSE "failed")
  /\ UNCHANGED <<runVars, nonce, withheld, caVars, tokens, port, disk, pair, mishaps>>

\* fs::write empties the file, then fills it.
Opens(c, from, file, to) ==
  /\ at[c] = from /\ Goes(c, to)
  /\ disk' = [disk EXCEPT ![file] = Emptied]
  /\ UNCHANGED <<runVars, nonce, withheld, caVars, tokens, port, mishaps>>

OpenAccount(c) == Opens(c, "mintAccount", "account", "fillAccount") /\ UNCHANGED pair

FillAccount(c) ==
  /\ at[c] = "fillAccount" /\ Goes(c, "bind")
  /\ disk' = [disk EXCEPT !.account = "whole"]
  /\ UNCHANGED <<runVars, nonce, withheld, caVars, tokens, port, pair, mishaps>>

\* Variant: A command that finds the port taken goes on without it.
BindAnyway(c) ==
  /\ at[c] = "bind" /\ Goes(c, "directory")
  /\ port' = c
  /\ UNCHANGED <<runVars, nonce, withheld, caVars, tokens, disk, pair, mishaps>>

\* The responder takes the port, until the command ends or an accept fails.
Bind(c) ==
  /\ at[c] = "bind"
  /\ IF port = NoCommand THEN Goes(c, "directory") /\ port' = c
                         ELSE Goes(c, "failed") /\ UNCHANGED port
  /\ UNCHANGED <<runVars, nonce, withheld, caVars, tokens, disk, pair, mishaps>>

\* The loop of the responder ends at the first error of accept and drops the
\* listener; the command is not told and goes on.
AcceptFails(c) ==
  /\ port = c /\ Mishap
  /\ port' = NoCommand /\ deaf' = deaf \cup {c}
  /\ UNCHANGED <<at, turn, polls, nonce, withheld, caVars, tokens, disk, pair>>

(* ---------------------------- talking to the CA ------------------------- *)

Cost(a) == (IF a.good \/ a.stale THEN 0 ELSE 1) + (IF a.carries THEN 0 ELSE 1)

\* What the CA may say to a request signed with the nonce c holds: a spent
\* nonce is always refused, and it may refuse or leave out the next nonce.
Answers(c) ==
  {a \in [good : BOOLEAN, carries : BOOLEAN, stale : {nonce[c] = "spent"}] :
     /\ a.stale => ~a.good
     /\ mishaps + Cost(a) <= MaxMishaps}

\* Variant: The nonce of the answer is not taken over.
KeepsNonce(a) == "spent"

\* The nonce for the next request: the answer's, else the one just spent.
take_nonce(a) == IF a.carries THEN "fresh" ELSE "spent"

Hears(c, a) ==
  /\ nonce' = [nonce EXCEPT ![c] = take_nonce(a)]
  /\ withheld' = [withheld EXCEPT ![c] = @ \/ ~a.carries]
  /\ mishaps' = mishaps + Cost(a)

\* An error returned by obtain: the command ends and the responder with it.
Errs(c) == Goes(c, "failed") /\ Closes(c)

\* A request that must succeed, and what the CA then has of the order.
Post(c, from, to, opened, asked) ==
  /\ at[c] = from
  /\ \E a \in Answers(c) :
       /\ Hears(c, a)
       /\ IF a.good
            THEN /\ Goes(c, to)
                 /\ order' = [order EXCEPT ![c] = opened]
                 /\ authz' = [authz EXCEPT ![c] = asked]
                 /\ UNCHANGED <<tokens, port>>
            ELSE Errs(c) /\ UNCHANGED caVars
  /\ UNCHANGED <<runVars, disk, pair>>

\* The directory, an unsigned read: no nonce is taken from it.
GetDirectory(c) ==
  /\ at[c] = "directory" /\ Goes(c, "nonce")
  /\ UNCHANGED <<runVars, nonce, withheld, caVars, tokens, port, disk, pair, mishaps>>

FreshNonce(c) ==
  /\ at[c] = "nonce" /\ Goes(c, "account")
  /\ nonce' = [nonce EXCEPT ![c] = "fresh"]
  /\ UNCHANGED <<runVars, withheld, caVars, tokens, port, disk, pair, mishaps>>

NewAccount(c) == Post(c, "account", "order", order[c], authz[c])

\* The CA may already hold some of the names valid from an earlier order.
NewOrder(c) ==
  \E held \in SUBSET (1..Names) :
    Post(c, "order", "authz", "pending",
         [i \in 1..Names |-> IF i \in held THEN "valid" ELSE "pending"])

\* Variant: The CA is told before the token is presented.
TellsUnpresented(c) == Post(c, "authz", "ready", order[c], authz[c])

\* An authorization that comes back as a problem has no challenges to pick.
GetAuthorization(c) == Post(c, "authz", "present", order[c], authz[c])

Present(c) ==
  /\ at[c] = "present" /\ Goes(c, "ready")
  /\ tokens' = [tokens EXCEPT ![c] = @ \cup {turn[c]}]
  /\ UNCHANGED <<runVars, nonce, withheld, caVars, port, disk, pair, mishaps>>

\* A challenge that was decided already stays decided.
TellReady(c) ==
  Post(c, "ready", "poll", order[c],
       [authz[c] EXCEPT ![turn[c]] = IF @ = "pending" THEN "processing" ELSE @])

\* Variant: The loop asks on for ever.
PollForever(c) == UNCHANGED <<at, polls, tokens, port>>

\* One more question of the loop was for nothing; the last one ends it.
PollAgain(c) ==
  IF polls[c] + 1 < MaxPolls
    THEN polls' = [polls EXCEPT ![c] = @ + 1] /\ UNCHANGED <<at, tokens, port>>
    ELSE Errs(c) /\ UNCHANGED polls

\* Variant: Running out of questions is taken for success.
PollGivesIn(c, from, to, status) ==
  /\ at[c] = from
  /\ \E a \in Answers(c) :
       /\ Hears(c, a)
       /\ IF polls[c] + 1 < MaxPolls /\ status # "valid"
            THEN polls' = [polls EXCEPT ![c] = @ + 1] /\ UNCHANGED at
            ELSE polls' = [polls EXCEPT ![c] = 0] /\ Goes(c, to)
  /\ UNCHANGED <<turn, deaf, tokens, port, caVars, disk, pair>>

\* A status loop.  The answer's HTTP status is not looked at: a problem
\* document is one more answer that is neither valid nor invalid.
Poll(c, from, to, status) ==
  /\ at[c] = from
  /\ \E a \in Answers(c) :
       /\ Hears(c, a)
       /\ CASE a.good /\ status = "valid" ->
                 Goes(c, to) /\ polls' = [polls EXCEPT ![c] = 0] /\ UNCHANGED <<tokens, port>>
            [] a.good /\ status = "invalid" -> Errs(c) /\ UNCHANGED polls
            [] OTHER -> PollAgain(c)
  /\ UNCHANGED <<turn, deaf, caVars, disk, pair>>

poll_until_valid(c) == Poll(c, "poll", "cleanup", authz[c][turn[c]])

\* cleanup, and on to the next authorization.
Cleanup(c) ==
  /\ at[c] = "cleanup"
  /\ tokens' = [tokens EXCEPT ![c] = @ \ {turn[c]}]
  /\ IF turn[c] < Names
       THEN Goes(c, "authz") /\ turn' = [turn EXCEPT ![c] = @ + 1]
       ELSE Goes(c, "finalize") /\ UNCHANGED turn
  /\ UNCHANGED <<polls, deaf, nonce, withheld, caVars, port, disk, pair, mishaps>>

\* make_csr and the finalize request; the key stays with the command.
Finalize(c) == Post(c, "finalize", "pollOrder", "processing", authz[c])

poll_for_certificate(c) == Poll(c, "pollOrder", "download", order[c])

Download(c) == Post(c, "download", "cert", order[c], authz[c])

(* --------------------------- the pair of files -------------------------- *)

\* The pair is in two halves once the certificate file was opened.
Between == {"fillCert", "key", "fillKey"}

Beside(c) == {d \in Commands \ {c} : at[d] \in Between}

\* Whoever was writing alone is done, or has stopped.
Leaves(c) == alone' = IF alone = c THEN NoCommand ELSE alone

OpenCert(c) ==
  /\ Opens(c, "cert", "cert", "fillCert")
  /\ cut' = (cut \/ \E d \in Beside(c) : {c, d} \cap deaf # {})
  /\ alone' = IF Beside(c) = {} THEN c ELSE NoCommand

FillCert(c) ==
  /\ at[c] = "fillCert" /\ Goes(c, "key")
  /\ disk' = [disk EXCEPT !.cert = c]
  /\ UNCHANGED <<runVars, nonce, withheld, caVars, tokens, port, pair, mishaps>>

OpenKey(c) == Opens(c, "key", "key", "fillKey") /\ UNCHANGED pair

\* The last write; the command reports success and the responder goes.
FillKey(c) ==
  /\ at[c] = "fillKey" /\ Goes(c, "done") /\ Closes(c)
  /\ disk' = [disk EXCEPT !.key = c]
  /\ cut' = (cut /\ alone # c) /\ Leaves(c)
  /\ UNCHANGED <<runVars, nonce, withheld, caVars, mishaps>>

(* ------------------------------ what goes wrong ------------------------- *)

Stops(c, how) ==
  /\ Goes(c, how) /\ Closes(c)
  /\ cut' = (cut \/ at[c] \in Between) /\ Leaves(c)
  /\ UNCHANGED <<runVars, nonce, withheld, caVars, disk>>

\* A write fails, before or after it emptied the file.
WriteFails(c) ==
  /\ at[c] \in {"mintAccount", "fillAccount"} \cup Writing
  /\ Mishap /\ Stops(c, "failed")

\* The connection to the CA breaks: obtain returns the error at once.
Lost(c) == at[c] \in Requests /\ Mishap /\ Stops(c, "failed")

Killed(c) == Live(c) /\ at[c] # "new" /\ Mishap /\ Stops(c, "killed")

(* ---------------------------------- the CA ------------------------------ *)

\* The responder on the port answers for the tokens it was given, and only
\* for those.
answer(c, i) == port = c /\ i \in tokens[c]

\* The CA fetches the token of a challenge it was told is ready.
Validates(c, i) ==
  /\ authz[c][i] = "processing"
  /\ \/ authz' = [authz EXCEPT ![c][i] = IF answer(c, i) THEN "valid" ELSE "invalid"]
        /\ UNCHANGED mishaps
     \/ authz' = [authz EXCEPT ![c][i] = "invalid"] /\ Mishap
  /\ UNCHANGED <<at, runVars, nonce, withheld, order, tokens, port, disk, pair>>

Issues(c) ==
  /\ order[c] = "processing"
  /\ \/ order' = [order EXCEPT ![c] = "valid"] /\ UNCHANGED mishaps
     \/ order' = [order EXCEPT ![c] = "invalid"] /\ Mishap
  /\ UNCHANGED <<at, runVars, nonce, withheld, authz, tokens, port, disk, pair>>

(* ------------------------------ the next step --------------------------- *)

Works(c) ==
  \/ LookForAccount(c) \/ ReadAccount(c) \/ OpenAccount(c) \/ FillAccount(c) \/ Bind(c)
  \/ GetDirectory(c) \/ FreshNonce(c) \/ NewAccount(c) \/ NewOrder(c)
  \/ GetAuthorization(c) \/ Present(c) \/ TellReady(c) \/ poll_until_valid(c) \/ Cleanup(c)
  \/ Finalize(c) \/ poll_for_certificate(c) \/ Download(c)
  \/ OpenCert(c) \/ FillCert(c) \/ OpenKey(c) \/ FillKey(c)

Next ==
  \E c \in Commands :
    \/ Works(c) \/ WriteFails(c) \/ Lost(c) \/ Killed(c) \/ AcceptFails(c) \/ Issues(c)
    \/ \E i \in 1..Names : Validates(c, i)

Spec == Init /\ [][Next]_vars

\* A command that can go on does: every wait is for a timer or for an answer,
\* and a request is answered or its connection breaks.
FairSpec == Spec /\ \A c \in Commands : WF_vars(Works(c))

(* ------------------------------- properties ----------------------------- *)

\* "retrievable [...] for as long as validation needs it" (order.rs:49, of
\* Http01Solver), but for the accept error that ends the responder: while a
\* challenge is with the CA its token is presented, and the port is the command's
\* own unless such an error has freed it.  Present, the request, the loop and the
\* cleanup have to keep that order for each authorization of the list, whoever
\* else wants the port.
ServedWhileAsked ==
  \A c \in Commands : Live(c) =>
    \A i \in 1..Names : authz[c][i] = "processing" =>
      i \in tokens[c] /\ (port = c \/ c \in deaf)

\* The order is finalized only when the CA holds every one of its names valid:
\* a loop that ran out, or a problem taken for a verdict, never gets there.
FinalizedWhenValid ==
  \A c \in Commands :
    at[c] \in {"finalize", "pollOrder", "download"} \cup Writing =>
      \A i \in 1..Names : authz[c][i] = "valid"

\* A command holds a nonce it already spent only because the CA left one out
\* of an answer (take_nonce): then its next request is bound to be refused.
NonceSpentOnce ==
  \A c \in Commands : Live(c) /\ nonce[c] = "spent" => withheld[c]

\* The certificate file and the key file belong together, unless a command is
\* between its two writes; or stopped there, or wrote beside another after an
\* accept error had freed the port of one of them, and none has written both by
\* itself since.  With commands running together this hangs on the responder:
\* the port, held until after the second write, is all that keeps a second
\* command out.
PairKept ==
  disk.cert = disk.key \/ cut \/ \E c \in Commands : at[c] \in Between

\* Every command ends: no loop over the CA's answers runs for ever.
EveryRunEnds == \A c \in Commands : <>~Live(c)
=============================================================================
