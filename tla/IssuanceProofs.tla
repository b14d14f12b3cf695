---------------------------- MODULE IssuanceProofs ----------------------------
(***************************************************************************)
(* Theorems of module Issuance, for any number of commands, names, polls   *)
(* and mishaps.  Everything hangs on the port: a command holds it from its *)
(* bind to its end or to an accept error, so that of two commands that     *)
(* talk to the CA and write the pair one is deaf.                          *)
(***************************************************************************)
EXTENDS Issuance, TLAPS

Opening == {"new", "readAccount", "mintAccount", "fillAccount", "bind",
            "directory", "nonce", "account", "order"}

Final == {"finalize", "pollOrder", "download"} \cup Writing

Ordered == {"authz", "present", "ready", "poll", "cleanup"} \cup Final

Holding == {"directory", "nonce", "account", "order"} \cup Ordered

\* What a command has got from the CA by the time it is at `point`, at the
\* t-th authorization, with these verdicts and these tokens shown.
Stands(point, t, verdicts, shown) ==
  /\ point \in Opening => t = 1
  /\ point \notin Ended =>
       \A i \in 1..Names : verdicts[i] = "processing" => point = "poll" /\ i = t
  /\ point \in {"ready", "poll"} => t \in shown
  /\ point \in Ordered => \A i \in 1..(t - 1) : verdicts[i] = "valid"
  /\ point \in {"cleanup"} \cup Final => verdicts[t] = "valid"
  /\ point \in Final => t = Names

Good(c) ==
  /\ at[c] \in Holding => port = c \/ c \in deaf
  /\ Stands(at[c], turn[c], authz[c], tokens[c])
  /\ nonce[c] = "spent" => withheld[c]
  /\ at[c] \in Between => alone = c \/ cut
  /\ at[c] \in {"key", "fillKey"} /\ alone = c => disk.cert = c

AllGood == \A c \in Commands : Good(c)

\* Who writes alone is writing, and nobody else is.
Aloneness ==
  alone # NoCommand =>
    at[alone] \in Between /\ \A d \in Commands : at[d] \in Between => d = alone

IssInv == TypeOK /\ AllGood /\ Aloneness /\ PairKept

LEMMA InitIssuance == Init => IssInv
  <1> SUFFICES ASSUME Init PROVE IssInv
    OBVIOUS
  <1> USE IssuanceAssumption DEF Init
  <1>1. TypeOK
    <2>1. disk \in [account : {NoFile, Emptied, "whole"}, cert : Commands \cup {NoFile, Emptied},
                    key : Commands \cup {NoFile, Emptied}]
      OBVIOUS
    <2>2. /\ at \in [Commands -> Requests \cup Local \cup Writing \cup Ended]
          /\ turn \in [Commands -> 1..Names] /\ polls \in [Commands -> 0..MaxPolls]
          /\ authz \in [Commands -> [1..Names -> {"pending", "processing", "valid", "invalid"}]]
      BY DEF Local
    <2>3. withheld \in [Commands -> BOOLEAN] /\ cut \in BOOLEAN /\ deaf \subseteq Commands
          /\ alone \in Commands \cup {NoCommand}
      BY Zenon
    <2>4. /\ nonce \in [Commands -> {"none", "fresh", "spent"}]
          /\ order \in [Commands -> {"none", "pending", "processing", "valid", "invalid"}]
          /\ tokens \in [Commands -> SUBSET (1..Names)]
          /\ port \in Commands \cup {NoCommand} /\ mishaps \in 0..MaxMishaps
      OBVIOUS
    <2> QED
      BY <2>1, <2>2, <2>3, <2>4, Zenon DEF TypeOK
  <1>2. AllGood
    BY DEF AllGood, Good, Stands, Ended, Holding, Ordered, Final, Writing, Opening, Between
  <1>3. Aloneness /\ PairKept
    BY DEF Aloneness, PairKept, NoFile
  <1> QED
    BY <1>1, <1>2, <1>3 DEF IssInv

\* A step of one command leaves the others what they have.
LEMMA OthersKeep ==
  ASSUME NEW d \in Commands, Good(d),
         at'[d] = at[d], turn'[d] = turn[d], authz'[d] = authz[d], tokens'[d] = tokens[d],
         nonce'[d] = nonce[d], withheld'[d] = withheld[d],
         port = d => port' = d, deaf \subseteq deaf',
         at[d] \in Between => (cut => cut') /\ (alone = d => alone' = d \/ cut'),
         alone' = d => alone = d /\ disk'.cert = disk.cert
  PROVE  Good(d)'
  BY DEF Good

LEMMA NoCommandIsNone == \A d \in Commands : d # NoCommand
  BY IssuanceAssumption

\* A step that is neither one of the pair's nor an end.
LEMMA PairStays ==
  ASSUME IssInv, disk'.cert = disk.cert, disk'.key = disk.key, UNCHANGED pair,
         \A c \in Commands : at[c] \in Between <=> at'[c] \in Between
  PROVE  Aloneness' /\ PairKept'
  <1>1. alone # NoCommand => alone \in Commands
    BY DEF IssInv, TypeOK
  <1> QED
    BY <1>1 DEF IssInv, PairKept, Aloneness, pair

------------------------------------------------------------------------------
\* One step of a command that holds what it held: only `at` moves.
LEMMA AccountFileKeeps ==
  ASSUME IssInv, NEW c \in Commands,
         LookForAccount(c) \/ ReadAccount(c) \/ OpenAccount(c) \/ FillAccount(c)
  PROVE  IssInv'
  <1> USE IssuanceAssumption
      DEF LookForAccount, ReadAccount, OpenAccount, FillAccount, Opens, Goes, runVars, caVars, pair
  <1>1. /\ UNCHANGED <<pair, deaf>>
        /\ at \in [Commands -> Requests \cup Local \cup Writing \cup Ended]
        /\ at[c] \in {"new", "readAccount", "mintAccount", "fillAccount"}
        /\ at' = [at EXCEPT ![c] = at'[c]]
        /\ at'[c] \in {"readAccount", "mintAccount", "fillAccount", "bind", "failed"}
        /\ disk'.cert = disk.cert /\ disk'.key = disk.key
        /\ disk' \in [account : {NoFile, Emptied, "whole"},
                      cert : Commands \cup {NoFile, Emptied},
                      key : Commands \cup {NoFile, Emptied}]
    BY DEF IssInv, TypeOK
  <1>2. TypeOK'
    <2>1. at' \in [Commands -> Requests \cup Local \cup Writing \cup Ended]
      BY <1>1 DEF Local, Ended
    <2> QED
      BY <1>1, <2>1 DEF IssInv, TypeOK
  <1>3. ASSUME NEW d \in Commands PROVE Good(d)'
    <2>1. CASE d = c
      BY <1>1, <2>1 DEF IssInv, AllGood, Good, Stands, Opening, Holding, Ordered, Final,
         Writing, Ended, Between
    <2>2. CASE d # c
      BY <1>1, <2>2, OthersKeep DEF IssInv, AllGood
    <2> QED
      BY <2>1, <2>2
  <1>4. Aloneness' /\ PairKept'
    BY <1>1, PairStays DEF IssInv, TypeOK, Between
  <1> QED
    BY <1>2, <1>3, <1>4 DEF IssInv, AllGood

\* A request that must succeed: on to the next point, or the command is over.
LEMMA PostKeeps ==
  ASSUME IssInv, NEW c \in Commands, NEW from, NEW to, NEW opened, NEW asked,
         Post(c, from, to, opened, asked),
         from \in Holding, from \notin Between, from \notin Ended,
         to \in Holding, to \notin Between,
         to \in Requests \cup Local \cup Writing,
         opened \in {"none", "pending", "processing", "valid", "invalid"},
         asked \in [1..Names -> {"pending", "processing", "valid", "invalid"}],
         Stands(to, turn[c], asked, tokens[c])
  PROVE  IssInv'
  <1> USE IssuanceAssumption DEF Goes, runVars, caVars, pair, Closes, Errs, Hears, take_nonce
  <1>1. PICK a \in Answers(c) :
           /\ Hears(c, a)
           /\ IF a.good
                THEN /\ Goes(c, to)
                     /\ order' = [order EXCEPT ![c] = opened]
                     /\ authz' = [authz EXCEPT ![c] = asked]
                     /\ UNCHANGED <<tokens, port>>
                ELSE Errs(c) /\ UNCHANGED caVars
    BY DEF Post
  <1>2. at[c] = from /\ UNCHANGED <<turn, polls, deaf, disk, pair>>
    BY DEF Post
  <1>3. mishaps' \in 0..MaxMishaps
    BY <1>1 DEF Answers, Cost, IssInv, TypeOK
  <1>4. /\ nonce' \in [Commands -> {"none", "fresh", "spent"}]
        /\ nonce'[c] = "spent" => withheld'[c]
        /\ \A d \in Commands \ {c} : nonce'[d] = nonce[d] /\ withheld'[d] = withheld[d]
    BY <1>1 DEF IssInv, TypeOK
  <1>5. withheld' \in [Commands -> BOOLEAN]
    BY <1>1, <1>2, Zenon DEF IssInv, TypeOK
  <1>6. port = c \/ c \in deaf
    BY <1>2 DEF IssInv, AllGood, Good
  <1>7. CASE a.good
    <2>1. TypeOK'
      <3>1. at' \in [Commands -> Requests \cup Local \cup Writing \cup Ended]
        BY <1>1, <1>7 DEF IssInv, TypeOK
      <3>2. authz' \in [Commands -> [1..Names -> {"pending", "processing", "valid", "invalid"}]]
        <4>1. authz \in [Commands -> [1..Names -> {"pending", "processing", "valid", "invalid"}]]
          BY DEF IssInv, TypeOK
        <4> QED
          BY <1>1, <1>7, <4>1, Zenon
      <3>3. order' \in [Commands -> {"none", "pending", "processing", "valid", "invalid"}]
        BY <1>1, <1>7 DEF IssInv, TypeOK
      <3> QED
        BY <1>1, <1>2, <1>3, <1>4, <1>5, <1>7, <3>1, <3>2, <3>3, SMTT(30) DEF IssInv, TypeOK
    <2>2. Good(c)'
      <3>1. /\ at'[c] = to /\ turn'[c] = turn[c] /\ authz'[c] = asked
            /\ tokens'[c] = tokens[c] /\ (port' = c \/ c \in deaf')
        BY <1>1, <1>2, <1>6, <1>7 DEF IssInv, TypeOK
      <3> QED
        BY <1>4, <3>1 DEF Good, Between
    <2>3. ASSUME NEW d \in Commands, d # c PROVE Good(d)'
      BY <1>1, <1>2, <1>4, <1>7, <2>3, OthersKeep DEF IssInv, TypeOK, AllGood
    <2>4. Aloneness' /\ PairKept'
      <3>1. \A d \in Commands : at[d] \in Between <=> at'[d] \in Between
        BY <1>1, <1>2, <1>7, SMTT(30) DEF IssInv, TypeOK, Between
      <3> QED
        BY <1>2, <3>1, PairStays DEF IssInv
    <2> QED
      BY <2>1, <2>2, <2>3, <2>4 DEF IssInv, AllGood
  <1>8. CASE ~ a.good
    <2>1. TypeOK'
      <3>1. at' \in [Commands -> Requests \cup Local \cup Writing \cup Ended]
        BY <1>1, <1>8 DEF IssInv, TypeOK, Ended
      <3>2. tokens' \in [Commands -> SUBSET (1..Names)] /\ port' \in Commands \cup {NoCommand}
        BY <1>1, <1>8 DEF IssInv, TypeOK
      <3> QED
        BY <1>1, <1>2, <1>3, <1>4, <1>5, <1>8, <3>1, <3>2, SMTT(30) DEF IssInv, TypeOK
    <2>2. Good(c)'
      <3>1. at'[c] = "failed"
        BY <1>1, <1>8 DEF IssInv, TypeOK
      <3> QED
        BY <1>4, <3>1 DEF Good, Stands, Holding, Ordered, Final, Writing, Opening, Ended, Between
    <2>3. ASSUME NEW d \in Commands, d # c PROVE Good(d)'
      BY <1>1, <1>2, <1>4, <1>6, <1>8, <2>3, OthersKeep DEF IssInv, TypeOK, AllGood
    <2>4. Aloneness' /\ PairKept'
      <3>1. \A d \in Commands : at[d] \in Between <=> at'[d] \in Between
        BY <1>1, <1>2, <1>8 DEF IssInv, TypeOK, Between
      <3> QED
        BY <1>2, <3>1, PairStays DEF IssInv
    <2> QED
      BY <2>1, <2>2, <2>3, <2>4 DEF IssInv, AllGood
  <1> QED
    BY <1>7, <1>8

\* The six requests of obtain that must succeed.
LEMMA RequestsKeep ==
  ASSUME IssInv, NEW c \in Commands,
         NewAccount(c) \/ NewOrder(c) \/ GetAuthorization(c) \/ TellReady(c) \/ Finalize(c)
           \/ Download(c)
  PROVE  IssInv'
  <1> USE IssuanceAssumption
  <1>1. /\ Stands(at[c], turn[c], authz[c], tokens[c]) /\ turn[c] \in 1..Names
        /\ authz[c] \in [1..Names -> {"pending", "processing", "valid", "invalid"}]
        /\ order[c] \in {"none", "pending", "processing", "valid", "invalid"}
    BY DEF IssInv, AllGood, Good, TypeOK
  <1> USE DEF Requests, Local, Writing, Holding, Ordered, Final, Between, Ended, Opening
  <1>2. CASE NewAccount(c)
    <2>1. at[c] = "account"
      BY <1>2 DEF NewAccount, Post
    <2>2. Stands("order", turn[c], authz[c], tokens[c])
      BY <1>1, <2>1 DEF Stands
    <2> QED
      BY <1>1, <1>2, <2>2, PostKeeps DEF NewAccount
  <1>3. CASE NewOrder(c)
    <2>1. PICK held \in SUBSET (1..Names) :
             Post(c, "order", "authz", "pending",
                  [n \in 1..Names |-> IF n \in held THEN "valid" ELSE "pending"])
      BY <1>3 DEF NewOrder
    <2> DEFINE asked == [n \in 1..Names |-> IF n \in held THEN "valid" ELSE "pending"]
    <2>2. at[c] = "order"
      BY <2>1 DEF Post
    <2>3. asked \in [1..Names -> {"pending", "processing", "valid", "invalid"}]
          /\ Stands("authz", turn[c], asked, tokens[c])
      BY <1>1, <2>2 DEF Stands
    <2> HIDE DEF asked
    <2> QED
      BY <2>1, <2>3, PostKeeps DEF asked
  <1>4. CASE GetAuthorization(c)
    <2>1. at[c] = "authz"
      BY <1>4 DEF GetAuthorization, Post
    <2>2. Stands("present", turn[c], authz[c], tokens[c])
      BY <1>1, <2>1 DEF Stands
    <2> QED
      BY <1>1, <1>4, <2>2, PostKeeps DEF GetAuthorization
  <1>5. CASE TellReady(c)
    <2> DEFINE asked == [authz[c] EXCEPT ![turn[c]] = IF @ = "pending" THEN "processing" ELSE @]
    <2>1. at[c] = "ready" /\ Post(c, "ready", "poll", order[c], asked)
      BY <1>5 DEF TellReady, Post
    <2>2. asked \in [1..Names -> {"pending", "processing", "valid", "invalid"}]
          /\ Stands("poll", turn[c], asked, tokens[c])
      BY <1>1, <2>1 DEF Stands
    <2> HIDE DEF asked
    <2> QED
      BY <1>1, <2>1, <2>2, PostKeeps
  <1>6. CASE Finalize(c)
    <2>1. at[c] = "finalize"
      BY <1>6 DEF Finalize, Post
    <2>2. Stands("pollOrder", turn[c], authz[c], tokens[c])
      BY <1>1, <2>1 DEF Stands
    <2> QED
      BY <1>1, <1>6, <2>2, PostKeeps DEF Finalize
  <1>7. CASE Download(c)
    <2>1. at[c] = "download"
      BY <1>7 DEF Download, Post
    <2>2. Stands("cert", turn[c], authz[c], tokens[c])
      BY <1>1, <2>1 DEF Stands
    <2> QED
      BY <1>1, <1>7, <2>2, PostKeeps DEF Download
  <1> QED
    BY <1>2, <1>3, <1>4, <1>5, <1>6, <1>7

\* One question of a status loop, and its answer.
LEMMA PollKeeps ==
  ASSUME IssInv, NEW c \in Commands, NEW from, NEW to, NEW status,
         Poll(c, from, to, status),
         from \in Holding, from \notin Between, from \notin Ended,
         to \in Holding, to \notin Between,
         to \in Requests \cup Local \cup Writing,
         status = "valid" => Stands(to, turn[c], authz[c], tokens[c])
  PROVE  IssInv'
  <1> USE IssuanceAssumption DEF Goes, caVars, pair, Closes, Errs, take_nonce, PollAgain
  <1>1. PICK a \in Answers(c) :
           /\ Hears(c, a)
           /\ \/ /\ status = "valid" /\ Goes(c, to) /\ polls' = [polls EXCEPT ![c] = 0]
                 /\ UNCHANGED <<tokens, port>>
              \/ Errs(c) /\ UNCHANGED polls
              \/ /\ polls[c] + 1 < MaxPolls /\ polls' = [polls EXCEPT ![c] = @ + 1]
                 /\ UNCHANGED <<at, tokens, port>>
    BY DEF Poll
  <1>2. at[c] = from /\ UNCHANGED <<turn, deaf, authz, order, disk, pair>>
    BY DEF Poll
  <1>3. mishaps' \in 0..MaxMishaps
    BY <1>1 DEF Answers, Cost, IssInv, TypeOK, Hears
  <1>4. /\ nonce' \in [Commands -> {"none", "fresh", "spent"}]
        /\ nonce'[c] = "spent" => withheld'[c]
        /\ \A d \in Commands \ {c} : nonce'[d] = nonce[d] /\ withheld'[d] = withheld[d]
    BY <1>1 DEF IssInv, TypeOK, Hears
  <1>5. withheld' \in [Commands -> BOOLEAN]
    BY <1>1, Zenon DEF IssInv, TypeOK, Hears
  <1>6. port = c \/ c \in deaf
    BY <1>2 DEF IssInv, AllGood, Good
  <1>7. /\ at' \in [Commands -> Requests \cup Local \cup Writing \cup Ended]
        /\ at'[c] \in {from, to, "failed"}
        /\ \A d \in Commands \ {c} : at'[d] = at[d] /\ tokens'[d] = tokens[d]
        /\ tokens' \in [Commands -> SUBSET (1..Names)] /\ port' \in Commands \cup {NoCommand}
    <2>1. CASE Errs(c)
      BY <1>1, <1>2, <2>1 DEF IssInv, TypeOK, Ended
    <2>2. CASE Goes(c, to) /\ UNCHANGED <<tokens, port>>
      BY <1>1, <1>2, <2>2 DEF IssInv, TypeOK
    <2>3. CASE UNCHANGED <<at, tokens, port>>
      BY <1>1, <1>2, <2>3 DEF IssInv, TypeOK
    <2> QED
      BY <1>1, <2>1, <2>2, <2>3
  <1>8. polls' \in [Commands -> 0..MaxPolls]
    <2>1. polls \in [Commands -> 0..MaxPolls] /\ MaxPolls \in Nat
      BY DEF IssInv, TypeOK
    <2>2. PICK n \in 0..MaxPolls : polls' = polls \/ polls' = [polls EXCEPT ![c] = n]
      BY <1>1, <2>1
    <2> QED
      BY <2>1, <2>2
  <1>9. TypeOK'
    BY <1>2, <1>3, <1>4, <1>5, <1>7, <1>8 DEF IssInv, TypeOK
  <1>10. Good(c)'
    <2>1. CASE at'[c] = "failed"
      BY <1>4, <2>1 DEF Good, Stands, Holding, Ordered, Final, Writing, Opening, Ended, Between
    <2>2. CASE status = "valid" /\ Goes(c, to) /\ UNCHANGED <<tokens, port>>
      BY <1>2, <1>4, <1>6, <2>2 DEF Good, IssInv, TypeOK, Between
    <2>3. CASE UNCHANGED <<at, tokens, port>>
      BY <1>2, <1>4, <2>3 DEF Good, IssInv, AllGood
    <2> QED
      BY <1>1, <2>1, <2>2, <2>3 DEF IssInv, TypeOK
  <1>11. ASSUME NEW d \in Commands, d # c PROVE Good(d)'
    BY <1>1, <1>2, <1>4, <1>6, <1>7, <1>11, OthersKeep DEF IssInv, AllGood
  <1>12. Aloneness' /\ PairKept'
    <2>1. \A d \in Commands : at[d] \in Between <=> at'[d] \in Between
      BY <1>2, <1>7 DEF Between
    <2> QED
      BY <1>2, <2>1, PairStays DEF IssInv
  <1> QED
    BY <1>9, <1>10, <1>11, <1>12 DEF IssInv, AllGood

LEMMA LoopsKeep ==
  ASSUME IssInv, NEW c \in Commands, poll_until_valid(c) \/ poll_for_certificate(c)
  PROVE  IssInv'
  <1>1. Stands(at[c], turn[c], authz[c], tokens[c])
    BY DEF IssInv, AllGood, Good
  <1> USE DEF Requests, Local, Writing, Holding, Ordered, Final, Between, Ended, Opening
  <1>2. CASE poll_until_valid(c)
    <2>1. at[c] = "poll"
      BY <1>2 DEF poll_until_valid, Poll
    <2>2. authz[c][turn[c]] = "valid" => Stands("cleanup", turn[c], authz[c], tokens[c])
      BY <1>1, <2>1 DEF Stands
    <2> QED
      BY <1>2, <2>2, PollKeeps DEF poll_until_valid
  <1>3. CASE poll_for_certificate(c)
    <2>1. at[c] = "pollOrder"
      BY <1>3 DEF poll_for_certificate, Poll
    <2>2. Stands("download", turn[c], authz[c], tokens[c])
      BY <1>1, <2>1 DEF Stands
    <2> QED
      BY <1>3, <2>2, PollKeeps DEF poll_for_certificate
  <1> QED
    BY <1>2, <1>3

\* The port, the first nonce, and the tokens.
LEMMA OwnStepsKeep ==
  ASSUME IssInv, NEW c \in Commands,
         Bind(c) \/ GetDirectory(c) \/ FreshNonce(c) \/ Present(c) \/ Cleanup(c)
  PROVE  IssInv'
  <1> USE IssuanceAssumption
      DEF Goes, runVars, caVars, pair, Bind, GetDirectory, FreshNonce, Present, Cleanup
  <1>1. /\ at[c] \in {"bind", "directory", "nonce", "present", "cleanup"}
        /\ at' \in [Commands -> Requests \cup Local \cup Writing \cup Ended]
        /\ \A d \in Commands \ {c} : at'[d] = at[d]
    <2>1. PICK to \in {"directory", "failed", "nonce", "account", "ready", "authz", "finalize"} :
             Goes(c, to)
      BY Zenon
    <2> QED
      BY <2>1 DEF IssInv, TypeOK, Requests, Ended
  <1>2. /\ tokens' \in [Commands -> SUBSET (1..Names)] /\ turn' \in [Commands -> 1..Names]
        /\ \A d \in Commands \ {c} : turn'[d] = turn[d] /\ tokens'[d] = tokens[d]
    <2>1. CASE Present(c)
      BY <2>1 DEF IssInv, TypeOK
    <2>2. CASE Cleanup(c)
      <3>1. /\ tokens \in [Commands -> SUBSET (1..Names)] /\ turn \in [Commands -> 1..Names]
            /\ Names \in Nat
        BY DEF IssInv, TypeOK
      <3>2. PICK n \in 1..Names : turn' = turn \/ turn' = [turn EXCEPT ![c] = n]
        BY <2>2, <3>1
      <3> QED
        BY <2>2, <3>1, <3>2
    <2>3. CASE UNCHANGED <<tokens, turn>>
      BY <2>3 DEF IssInv, TypeOK
    <2> QED
      BY <2>1, <2>2, <2>3
  <1>3. /\ nonce' \in [Commands -> {"none", "fresh", "spent"}] /\ withheld' = withheld
        /\ nonce'[c] = "spent" => nonce[c] = "spent"
        /\ \A d \in Commands \ {c} : nonce'[d] = nonce[d]
    <2>1. CASE FreshNonce(c)
      BY <2>1 DEF IssInv, TypeOK
    <2>2. CASE UNCHANGED <<nonce, withheld>>
      BY <2>2 DEF IssInv, TypeOK
    <2> QED
      BY <2>1, <2>2
  <1>4. /\ UNCHANGED <<polls, deaf, authz, order, disk, pair, mishaps>>
        /\ port' \in Commands \cup {NoCommand}
    BY DEF IssInv, TypeOK
  <1>5. TypeOK'
    BY <1>1, <1>2, <1>3, <1>4 DEF IssInv, TypeOK
  <1>6. /\ Stands(at[c], turn[c], authz[c], tokens[c]) /\ turn[c] \in 1..Names
        /\ at[c] \in Holding => port = c \/ c \in deaf
        /\ nonce[c] = "spent" => withheld[c]
    BY DEF IssInv, AllGood, Good, TypeOK
  <1>7. Good(c)'
    <2> USE <1>3, <1>4, <1>6
        DEF IssInv, TypeOK, Holding, Ordered, Final, Writing, Opening, Ended, Between
    <2>1. CASE Bind(c)
      BY <2>1 DEF Good, Stands
    <2>2. CASE GetDirectory(c) \/ FreshNonce(c)
      BY <2>2 DEF Good, Stands
    <2>3. CASE Present(c)
      BY <2>3 DEF Good, Stands
    <2>4. CASE Cleanup(c)
      <3>1. CASE turn[c] < Names
        <4>1. at'[c] = "authz" /\ turn'[c] = turn[c] + 1 /\ authz'[c] = authz[c]
             /\ (port' = c \/ c \in deaf')
          BY <2>4, <3>1
        <4>2. Stands("authz", turn[c] + 1, authz[c], tokens'[c])
          BY <2>4 DEF Stands
        <4> QED
          BY <4>1, <4>2 DEF Good
      <3>2. CASE turn[c] = Names
        <4>1. at'[c] = "finalize" /\ turn'[c] = turn[c] /\ authz'[c] = authz[c]
             /\ (port' = c \/ c \in deaf')
          BY <2>4, <3>2
        <4>2. Stands("finalize", turn[c], authz[c], tokens'[c])
          BY <2>4, <3>2 DEF Stands
        <4> QED
          BY <4>1, <4>2 DEF Good
      <3> QED
        BY <3>1, <3>2
    <2> QED
      BY <2>1, <2>2, <2>3, <2>4
  <1>8. ASSUME NEW d \in Commands, d # c PROVE Good(d)'
    <2>1. port = d => port' = d
      BY <1>8, NoCommandIsNone
    <2> QED
      BY <1>1, <1>2, <1>3, <1>4, <1>8, <2>1, OthersKeep DEF IssInv, AllGood
  <1>9. Aloneness' /\ PairKept'
    <2>1. \A d \in Commands : at[d] \in Between <=> at'[d] \in Between
      BY <1>1 DEF Between
    <2> QED
      BY <1>4, <2>1, PairStays DEF IssInv
  <1> QED
    BY <1>5, <1>7, <1>8, <1>9 DEF IssInv, AllGood

\* The certificate and its key are written by whoever holds the port.
LEMMA PairFilesKeep ==
  ASSUME IssInv, NEW c \in Commands,
         OpenCert(c) \/ FillCert(c) \/ OpenKey(c) \/ FillKey(c)
  PROVE  IssInv'
  <1> USE IssuanceAssumption
      DEF Goes, runVars, caVars, pair, Opens, OpenCert, FillCert, OpenKey, FillKey, Closes, Leaves
  <1>1. /\ at[c] \in Writing /\ at'[c] \in {"fillCert", "key", "fillKey", "done"}
        /\ at' \in [Commands -> Requests \cup Local \cup Writing \cup Ended]
        /\ \A d \in Commands \ {c} : at'[d] = at[d] /\ tokens'[d] = tokens[d]
    <2>1. at \in [Commands -> Requests \cup Local \cup Writing \cup Ended]
          /\ tokens \in [Commands -> SUBSET (1..Names)]
      BY DEF IssInv, TypeOK
    <2> QED
      BY <2>1 DEF Writing, Ended
  <1>2. tokens' \in [Commands -> SUBSET (1..Names)] /\ port' \in Commands \cup {NoCommand}
    BY DEF IssInv, TypeOK
  <1>3. /\ disk' \in [account : {NoFile, Emptied, "whole"}, cert : Commands \cup {NoFile, Emptied},
                      key : Commands \cup {NoFile, Emptied}]
    <2>1. disk \in [account : {NoFile, Emptied, "whole"}, cert : Commands \cup {NoFile, Emptied},
                    key : Commands \cup {NoFile, Emptied}]
      BY DEF IssInv, TypeOK
    <2>2. CASE disk' = [disk EXCEPT !["cert"] = Emptied] \/ disk' = [disk EXCEPT !.cert = c]
      BY <2>1, <2>2
    <2>3. CASE disk' = [disk EXCEPT !["key"] = Emptied] \/ disk' = [disk EXCEPT !.key = c]
      BY <2>1, <2>3
    <2> QED
      BY Zenon, <2>2, <2>3
  <1>4. UNCHANGED <<turn, polls, deaf, nonce, withheld, authz, order, mishaps>>
    OBVIOUS
  <1>5. cut' \in BOOLEAN
    BY Zenon DEF IssInv, TypeOK
  <1>6. alone' \in Commands \cup {NoCommand}
    BY DEF IssInv, TypeOK
  <1>7. TypeOK'
    BY <1>1, <1>2, <1>3, <1>4, <1>5, <1>6 DEF IssInv, TypeOK
  <1>8. /\ port = c \/ c \in deaf
        /\ Stands(at[c], turn[c], authz[c], tokens[c])
        /\ nonce[c] = "spent" => withheld[c]
        /\ at[c] \in Between => alone = c \/ cut
        /\ at[c] \in {"key", "fillKey"} /\ alone = c => disk.cert = c
    BY <1>1 DEF IssInv, AllGood, Good, Holding, Ordered, Final
  \* Of two that write together one is deaf.
  <1>9. \A d \in Beside(c) : {c, d} \cap deaf # {}
    BY <1>8 DEF IssInv, AllGood, Good, Beside, Between, Holding, Ordered, Final, Writing
  <1>10. Good(c)'
    <2>1. at'[c] # "done" => (port' = c \/ c \in deaf') /\ tokens'[c] = tokens[c]
      BY <1>4, <1>8 DEF IssInv, TypeOK
    <2>2. at'[c] \in Between => alone' = c \/ cut'
      <3>1. CASE OpenCert(c)
        BY <1>9, <3>1 DEF Beside
      <3>2. CASE ~ OpenCert(c)
        <4>1. FillCert(c) \/ OpenKey(c) => UNCHANGED pair /\ at[c] \in Between
          BY <1>1, <3>2 DEF Between
        <4>2. FillKey(c) => at'[c] \notin Between
          BY <1>1 DEF Between, IssInv, TypeOK
        <4> QED
          BY Zenon, <1>8, <3>2, <4>1, <4>2
      <3> QED
        BY <3>1, <3>2
    <2>3. at'[c] \in {"key", "fillKey"} /\ alone' = c => disk'.cert = c
      BY <1>8 DEF IssInv, TypeOK
    <2> QED
      BY <1>1, <1>4, <1>8, <2>1, <2>2, <2>3
         DEF Good, Stands, Holding, Ordered, Final, Writing, Opening, Ended
  <1>11. ASSUME NEW d \in Commands, d # c PROVE Good(d)'
    <2>1. at[d] \in Between => (cut => cut') /\ (alone = d => alone' = d \/ cut')
      <3>1. CASE OpenCert(c)
        BY <1>9, <1>11, <3>1 DEF Beside
      <3>2. CASE FillKey(c)
        BY <1>11, <3>2, NoCommandIsNone DEF IssInv, Aloneness
      <3> QED
        BY <3>1, <3>2
    <2>2. alone' = d => alone = d /\ disk'.cert = disk.cert
      <3>1. CASE OpenCert(c)
        BY <1>11, <3>1, NoCommandIsNone
      <3>2. CASE FillCert(c)
        BY <1>11, <3>2, NoCommandIsNone DEF IssInv, Aloneness, Between
      <3>3. CASE OpenKey(c) \/ FillKey(c)
        BY <1>11, <3>3, NoCommandIsNone DEF IssInv, TypeOK
      <3> QED
        BY <3>1, <3>2, <3>3
    <2> QED
      BY <1>1, <1>4, <1>11, <2>1, <2>2, OthersKeep DEF IssInv, AllGood
  <1>12. Aloneness'
    <2>1. CASE OpenCert(c)
      BY <1>1, <2>1 DEF Aloneness, Beside, Between
    <2>2. CASE FillCert(c) \/ OpenKey(c)
      BY <1>1, <2>2 DEF IssInv, TypeOK, Aloneness, Between
    <2>3. CASE FillKey(c)
      <3>1. at[c] \in Between /\ at'[c] \notin Between
        BY <2>3 DEF IssInv, TypeOK, Between
      <3> QED
        BY <1>1, <2>3, <3>1 DEF IssInv, TypeOK, Aloneness
    <2> QED
      BY <2>1, <2>2, <2>3
  <1>13. PairKept'
    <2>1. CASE FillKey(c)
      BY <1>8, <2>1 DEF PairKept, Between, IssInv, TypeOK
    <2>2. CASE ~ FillKey(c)
      <3>1. at'[c] \in Between
        BY <2>2 DEF Between, IssInv, TypeOK
      <3> QED
        BY <3>1 DEF PairKept
    <2> QED
      BY <2>1, <2>2
  <1> QED
    BY <1>7, <1>10, <1>11, <1>12, <1>13 DEF IssInv, AllGood

\* A failed write, a lost connection, a kill.
LEMMA StopKeeps ==
  ASSUME IssInv, NEW c \in Commands, WriteFails(c) \/ Lost(c) \/ Killed(c)
  PROVE  IssInv'
  <1> USE IssuanceAssumption DEF Goes, runVars, caVars, pair, Closes, Leaves
  <1>1. PICK how \in {"failed", "killed"} : Stops(c, how) /\ Mishap
    BY DEF WriteFails, Lost, Killed
  <1> USE DEF Stops
  <1>2. /\ at' \in [Commands -> Requests \cup Local \cup Writing \cup Ended] /\ at'[c] = how
        /\ \A d \in Commands \ {c} : at'[d] = at[d] /\ tokens'[d] = tokens[d]
        /\ tokens' \in [Commands -> SUBSET (1..Names)] /\ port' \in Commands \cup {NoCommand}
    BY <1>1 DEF IssInv, TypeOK, Ended
  <1>3. mishaps' \in 0..MaxMishaps
    BY <1>1 DEF Mishap, IssInv, TypeOK
  <1>4. /\ cut' \in BOOLEAN /\ alone' \in Commands \cup {NoCommand}
        /\ UNCHANGED <<turn, polls, deaf, nonce, withheld, authz, order, disk>>
    BY <1>1, Zenon DEF IssInv, TypeOK
  <1>5. TypeOK'
    BY <1>2, <1>3, <1>4 DEF IssInv, TypeOK
  <1>6. Good(c)'
    <2>1. nonce[c] = "spent" => withheld[c]
      BY DEF IssInv, AllGood, Good
    <2> QED
      BY <1>2, <1>4, <2>1 DEF Good, Stands, Holding, Ordered, Final, Writing, Opening, Ended, Between
  <1>7. /\ cut' = (cut \/ at[c] \in Between)
        /\ alone' = IF alone = c THEN NoCommand ELSE alone
        /\ at'[c] \notin Between
    BY <1>1, <1>2 DEF Between
  <1>8. ASSUME NEW d \in Commands, d # c PROVE Good(d)'
    <2>1. port = d => port' = d
      BY <1>1, <1>8
    <2>2. alone' = d => alone = d
      BY <1>7, NoCommandIsNone
    <2> QED
      BY <1>2, <1>4, <1>7, <1>8, <2>1, <2>2, OthersKeep DEF IssInv, AllGood
  <1>9. Aloneness'
    BY <1>2, <1>7 DEF IssInv, TypeOK, Aloneness
  <1>10. PairKept'
    BY <1>2, <1>4, <1>7 DEF IssInv, PairKept
  <1> QED
    BY <1>5, <1>6, <1>8, <1>9, <1>10 DEF IssInv, AllGood

\* The loop of a responder ends; whoever has the port has it no longer, but is
\* deaf.
LEMMA AcceptKeeps ==
  ASSUME IssInv, NEW c \in Commands, AcceptFails(c)
  PROVE  IssInv'
  <1> USE IssuanceAssumption DEF AcceptFails, caVars, pair
  <1>1. mishaps' \in 0..MaxMishaps
    BY DEF Mishap, IssInv, TypeOK
  <1>2. TypeOK'
    BY <1>1 DEF IssInv, TypeOK
  <1>3. ASSUME NEW d \in Commands PROVE Good(d)'
    <2>1. port = d \/ d \in deaf => d \in deaf'
      OBVIOUS
    <2>2. Good(d)
      BY DEF IssInv, AllGood
    <2> QED
      BY <2>1, <2>2 DEF Good
  <1>4. Aloneness' /\ PairKept'
    BY PairStays
  <1> QED
    BY <1>2, <1>3, <1>4 DEF IssInv, AllGood

\* The CA comes to a verdict.
LEMMA CAKeeps ==
  ASSUME IssInv, NEW c \in Commands, Issues(c) \/ \E i \in 1..Names : Validates(c, i)
  PROVE  IssInv'
  <1> USE IssuanceAssumption DEF runVars, pair
  <1>1. mishaps' \in 0..MaxMishaps
    <2>1. mishaps' = mishaps \/ Mishap
      BY Zenon DEF Issues, Validates
    <2> QED
      BY <2>1, SMTT(30) DEF Mishap, IssInv, TypeOK
  <1>2. UNCHANGED <<at, turn, polls, deaf, nonce, withheld, tokens, port, disk, pair>>
    BY DEF Issues, Validates
  <1>3. CASE Issues(c)
    <2>1. order' \in [Commands -> {"none", "pending", "processing", "valid", "invalid"}]
          /\ authz' = authz
      BY <1>3 DEF Issues, IssInv, TypeOK
    <2>2. TypeOK'
      BY <1>1, <1>2, <2>1 DEF IssInv, TypeOK
    <2>3. AllGood' /\ Aloneness' /\ PairKept'
      BY <1>2, <2>1 DEF IssInv, AllGood, Good, Aloneness, PairKept
    <2> QED
      BY <2>2, <2>3 DEF IssInv
  <1>4. ASSUME NEW i \in 1..Names, Validates(c, i)
        PROVE  IssInv'
    <2>1. PICK v \in {"valid", "invalid"} : authz' = [authz EXCEPT ![c][i] = v]
      BY <1>4, Zenon DEF Validates
    <2>2. authz' \in [Commands -> [1..Names -> {"pending", "processing", "valid", "invalid"}]]
      <3>1. authz \in [Commands -> [1..Names -> {"pending", "processing", "valid", "invalid"}]]
        BY DEF IssInv, TypeOK
      <3> QED
        BY <2>1, <3>1
    <2>3. order' = order /\ authz[c][i] = "processing"
      BY <1>4 DEF Validates
    <2>4. TypeOK'
      BY <1>1, <1>2, <2>2, <2>3 DEF IssInv, TypeOK
    <2>5. /\ \A n \in 1..Names : authz'[c][n] = IF n = i THEN v ELSE authz[c][n]
          /\ \A d \in Commands \ {c} : authz'[d] = authz[d]
      BY <2>1 DEF IssInv, TypeOK
    <2>6. Good(c)'
      <3>1. Good(c) /\ turn[c] \in 1..Names
        BY DEF IssInv, AllGood, TypeOK
      <3>2. Stands(at[c], turn[c], authz'[c], tokens[c])
        BY <2>3, <2>5, <3>1 DEF Good, Stands, Ordered, Final, Writing, Ended
      <3> QED
        BY <1>2, <3>1, <3>2 DEF Good
    <2>7. ASSUME NEW d \in Commands, d # c PROVE Good(d)'
      BY <1>2, <2>5, <2>7, OthersKeep DEF IssInv, AllGood
    <2>8. Aloneness' /\ PairKept'
      BY <1>2 DEF IssInv, Aloneness, PairKept
    <2> QED
      BY <2>4, <2>6, <2>7, <2>8 DEF IssInv, AllGood
  <1> QED
    BY <1>3, <1>4

LEMMA StepKeeps == IssInv /\ [Next]_vars => IssInv'
  <1> SUFFICES ASSUME IssInv, [Next]_vars PROVE IssInv'
    OBVIOUS
  <1>1. CASE UNCHANGED vars
    BY <1>1 DEF vars, runVars, caVars, pair, IssInv, TypeOK, AllGood, Good, Aloneness,
       PairKept
  <1>2. CASE Next
    BY <1>2, AccountFileKeeps, RequestsKeep, LoopsKeep, OwnStepsKeep, PairFilesKeep, StopKeeps,
       AcceptKeeps, CAKeeps DEF Next, Works
  <1> QED
    BY <1>1, <1>2

------------------------------------------------------------------------------
\* The invariant of the whole command: order.rs, challenge.rs and cert_cmd.
THEOREM Issuance_Invariant == Spec => []IssInv
  BY InitIssuance, StepKeeps, PTL DEF Spec

\* The state of commands, CA and files has its types.
THEOREM IssuanceTypes == Spec => []TypeOK
  BY Issuance_Invariant, PTL DEF IssInv

\* The token of a challenge that is with the CA is presented, and the port is
\* the command's own while its responder lives (order.rs, challenge.rs).
THEOREM TokenIsServed == Spec => []ServedWhileAsked
  <1>1. IssInv => ServedWhileAsked
    BY DEF IssInv, AllGood, Good, Stands, Live, ServedWhileAsked, Holding, Ordered
  <1> QED
    BY <1>1, Issuance_Invariant, PTL

\* No order is finalized with a name the CA does not hold valid.
THEOREM NoEarlyFinalize == Spec => []FinalizedWhenValid
  <1>1. IssInv => FinalizedWhenValid
    BY IssuanceAssumption
       DEF IssInv, AllGood, Good, Stands, FinalizedWhenValid, Ordered, Final, TypeOK
  <1> QED
    BY <1>1, Issuance_Invariant, PTL

\* A nonce is used twice only when the CA gave none to replace it.
THEOREM NoncesSpentOnce == Spec => []NonceSpentOnce
  <1>1. IssInv => NonceSpentOnce
    BY DEF IssInv, AllGood, Good, NonceSpentOnce
  <1> QED
    BY <1>1, Issuance_Invariant, PTL

\* The certificate on disk is the one of the key on disk, except for a command
\* that is between its two writes or was stopped there, or that wrote beside
\* another after an accept error (challenge.rs) had let it in.
THEOREM PairStaysPair == Spec => []PairKept
  BY Issuance_Invariant, PTL DEF IssInv
==============================================================================
