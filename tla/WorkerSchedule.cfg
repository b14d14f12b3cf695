SPECIFICATION FairSpec
CONSTANTS
  NoMsg = NoMsg
  GiveUp = GiveUp
  m1 = m1
  m2 = m2
  m3 = m3
  m4 = m4
  mailbox = mailbox
  webhook = webhook
  outbound = outbound
  Outbound = outbound
  Msgs = {m1, m2}
  Targets = {mailbox, outbound}
  Configs <- MCOneConfig
  Size <- MCOneByte
  MaxBytes = 0
  WordSize = 8
  FirstDelay = 1
  DelayCap = 2
  Lifetime = 2
  MaxTime = 4
  AcceptUntil = 0
  MaxSessions = 2
  MaxFaults = 0
  MaxCrashes = 1
INVARIANTS
  RetriesSpaced
  RetryHorizon
PROPERTY AcceptedLeaves
