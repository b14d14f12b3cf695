SPECIFICATION Spec
CONSTANTS
  NoMsg = NoMsg
  GiveUp = GiveUp
  m1 = m1
  m2 = m2
  m3 = m3
  m4 = m4
  mailbox = mailbox
  webhook = webhook
  outbound = outbound
  Outbound = outbound
  Msgs = {m1, m2}
  Targets = {mailbox, webhook, outbound}
  Configs <- MCConfigs
  Size <- MCOneByte
  MaxBytes = 0
  WordSize = 8
  FirstDelay = 1
  DelayCap = 1
  Lifetime = 1
  MaxTime = 1
  AcceptUntil = 0
  MaxSessions = 2
  MaxFaults = 1
  MaxCrashes = 1
SYMMETRY Symmetric
PROPERTY ImplementsQueue
INVARIANTS
  AcceptedIsKept
  RedeliveryBounded
  RefusedIsNotSent
