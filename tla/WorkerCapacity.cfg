SPECIFICATION Spec
CONSTANTS
  NoMsg = NoMsg
  GiveUp = GiveUp
  m1 = m1
  m2 = m2
  m3 = m3
  m4 = m4
  mailbox = mailbox
  webhook = webhook
  outbound = outbound
  Outbound = outbound
  Msgs = {m1, m2, m3, m4}
  Targets = {mailbox, outbound}
  Configs <- MCOneConfig
  Size <- MCOneByte
  MaxBytes = 1
  WordSize = 16
  FirstDelay = 1
  DelayCap = 1
  Lifetime = 0
  MaxTime = 0
  AcceptUntil = 0
  MaxSessions = 2
  MaxFaults = 0
  MaxCrashes = 1
INVARIANTS
  UsedIsExact
  SoftCap
SYMMETRY Symmetric
