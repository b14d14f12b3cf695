SPECIFICATION Spec
CONSTANTS
  NoMsg = NoMsg
  GiveUp = GiveUp
  m1 = m1
  m2 = m2
  mailbox = mailbox
  webhook = webhook
  outbound = outbound
  Outbound = outbound
  Msgs = {m1}
  Targets = {mailbox, outbound}
  Configs <- MCOneConfig
  Size <- MCOneByte
  MaxBytes = 0
  WordSize = 4
  FirstDelay = 1
  DelayCap = 1
  Lifetime = 1
  MaxTime = 1
  AcceptUntil = 0
  MaxSessions = 2
  MaxFaults = 0
  MaxCrashes = 1
INVARIANT CrashLosesNothing
