SPECIFICATION InSpec
CONSTANTS
  ann = ann
  dan = dan
  ali = ali
  far = far
  ours = ours
  old = old
  away = away
  None = None
  Recipients = {ann, dan, ali, far}
  Domains = {ours, old, away}
  DomainOf <- MCDomainOf
  Hosted = {ours, old}
  Accounts <- MCAccounts
  Forwards = {ali}
  Deliverable <- MCDeliverable
  Webhook = TRUE
  Enforce = TRUE
  Right = Right
  Wrong = Wrong
  HasTls = TRUE
  HasAuth = TRUE
  HasDoor = TRUE
  MaxRcpt = 2
  MaxMails = 2
  MaxWire = 2
INVARIANTS
  RelayNeedsLogin
  OneChannel
  OneEnvelope
  QueuedAsGranted
PROPERTIES
  CleanUpgrade
CHECK_DEADLOCK FALSE
