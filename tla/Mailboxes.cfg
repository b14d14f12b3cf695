SPECIFICATION Spec
CONSTANTS
  m1 = m1
  m2 = m2
  alice = alice
  bob = bob
  odd = odd
  NoMsg = NoMsg
  Msgs = {m1, m2}
  Boxes = {alice, bob, odd}
  Safe = {alice, bob}
  Envelopes <- MCEnvelopes
  Size <- MCSize
  Quotas = {0, 2}
  MaxTries = 2
  MaxMishaps = 1
INVARIANTS
  ReaderSeesWhole
  StoredMeansAll
  CopiesInOrder
  QuotaHolds
CHECK_DEADLOCK FALSE
