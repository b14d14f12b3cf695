SPECIFICATION NetFairSpec
CONSTANTS
  here = here
  there = there
  x = x
  y = y
  v = v
  w = w
  far = far
  Servers = {here, there, far}
  Boxes = {x, y, v, w}
  Home <- MCHome
  Rule <- MCRule
  Hooked = {far}
  Embedding = {here}
  Offers <- MCOffers
  Sender = Sender
  Nil = Nil
  MaxReceived = 2
  Buffer = 1
  MaxTries = 2
  MaxMishaps = 1
  MaxEntries = 7
INVARIANTS
  NeverLost
  CopiesAccounted
  ChannelLoss
PROPERTIES
  Drains
CHECK_DEADLOCK FALSE
