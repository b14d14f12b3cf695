SPECIFICATION FairSpec
CONSTANTS
  c1 = c1
  c2 = c2
  NoCommand = NoCommand
  Commands = {c1, c2}
  Names = 2
  MaxPolls = 2
  MaxMishaps = 2
INVARIANTS
  ServedWhileAsked
  FinalizedWhenValid
  NonceSpentOnce
  PairKept
PROPERTIES
  EveryRunEnds
CHECK_DEADLOCK FALSE
