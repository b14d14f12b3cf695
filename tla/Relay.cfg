SPECIFICATION Spec
CONSTANTS
  a = a
  b = b
  Null = Null
  Domain = Domain
  None = None
  NDest = 3
  MaxRounds = 3
  Answers <- SmallAnswers
INVARIANTS
  DeliveredIsTrue
  OneCopyPerRound
  BestHostFirst
CHECK_DEADLOCK FALSE
