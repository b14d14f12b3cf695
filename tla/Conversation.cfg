SPECIFICATION FairSpecD
CONSTANTS
  NRcpt = 2
  None = None
  Drafts <- MCDrafts
  Raws <- MCRaws
INVARIANTS
  NothingInClear
  LetterArrives
PROPERTIES
  ImplementsAttempt
  Ends
CHECK_DEADLOCK FALSE
