SPECIFICATION Spec
CONSTANTS
  p1 = p1
  p2 = p2
  Procs = {p1, p2}
  Domains = {dom}
  Others = {acct}
  Server = Server
  Selectors = {s1, s2}
  Values = {v1, v2}
  Default = v1
  None = None
  Down = Down
  MaxCommands = 4
  MaxFailures = 1
SYMMETRY Symmetric
INVARIANTS
  NoUpdateLost
  SignsAsAnnounced
  KeyIsThere
CHECK_DEADLOCK FALSE
