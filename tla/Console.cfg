SPECIFICATION ConSpec
CONSTANTS
  con = con
  cli = cli
  ours = ours
  theirs = theirs
  Procs = {con, cli}
  Con = con
  Domains = {dom}
  Others = {}
  Server = Server
  Selectors = {s1, s2}
  ConSelector = s1
  Values = {v1, v2}
  Default = v1
  Out = v1
  None = None
  Down = Down
  Hosts = {ours, theirs}
  Ours = ours
  Foreign <- MCForeign
  MaxCommands = 2
  MaxFailures = 0
  MaxMishaps = 1
INVARIANTS
  GreenIsTrue
PROPERTIES
  MergeKeeps
  FollowingSorts
CHECK_DEADLOCK FALSE
