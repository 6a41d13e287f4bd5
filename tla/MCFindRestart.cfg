SPECIFICATION Spec
CONSTANTS
  a = a
  b = b
  s = s
  t = t
  Requests = {r1}
  Workers = {w1}
  Apps = {a, b}
  Servers = {s}
  Home <- HomeOneServer
  Extra <- NoExtra
  Deploys <- DeploysTwoApps
  Capacity = 1
  Limit = 2
  ConcurrentBuilds <- Builds
  QueueLimit <- Limits
  Lanes = {0, 7}
  Commits = {"HEAD"}
  HeadCommit = "HEAD"
  NoRow = NoRow
  BuildServerApps = {}
  UiCancel = FALSE
  StalePages = FALSE
  ApiCancel = FALSE
  PreviewCleanup = FALSE
  AdminCleanup = FALSE
  ForceStart = FALSE
  MayBreak = {}
  Mishaps = {"restart"}
  MaxDeployments = 1
  MaxCopies = 0
  MaxFaults = 1
PROPERTY TerminalStatesAbsorb
CHECK_DEADLOCK FALSE
