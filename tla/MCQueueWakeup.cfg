SPECIFICATION Spec
CONSTANTS
  a = a
  b = b
  s = s
  t = t
  Requests = {r1, r2}
  Workers = {w1, w2}
  Apps = {a, b}
  Servers = {s}
  Home <- HomeOneServer
  Extra <- NoExtra
  Deploys <- DeploysPreview
  Capacity = 1
  Limit = 2
  ConcurrentBuilds <- Builds
  QueueLimit <- Limits
  Lanes = {0, 7}
  Commits = {"HEAD"}
  HeadCommit = "HEAD"
  NoRow = NoRow
  BuildServerApps = {}
  UiCancel = TRUE
  StalePages = FALSE
  ApiCancel = FALSE
  PreviewCleanup = FALSE
  AdminCleanup = FALSE
  ForceStart = FALSE
  MayBreak = {}
  Mishaps = {"restart"}
  MaxDeployments = 2
  MaxCopies = 0
  MaxFaults = 1
INVARIANT QueuedNotDispatched
INVARIANT NoLostWakeup
SYMMETRY Interchangeable
CHECK_DEADLOCK FALSE
