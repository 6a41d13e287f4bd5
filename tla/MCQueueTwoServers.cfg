SPECIFICATION Spec
CONSTANTS
  a = a
  b = b
  s = s
  t = t
  Requests = {r1}
  Workers = {w1}
  Apps = {a, b}
  Servers = {s, t}
  Home <- HomeTwoServers
  Extra <- ExtraForA
  Deploys <- DeploysAll
  Capacity = 1
  Limit = 2
  ConcurrentBuilds <- Builds
  QueueLimit <- Limits
  Lanes = {0, 7}
  Commits = {"HEAD"}
  HeadCommit = "HEAD"
  NoRow = NoRow
  BuildServerApps = {b}
  UiCancel = TRUE
  StalePages = TRUE
  ApiCancel = TRUE
  PreviewCleanup = TRUE
  AdminCleanup = TRUE
  ForceStart = TRUE
  MayBreak = {a}
  Mishaps = {"effects", "timeout", "death", "restart"}
  MaxDeployments = 2
  MaxCopies = 1
  MaxFaults = 1
INVARIANT Inv
INVARIANT InProgressDriven
CHECK_DEADLOCK FALSE
