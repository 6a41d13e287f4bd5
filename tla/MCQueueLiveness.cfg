SPECIFICATION BothSpec
CONSTANTS
  a = a
  b = b
  s = s
  t = t
  Requests = {r1}
  Workers = {w1}
  Apps = {a, b}
  Servers = {s}
  Home <- HomeOneServer
  Extra <- NoExtra
  Deploys <- DeploysTwoApps
  Capacity = 1
  Limit = 1
  ConcurrentBuilds <- Builds
  QueueLimit <- Limits
  Lanes = {0, 7}
  Commits = {"HEAD"}
  HeadCommit = "HEAD"
  NoRow = NoRow
  BuildServerApps = {}
  UiCancel = TRUE
  StalePages = FALSE
  ApiCancel = FALSE
  PreviewCleanup = FALSE
  AdminCleanup = FALSE
  ForceStart = FALSE
  MayBreak = {}
  Mishaps = {}
  MaxDeployments = 3
  MaxCopies = 0
  MaxFaults = 0
  Databases = 2
  Amount <- OneLocallyTwoInS3
  OtherLimits = TRUE
  MaxJobs = 1
  MaxRows = 2
  MaxBackupMishaps = 2
INVARIANT QueueLimitRespected
INVARIANT NewestIsKept
PROPERTY QueuedIsServed
PROPERTY InProgressEnds
PROPERTY BackupEnds
CHECK_DEADLOCK FALSE
