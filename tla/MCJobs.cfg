SPECIFICATION JobsSpec
CONSTANTS
  a = a
  b = b
  s = s
  t = t
  Requests = {r1}
  Workers = {w1}
  Apps = {a, b}
  Servers = {s, t}
  Home <- HomeTwoServers
  Extra <- NoExtra
  Deploys <- DeploysRacing
  Capacity = 1
  Limit = 1
  ConcurrentBuilds <- OneMoreOnS
  QueueLimit <- Limits
  Lanes = {0, 7}
  Commits = {"HEAD"}
  HeadCommit = "HEAD"
  NoRow = NoRow
  BuildServerApps = {}
  UiCancel = TRUE
  StalePages = FALSE
  ApiCancel = TRUE
  PreviewCleanup = FALSE
  AdminCleanup = FALSE
  ForceStart = TRUE
  MayBreak = {}
  Mishaps = {"restart", "timeout"}
  MaxDeployments = 2
  MaxCopies = 1
  MaxFaults = 1
  MaxUpdates = 2
  Retries = 2
  MaxRollingMishaps = 2
  RollingMishaps <- AnyRollingMishap
  Tries = 2
  MaxJobs = 2
  MaxTaskMishaps = 2
  TaskMishaps <- AnyTaskMishap
INVARIANT LaneExclusive
INVARIANT SingleJob
INVARIANT KeepsServing
INVARIANT FinishedStandsAlone
INVARIANT FailedIsUndone
INVARIANT RowTellsOutcome
INVARIANT RunsOnce
INVARIANT RunningHasWorker
PROPERTY ImplementsLanes
PROPERTY DeploymentEnds
PROPERTY ExecutionEnds
CHECK_DEADLOCK FALSE
