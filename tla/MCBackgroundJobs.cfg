SPECIFICATION BackgroundSpec
CONSTANTS
  Managers = {m1, m2}
  Due <- EveryTwoMinutes
  Kinds <- AnyKind
  Overlap = FALSE
  MaxTime = 5
  MaxWaiting = 2
  MaxMishaps = 2
  MaxLists = 2
  MaxChanges = 2
  MaxStatusMishaps = 1
  MaxCount = 3
  MaxFlips = 3
  MaxServerMishaps = 1
  ServerMishaps <- AnyServerMishap
INVARIANT AtMostOnce
INVARIANT KeyIsAccounted
PROPERTY SlotIsServed
PROPERTY StatusConverges
PROPERTY FlapIsQuiet
PROPERTY OutageIsReported
PROPERTY RecoveryIsReported
CHECK_DEADLOCK FALSE
