SPECIFICATION Spec
CONSTANTS
  Managers = {m1, m2}
  Due <- EveryTwoMinutes
  Kinds <- AnyKind
  Overlap = TRUE
  MaxTime = 5
  MaxWaiting = 1
  MaxMishaps = 0
INVARIANT AtMostOnce
CHECK_DEADLOCK FALSE
