SPECIFICATION Spec
CONSTANTS
  MaxAttempts = 5
  Races <- AllRaces
  MaxMessages = 3
INVARIANT SessionOwnsPty
INVARIANT TimerIsCurrent
INVARIANT CommandFindsSession
PROPERTY ImplementsShell
CHECK_DEADLOCK FALSE
