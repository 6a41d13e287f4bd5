SPECIFICATION BothSpec
CONSTANTS
  MaxAttempts = 2
  Races <- NoRaces
  MaxMessages = 3
  MaxReconnectAttempts = 3
  Habits <- AnyHabit
  MaxCommands = 2
  MaxLosses = 2
INVARIANT ClosingIsWatched
INVARIANT ReconnectIsPending
INVARIANT ShownIsThere
INVARIANT LatestIsShown
INVARIANT EndedStaysEnded
PROPERTY PtyEnds
PROPERTY VanishedIsRemoved
PROPERTY PageComesBack
PROPERTY PageNoticesDeadLine
CHECK_DEADLOCK FALSE
