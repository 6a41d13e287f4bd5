SPECIFICATION FairSpec
CONSTANTS
  MaxAttempts = 2
  Races <- CloseRace
  MaxMessages = 2
PROPERTY PtyEnds
CHECK_DEADLOCK FALSE
