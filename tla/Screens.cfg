SPECIFICATION ScreensSpec
CONSTANTS
  Null = Null
  Here = Here
  MaxMoves = 3
INVARIANTS
  OfferedIsPermitted
  OwnWriteShows
  RevokedIsGone
CHECK_DEADLOCK FALSE
