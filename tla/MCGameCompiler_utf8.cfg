CONSTANTS
  i0 = i0
  i1 = i1
  i2 = i2
  i3 = i3
  BUCKETS = 2
  SLOTS = 3
  MaxOffset = 4
  MaxMapCount = 2
  MaxGames = 4
  COMMON_ACTIONS <- MCCommon
  Games <- GamesUtf8
  FP <- FPPass

SPECIFICATION Spec

INVARIANT ReaderFindsFirstRegistrant


\* The compiler is a batch program: it stops after emitting or failing.
CHECK_DEADLOCK FALSE
