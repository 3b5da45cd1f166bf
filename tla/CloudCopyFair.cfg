SPECIFICATION CloudFairSpec
CONSTANTS
  a = a
  b = b
  Orders = {a, b}
  Totals = {}
  RowDay <- TwoDays
  CreatedAt <- AllAtOpening
  Foreign = {b}
  Unshaped = {a}
  Refused = {}
  SealAfter = 1
  Batch = 1
  FilesPerWake = 1
  ReadTries = 2
  MaxSaves <- LaterTwice
  MaxTime = 2
  MaxDay = 2
  MaxFailures = 1
  MaxLicences = 2
  MaxLocks = 1
CHECK_DEADLOCK FALSE
INVARIANT RowOwedOrThere
INVARIANT FileOwedOrThere
PROPERTY EveryRowIsDone
PROPERTY EveryFileGoesUp
