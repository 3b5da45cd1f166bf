SPECIFICATION FairSpec
CONSTANTS
  a = a
  b = b
  p1 = p1
  p2 = p2
  NoJob = NoJob
  Jobs = {a}
  Printers = {p1}
  PrinterOf <- OneJobOf
  Priority <- OneTicketOf
  Unreadable <- NoneUnreadable
  Stoppable <- FirstOnly
  MaxAttempts = 2
  MaxRetries = 1
  MaxStarts = 3
  MaxFaults = 1
CHECK_DEADLOCK FALSE
INVARIANT UnfinishedIsHeld
PROPERTY KeepsThePromise
PROPERTY EveryJobSettles
