SPECIFICATION Spec
CONSTANTS
  MaxBill = 1
  Days = {1}
  DayOf <- OneDay
  Window = 2
  Senders = {"thread"}
  Sweeper = "thread"
  Prefixes = {"", "A"}
  NoPrefix = ""
  Starting <- NoneYet
  Shops <- OneOrder
  MaxVersion = 4
  MaxLost = 1
  MaxDeeds = 1
PROPERTY LeavesWhenApplied
