SPECIFICATION FairSpec
CONSTANTS
  MaxBill = 3
  Days = {1}
  DayOf <- OneDay
  Window = 2
  Senders = {"thread"}
  Sweeper = "thread"
  Prefixes = {"", "A"}
  NoPrefix = ""
  Starting <- NoneYet
  Shops <- ThreeShops
  MaxVersion = 3
  MaxLost = 1
  MaxDeeds = 1
INVARIANT OwedOrInBook
INVARIANT ClosedDayTies
INVARIANT OwnDrawer
PROPERTY BookStands
PROPERTY NoneWaitsForEver
