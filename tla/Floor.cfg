SPECIFICATION Spec
CHECK_DEADLOCK FALSE
CONSTANTS
  Tables = {"t1", "t2"}
  Phones = {"p1", "p2"}
  Older = {"p2"}
  Scripts <- TwoWaiters
  MaxQueue = 3
  MaxOrders = 4
  MaxSeats = 1
  MaxFood = 4
  MaxDeeds = 2
  Rooms <- TwoRooms
INVARIANT TypeOK
INVARIANT OnOneBill
INVARIANT AccountsTie
INVARIANT OnItsOwnParty
INVARIANT PartiesApart
