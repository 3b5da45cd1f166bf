SPECIFICATION Spec
CHECK_DEADLOCK FALSE
CONSTANTS
  MaxQty = 2
  MaxTender = 2
  MaxReverts = 1
  MaxStrays = 1
  MaxFaults = 1
  Requests = {r1, r2}
SYMMETRY AnyRequest
INVARIANT MoneyIsAccounted
INVARIANT NeverGivesBackMore
INVARIANT StockFollowsTheBill
INVARIANT ClosedDayTies
PROPERTY NoHoleInTheBook
