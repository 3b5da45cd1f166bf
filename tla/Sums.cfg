SPECIFICATION PapersSpec
CHECK_DEADLOCK FALSE
CONSTANTS
  Lines <- SomeLines
  Offs <- SomeOffs
  Shops <- SomeShops
  Parts = {333, 500, 1000}
  Extras = {0, 20}
  Tips = {20}
  Goods <- SomeGoods
  Carriages <- SomeCarriages
  Moves <- SomeMoves
  Today = 101
  MaxLines = 2
  MaxQty = 2500
  MaxPayments = 2
  MaxBack = 50
  MaxGoods = 3
  MaxMoves = 3
INVARIANT BillTies
INVARIANT PaymentsTie
INVARIANT BooksTie
