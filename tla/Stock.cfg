SPECIFICATION Spec
CHECK_DEADLOCK FALSE
CONSTANTS
  Raw = {"tomato"}
  Made = {"gravy"}
  Dishes = {"curry"}
  Bills = {b1, b2}
  Papers = {p1, p2, p3}
  NoPaper = NoPaper
  Carts <- SmallCarts
  Menus <- SmallMenus
  Recipes <- SmallRecipes
  Slips <- SmallSlips
  Openings <- SmallOpenings
  MaxRev = 1
  MaxCounts = 1
  MaxByHand = 2
  MaxSteps = 6
SYMMETRY Same
INVARIANT OnlyTheStandingBillDraws
 
PROPERTY MadeAsNeeded
PROPERTY CountSettlesTheBook
