CONSTANTS
  Precision = 1000
  Users = {alice}
  Nominees = {alice}
  Denoms = {"tst1", "tst2"}
  Divisor = 2
  MaxTimeInForce = 1
  Endowment = 4
  AssetPairs <- TwoMarkets
  Prices = {2}
  Quantities = {2}
  MaxMarkets = 2
  MaxOrders = 4
SPECIFICATION FairSpec
INVARIANT BooksStayConsistent
PROPERTY OrdersLeaveTheBook
CHECK_DEADLOCK FALSE
