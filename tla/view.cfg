CONSTANTS
  Precision = 1000
  Users = {alice, bob}
  Nominees = {alice, bob}
  Denoms = {"tst1", "tst2"}
  Divisor = 1
  MaxTimeInForce = 1
  Endowment = 2
  AssetPairs <- OneMarket
  Prices = {1}
  Quantities = {1, 2}
  MaxMarkets = 1
  MaxOrders = 2
  MaxFaults = 1
SPECIFICATION ViewSpec
SYMMETRY MC_Symmetry
INVARIANTS EveryOrderIsShown 
CHECK_DEADLOCK FALSE
