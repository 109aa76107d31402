CONSTANTS
  Precision = 1000
  Users = {alice, bob}
  Nominees = {alice, bob}
  Denoms = {"tst1", "tst2"}
  Divisor = 2
  MaxTimeInForce = 1
  Endowment = 4
  AssetPairs <- OneMarket
  Prices = {1, 3}
  Quantities = {1, 2, 3}
  MaxMarkets = 1
  MaxOrders = 3
SPECIFICATION ExchangeSpec
SYMMETRY MC_Symmetry
INVARIANTS EscrowCoversOrders 
PROPERTIES CoinsChangeHands OnePriceForAll
CHECK_DEADLOCK FALSE
