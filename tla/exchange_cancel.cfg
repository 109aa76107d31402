CONSTANTS
  Precision = 1000
  Users = {alice, bob}
  Nominees = {alice}
  Denoms = {"tst1", "tst2"}
  Divisor = 2
  MaxTimeInForce = 1
  Endowment = 3
  AssetPairs <- OneMarket
  Prices = {1, 2}
  Quantities = {1, 2, 3}
  MaxMarkets = 1
  MaxOrders = 3
SPECIFICATION ExchangeSpec
PROPERTY CancelReturnsCoins
CHECK_DEADLOCK FALSE
