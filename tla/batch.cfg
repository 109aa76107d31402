CONSTANTS
  Precision = 1000
  Ids = {1, 2, 3, 4}
  Prices = {1, 2, 5}
  Quantities = {1, 2, 3}
  Tick = 2
SPECIFICATION BatchSpec
INVARIANTS TableIsTheCurves TradesBalance RationIsProRata  PageShowsTheBatch
