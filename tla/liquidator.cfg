CONSTANTS
  Users = {alice, bob}
  Collaterals = {"uftm"}
  GlobalDebtLimit = 3
  Prices = {1, 2}
  CollateralParams <- MC_Terms
  Nominees = {alice, bob}
  MaxChange = 2
  MaxAuctionDuration = 1
  MaxBidDuration = 1
  BidAmounts = {1, 2}
  LotAmounts = {0, 1}
  Matching = TRUE
  MaxAuctions = 3
  MaxHeight = 0
  Precision = 1000
  AuctionSize <- MC_SmallAuctions
  DebtAuctionSize = 1
  Endowment = 2
  OracleMoves = TRUE
SPECIFICATION Spec
SYMMETRY MC_Symmetry
INVARIANTS StableCoinIsDebt NoDebtWithoutCollateral  ExitPossible
PROPERTIES HealthyCsdtIsSafe BooksBalance ImplementsDebtBook
