CONSTANTS
  Users = {alice, bob}
  Collaterals = {"uftm"}
  MaxAuctionDuration = 2
  MaxBidDuration = 1
  BidAmounts = {1, 2}
  LotAmounts = {0, 1, 2}
  Matching = TRUE
  MaxAuctions = 2
  MaxHeight = 0
  Endowment = 2
SPECIFICATION FairAuctionSpec
INVARIANTS QueueMatchesAuctions ClosedInTime 
PROPERTY AuctionsClose
