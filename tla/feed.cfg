SPECIFICATION FeedSpec
CONSTANTS
    Uids = {"uftm"}
    MaxCandles = 2
    MaxTrades = 3
    MaxChains = 2
INVARIANT FeedIsConsistent
PROPERTY PulseBeats StatsCatchUp
CHECK_DEADLOCK FALSE
