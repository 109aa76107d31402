SPECIFICATION Spec
CONSTANTS
    m1 = m1
    m2 = m2
    Markets <- MC_Markets
    Home = m1
    FirstHeight = 8
    MaxHeight <- MC_MaxHeight
    MaxBatches = 1
    MaxCalls = 2
INVARIANT KeptAreGreatest HeaderAndChartAgree
PROPERTY BookNeverGoesBack MarketCatchesUp
CHECK_DEADLOCK FALSE
