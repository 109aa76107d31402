SPECIFICATION SessionSpec
CONSTANTS
    MaxFailures = 1
    MaxReloads = 1
    MaxAttempts = 2
INVARIANT LoggedInIsWhole
PROPERTY LoginIsAnswered MarketIsPolled
CHECK_DEADLOCK FALSE
