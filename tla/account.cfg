SPECIFICATION AccountSpec
CONSTANTS
    Denoms = {uzar, uftm}
    PageSize = 2
    MaxOrders = 3
    MaxChanges = 2
    MaxAmount = 1
    MaxFailures = 1
    MaxMounts = 1
 
PROPERTY AccountCatchesUp
