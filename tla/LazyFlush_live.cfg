\* New rows with ids from MySQL, flushed alone and together: what is done in the end.
CONSTANTS
    r1 = r1  r2 = r2  p1 = p1  p2 = p2
    Rows = {r1, r2}
    Pools = {p1}
    PoolOf <- OnePool
    IdOf <- TwoIds
    Modulo = 2
    Ids = "auto"
    HasResolver = FALSE
    Count = 2
    MaxFlushes = 3
    MaxRows = 2
    MaxLoads = 0
    MaxFaults = 1
SPECIFICATION LiveSpec
\* The system stops when every flush is done.
CHECK_DEADLOCK FALSE
PROPERTIES EventuallyDone
