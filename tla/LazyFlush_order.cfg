\* Rows that are flushed again before a batch that also holds an insert.
CONSTANTS
    r1 = r1  r2 = r2  p1 = p1  p2 = p2
    Rows = {r1, r2}
    Pools = {p1}
    PoolOf <- OnePool
    IdOf <- TwoIds
    Modulo = 2
    Ids = "explicit"
    HasResolver = FALSE
    Count = 3
    MaxFlushes = 3
    MaxRows = 2
    MaxLoads = 0
    MaxFaults = 0
SPECIFICATION Spec
INVARIANTS LaterFlushIsSeen
