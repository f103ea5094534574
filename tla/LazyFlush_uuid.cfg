\* Rows with uuids in two pools, loaded while they are flushed; a resolver that accepts
\* every error.
CONSTANTS
    r1 = r1  r2 = r2  p1 = p1  p2 = p2
    Rows = {r1, r2}
    Pools = {p1, p2}
    PoolOf <- TwoPools
    IdOf <- TwoIds
    Modulo = 2
    Ids = "uuid"
    HasResolver = TRUE
    Count = 2
    MaxFlushes = 2
    MaxRows = 2
    MaxLoads = 1
    MaxFaults = 1
SPECIFICATION Spec
INVARIANTS TypeOK AckedIsExecuted RedisFollows LastFlushWins
