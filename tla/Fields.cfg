\* Every kind of field, in zones east and west, with and without a summer time.
CONSTANTS
    Setups <- AllSetups
    ID = 7
    Unit = 10
    Day = 4
    TimeStampSeconds = 60
    ZeroDateSeconds = 8
    Year1000 <- Year1000Value
    LastYear = 24
SPECIFICATION Spec
INVARIANTS TypeOK CleanIsRow SettledIsClean CacheIsRow BeforeIsRow
CHECK_DEADLOCK FALSE
