\* One process alone with a UUID entity and a crash, and two processes; transactions
\* and evictions.
CONSTANTS
    Engines = {e1, e2}
    Procs = {e1, e2}
    ProcOf <- EngineIsProc
    Cols = {a, b}
    NoEngine = NoEngine  NoRow = NoRow  Miss = Miss  None = None
    MaxWrites = 4
    Setups <- Programs
SPECIFICATION Spec
SYMMETRY Alike
INVARIANTS TypeOK RedisStaleExplained OwnWritesVisible CachesAgree
