\* Seven programs; see Programs in MCCachedSearch.
CONSTANTS
    a = a  b = b  e1 = e1  e2 = e2  c1 = c1  c2 = c2
    None = None  Unused = Unused  Gone = Gone
    Engines = {e1, e2}
    Caches = {c1, c2}
    Ids = {1, 2, 3, 4}
    Names = {a, b}
    Ages = {1, 2, 3, 4}
    idsOnCachePage = 2
    ListMax = 4
    Setups <- Programs
SPECIFICATION Spec
INVARIANTS TypeOK RedisListsExplained LocalListsExplained AnswerIsPage
CHECK_DEADLOCK FALSE
