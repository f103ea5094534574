\* Two processes compete for one consumer name; locks expire, handlers panic,
\* processes die.
CONSTANTS
    g1 = g1  g2 = g2  p1 = p1  p2 = p2  p3 = p3  c1 = c1  c2 = c2
    Groups = {g1}
    Names = {c1}
    Procs = {p1, p2}
    GroupOf <- OneGroupOf
    NameOf <- SharedNameOf
    Collectors = {}
    NoProc = NoProc
    Count = 2
    ChunkSize = 2
    MaxEvents = 3
    MaxGarbage = 0
    MaxFaults = 2
    MaxExpiries = 1
    MaxClaims = 0
SPECIFICATION LiveSpec
INVARIANTS OneConsumerPerName
PROPERTIES EventuallyAcked LockKept
