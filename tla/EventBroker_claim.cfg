\* One group, two consumer names, one process each, Claim between them.
CONSTANTS
    g1 = g1  g2 = g2  p1 = p1  p2 = p2  p3 = p3  c1 = c1  c2 = c2
    Groups = {g1}
    Names = {c1, c2}
    Procs = {p1, p2}
    GroupOf <- OneGroupOf
    NameOf <- TwoNamesOf
    Collectors = {w1}
    NoProc = NoProc
    Count = 2
    ChunkSize = 2
    MaxEvents = 2
    MaxGarbage = 1
    MaxFaults = 1
    MaxExpiries = 0
    MaxClaims = 1
SPECIFICATION Spec
INVARIANTS PendingInStream
PROPERTIES ImplementsAtLeastOnce
