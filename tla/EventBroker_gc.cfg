\* Two groups, one collector, consumers that panic, crash and lose their lock.
CONSTANTS
    g1 = g1  g2 = g2  p1 = p1  p2 = p2  p3 = p3  c1 = c1  c2 = c2
    Groups = {g1, g2}
    Names = {c1}
    Procs = {p1, p3}
    GroupOf <- TwoGroupsOf
    NameOf <- OneNameOf
    Collectors = {w1}
    NoProc = NoProc
    Count = 2
    ChunkSize = 2
    MaxEvents = 3
    MaxGarbage = 1
    MaxFaults = 1
    MaxExpiries = 0
    MaxClaims = 0
SPECIFICATION Spec
INVARIANTS TypeOK NothingLost
