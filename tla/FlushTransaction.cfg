\* Five programs of one engine; see Programs in MCFlushTransaction.
CONSTANTS
    a = a  b = b  c = c  s = s  t = t  p = p  q = q  f1 = f1  f2 = f2
    None = None
    Entities = {a, b, c}
    Types = {s, t}
    Pools = {p, q}
    TypeOf <- TypeOfAB
    Flushers = {f1, f2}
    Objects = {o1, o2, o3}
    Setups <- Programs
    MaxFaults = 1
SPECIFICATION Spec
INVARIANTS TypeOK ExactlyCommitted AllOrNothing ShownIsCommitted CommittedIsPublished EndsUnlessCyclic
PROPERTY LeavesTransactionsAlone
CHECK_DEADLOCK FALSE
