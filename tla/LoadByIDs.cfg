\* Six programs; see Programs in MCLoadByIDs.  A program ends after its calls and writes.
CONSTANTS
    None = None  NoRow = NoRow  Miss = Miss  Unloaded = Unloaded
    Ids = {1, 2, 3}
    MaxWrites = 3
    Setups <- Programs
SPECIFICATION Spec
INVARIANTS TypeOK LoadedAsAsked CopiesExplained ClearHeals
CHECK_DEADLOCK FALSE
