\* Three releases out of ten, with rows and a change by hand.
CONSTANTS
    Releases <- AllReleases
    MaxReleases = 2
    MaxChanges = 1
SPECIFICATION Spec
INVARIANTS TypeOK Converges RefusedIsExplained SafeLosesNothing
CHECK_DEADLOCK FALSE
