SPECIFICATION Spec
CONSTANTS
    N = 2
    Options <- MCOptions
    Stale <- MCStale
CHECK_DEADLOCK FALSE
INVARIANTS
    LibrariesThere
    VisitsRight
    TimesCoverAllMpi4py
PROPERTIES
    EverythingEnds
