SPECIFICATION Spec
CONSTANTS
    N = 2
    Options <- MCOptions
    Stale = {}
CHECK_DEADLOCK FALSE
PROPERTIES
    SomeDriverClaimHolds
