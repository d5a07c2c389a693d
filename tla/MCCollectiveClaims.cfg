CONSTANTS
    N <- MCN
    Programs <- MCPrograms
SPECIFICATION FairSpec
PROPERTIES
    SomeCollectiveClaimHolds
CHECK_DEADLOCK FALSE
