CONSTANTS
    N <- MCN
    Programs <- MCPrograms
SPECIFICATION FairSpec
INVARIANTS
    TypeOK
    ResultsRight
    CollectivesMatch
    MessagesAwaited
    CutRight
PROPERTIES
    AllFinish
CHECK_DEADLOCK FALSE
