SPECIFICATION Spec
CONSTANTS
    N = 2
    Programs <- MCPrograms
    Calls <- MCCalls
    MaxCalls = 2
CHECK_DEADLOCK FALSE
INVARIANTS
    TypeOK
    IdsUnique
    CallsRight
    BodiesRight
PROPERTIES
    CallsExecuted
