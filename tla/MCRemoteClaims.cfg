SPECIFICATION ClaimsSpec
CONSTANTS
    N = 3
    Programs <- ClaimsPrograms
    Calls <- ClaimsCalls
    MaxCalls = 4
CHECK_DEADLOCK FALSE
PROPERTIES
    SomeRemoteClaimHolds
