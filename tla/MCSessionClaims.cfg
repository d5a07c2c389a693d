SPECIFICATION Spec
CONSTANTS
    N = 2
    Lines <- ClaimsLines
    Follows <- AnyFollows
    Jobs <- PromptOnly
CHECK_DEADLOCK FALSE
PROPERTIES
    SomeSessionClaimHolds
