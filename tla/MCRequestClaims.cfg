CONSTANTS
    PREFIXCHARS = 1
    ANY = ANY
    NONE = NONE
    EagerParts = {}
    Liberties = {"overlap"}
    Uses <- MCUses
    MaxRequests <- MCMaxRequests
    Rank <- MCRank
    Tag <- MCTag
    Object <- MCObject
    Sends <- MCSends
    Receives <- MCReceives
SPECIFICATION ClaimsSpec
PROPERTIES
    SomeRequestClaimHolds
CHECK_DEADLOCK FALSE
