CONSTANTS
    PREFIXCHARS = 1
    ANY = ANY
    NONE = NONE
    EagerParts = {}
    MaxRequests <- MCMaxRequests
    Uses <- MCUses
    Polls <- MCPolls
    Liberties = {}
    Rank <- MCRank
    Tag <- MCTag
    Object <- MCObject
    Sends <- MCSends
    Receives <- MCReceives
SPECIFICATION PollSpec
INVARIANTS
    PollingTypeOK
    Intact
    ToldSplitSendIsOver
    BuffersOutlive
PROPERTIES
    BlockingCallsEnd
CHECK_DEADLOCK FALSE
