CONSTANTS
    PREFIXCHARS = 1
    ANY = ANY
    EagerParts = {"header"}
    MaxCalls = 1
    Rank <- MCRank
    Tag <- MCTag
    Object <- MCObject
    Calls <- MCCalls
SPECIFICATION ShiftSpec
PROPERTIES
    ShiftCompletes
\* A shift that is over stops, and so does one that is stuck.
CHECK_DEADLOCK FALSE
