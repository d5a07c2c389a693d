CONSTANTS
    PREFIXCHARS = 1
    ANY = ANY
    EagerParts = {"header", "body"}
    MaxCalls = 2
    Rank <- MCRank
    Tag <- MCTag
    Object <- MCObject
    Calls <- MCCalls
SPECIFICATION FairSpec
INVARIANTS
    TypeOK
    Intact
    HeldBodyIsNext
PROPERTIES
    ReceiveFinishes
    ImplementsObjectChannel
\* A program may stop, or wait for a message that nobody sends.
CHECK_DEADLOCK FALSE
