SPECIFICATION Spec
CONSTANTS
    N = 2
    Lines <- MCLines
    Follows <- MCFollows
    Jobs <- MCJobs
CHECK_DEADLOCK FALSE
INVARIANTS
    TypeOK
    SlicesRight
    CollectivesMatch
    MisuseIsTheProgram
    FinalizedAtEnd
    OutputKept
PROPERTIES
    ReturnMeansWritten
    SessionEnds
    ImplementsInputStream
