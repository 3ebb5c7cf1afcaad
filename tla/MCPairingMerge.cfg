CONSTANTS
    h1 = h1
    h2 = h2
    Pair = {p1, p2}
    Hunk = {h1, h2}
    Rev <- MCRev
    Structure <- MCStructure
    Region <- MCRegion
    History <- MCHistory
    Events = {"no runtime"}
    Gone = Gone
    Unmerged = Unmerged
    Marked = Marked
    Annotated = Annotated
    Edited = Edited
    Torn = Torn
    NoRecord = NoRecord
    NoPair = NoPair
SPECIFICATION FairSpec
CHECK_DEADLOCK FALSE
INVARIANTS
    TypeOK
    VerifiedBranchesMergeVerified
PROPERTIES
    SafeRecordsGetResolved
