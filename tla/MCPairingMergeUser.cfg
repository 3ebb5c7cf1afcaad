CONSTANTS
    h1 = h1
    h2 = h2
    Pair = {p1, p2}
    Hunk = {h1, h2}
    Rev <- MCRev
    Structure <- MCStructure
    Region <- MCRegion
    History <- MCFewer
    Events = {"no runtime", "user", "git fails", "write fails", "kill"}
    Gone = Gone
    Unmerged = Unmerged
    Marked = Marked
    Annotated = Annotated
    Edited = Edited
    Torn = Torn
    NoRecord = NoRecord
    NoPair = NoPair
SPECIFICATION Spec
CHECK_DEADLOCK FALSE
CONSTRAINT OneTouched
SYMMETRY Symmetry
PROPERTIES
    ManualWorkSurvives
    OnlyProvenRecordsStaged
