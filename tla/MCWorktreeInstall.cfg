CONSTANTS
    Run = {i1, i2}
    Worktree = {main, linked}
    Main = main
    Location = {here}
    Moves = {}
    PrekToml = TRUE
    Events = {"add", "remove", "custom", "disable", "kill", "interrupt", "undo fails"}
    NoValue = NoValue
    Custom = Custom
    Absent = Absent
    Unmarked = Unmarked
    Broken = Broken
    Free = Free
    Abandoned = Abandoned
SPECIFICATION Spec
SYMMETRY Symmetry
INVARIANTS
    TypeOK
    SuccessIsComplete
    RollbackRestores
    OwnLeftoversAccepted
PROPERTIES
    UserValuesSurvive
    SiblingsUntouched
