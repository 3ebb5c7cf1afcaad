CONSTANTS
    Run = {i1, i2}
    Worktree = {main}
    Main = main
    Location = {"here", "there"}
    Moves <- OneWay
    PrekToml = TRUE
    Events = {"move", "custom", "disable", "kill", "interrupt", "undo fails"}
    NoValue = NoValue
    Custom = Custom
    Absent = Absent
    Unmarked = Unmarked
    Broken = Broken
    Free = Free
    Abandoned = Abandoned
SPECIFICATION FairSpec
INVARIANTS
    OwnLeftoversAccepted

    
