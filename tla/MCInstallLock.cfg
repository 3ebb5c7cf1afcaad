CONSTANTS
    Run = {r1, r2, r3}
    NoRun = NoRun
    Inode = {i1, i2}
    NoFile = NoFile
SPECIFICATION Spec
SYMMETRY Symmetry
\* Every lock file on disk may be owned by a dead run, then nobody can go on.
CHECK_DEADLOCK FALSE
INVARIANTS
    TypeOK
    MutualExclusion
    OwnerKeepsLock
    StaleOwnerIsDead
PROPERTIES
    OnlyOwnerOrOperatorRemoves
    ImplementsMutex
