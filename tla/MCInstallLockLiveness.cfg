CONSTANTS
    Run = {r1, r2}
    NoRun = NoRun
    Inode = {i1, i2}
    NoFile = NoFile
SPECIFICATION FairSpec
CHECK_DEADLOCK FALSE
PROPERTIES
    AcquisitionEnds
