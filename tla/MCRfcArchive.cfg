SPECIFICATION Spec
CONSTANTS
    Notes = {"rfc"}
    FileDate <- MCFileDate
    Texts <- MCTexts
    MaxEdits = 3
    MaxCommits = 2
\* All edits and commits made: nothing is left to do.
CHECK_DEADLOCK FALSE
INVARIANTS TypeOK AcceptedCommitsAreWhole FrozenBytesStay SealThenVerify
