SPECIFICATION Spec
CONSTANTS
    p1 = p1
    p2 = p2
    c1 = c1
    c2 = c2
    c3 = c3
    Prose = {p1, p2}
    ShapeOf <- MCShapeOf
    Code = {c1, c2, c3}
    MaxEdits = 2
    MaxCommits = 2
SYMMETRY Symmetry
\* All edits and commits made: nothing is left to do.
CHECK_DEADLOCK FALSE
INVARIANTS TypeOK ConfirmedStaysRecoverable CloneRecovers
PROPERTIES ApplyKeepsEdits
