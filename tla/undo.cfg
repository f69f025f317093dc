SPECIFICATION Spec
CONSTANTS
    Actors = {a1}
    Paths = {p1, p2}
    Contents = {x, y}
    Absent = Absent
    Cap = 2
    MaxChanges = 4
    MaxCrashes = 1
SYMMETRY MCSymmetry
INVARIANTS
    EachChangeOnce
PROPERTIES
    GoesBack
\* the agent stops when nothing is left to undo or to redo
CHECK_DEADLOCK FALSE
