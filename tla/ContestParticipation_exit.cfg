SPECIFICATION Spec
CONSTANTS
    Threads = {t1}
    Problems = {p1}
    Questions = {q1}
    MaxPoints = 1
    Selections = {s1}
    NoSelection = NoSelection
    NoRow = NoRow
    RejoinDebug = FALSE
PROPERTIES ExitedStaysOut
