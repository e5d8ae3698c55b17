\* Two questions, the second with several answers; two requests of the user at a time.
\* The exam is over when nothing is left to do.
CHECK_DEADLOCK FALSE
CONSTANTS
    N = 2
    Choice = {a, b}
    Multiple = {2}
    Call = {c1, c2}
    MaxActions = 4
    MaxFailures = 1
SPECIFICATION Spec
INVARIANTS OneSaveAtATime StoredIsAnAnswer
PROPERTIES RestsSaved
