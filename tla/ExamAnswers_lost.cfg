\* One request of the user at a time, and none fails.
CHECK_DEADLOCK FALSE
CONSTANTS
    N = 2
    Choice = {a, b}
    Multiple = {}
    Call = {c1}
    MaxActions = 3
    MaxFailures = 0
SPECIFICATION Spec
INVARIANTS AllAnswersCounted
