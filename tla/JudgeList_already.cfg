\* The database fails while a submission is given to a judge.
CONSTANTS
    j1 = j1
    j2 = j2
    s1 = s1
    Judge = {j1, j2}
    Submission = {s1, s2}
    Priority <- DefaultAndRejudge
    NameOf <- OwnNames
    TierOf <- OneTier
    Pins <- Unpinned
    ProblemSets <- AllProblems
    MaxToggles = 1
    Environment <- DatabaseError
SPECIFICATION Spec
INVARIANTS AlreadyJudging
