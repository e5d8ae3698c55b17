\* The only judge is disabled and enabled again.
CONSTANTS
    j1 = j1
    j2 = j2
    s1 = s1
    Judge = {j1, j2}
    Submission = {s1, s2}
    Priority <- DefaultAndRejudge
    NameOf <- OwnNames
    TierOf <- OneTier
    Pins <- Unpinned
    ProblemSets <- AllProblems
    MaxToggles = 1
    Environment <- Disable
SPECIFICATION Spec
PROPERTIES OnlyRegisterEndsNoTier
