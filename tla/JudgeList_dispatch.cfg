\* A preferred judge and two of a higher tier, one list of problems; every
\* submission is requested once, with fair scheduling.
CONSTANTS
    j1 = j1
    j2 = j2
    s1 = s1
    Judge = {j1, j2, j3}
    Submission = {s1, s2}
    Priority <- DefaultAndRejudge
    NameOf <- OwnNames
    TierOf <- TwoTiers
    Pins <- Unpinned
    ProblemSets <- AllProblems
    MaxToggles = 1
    Environment <- Once
SPECIFICATION FairSpec
INVARIANTS SchedulerInv NoOrphans WorkConserving
PROPERTIES MinimumTierOnly RequestEnds GradesAsPromised
