\* Judges with different problem lists, which they announce anew; requests that
\* name a judge, and rejudges.
CONSTANTS
    j1 = j1
    j2 = j2
    s1 = s1
    Judge = {j1, j2}
    Submission = {s1, s2}
    Priority <- DefaultAndRejudge
    NameOf <- OwnNames
    TierOf <- OneTier
    Pins <- PinnedToo
    ProblemSets <- SomeProblems
    MaxToggles = 1
    Environment <- Reload
SPECIFICATION Spec
INVARIANTS UrgentServed JudgedByOne
