\* Two workers rejudge the submission at the same time.
CONSTANTS
    w1 = w1
    Judge = {j1}
    Worker = {w1, w2}
    Submitter = w1
    Case = {c1, c2}
    Environment <- Overlap
SPECIFICATION Spec
INVARIANTS CompleteResult
