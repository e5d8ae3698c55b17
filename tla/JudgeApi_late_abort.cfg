\* A worker aborts what a judge has just graded.
CONSTANTS
    w1 = w1
    Judge = {j1}
    Worker = {w1, w2}
    Submitter = w1
    Case = {c1, c2}
    Environment <- Aborts
SPECIFICATION Spec
PROPERTIES GradedStaysGraded
