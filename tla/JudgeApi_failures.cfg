\* One rejudge at a time; judges are lost and web workers stop. A worker that
\* stops before its request leaves the submission queued for ever.
CHECK_DEADLOCK FALSE
CONSTANTS
    w1 = w1
    Judge = {j1, j2}
    Worker = {w1, w2}
    Submitter = w1
    Case = {c1, c2}
    Environment <- Failures
SPECIFICATION Spec
INVARIANTS CompleteResult
PROPERTIES FinalStays
