\* Two violations, no faults: the second one comes after a periodic reset that fell into
\* the upload of the first.
CHECK_DEADLOCK FALSE
CONSTANTS
    Violations = {v1, v2}
    MaxAttempts = 2
    MaxPending = 2
    Prompt = TRUE
    MaxFaults = 0
SPECIFICATION Spec
INVARIANT ClearedOnlyIfConfirmed
