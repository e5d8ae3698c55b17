\* Two violations, two attempts, one fault; up to two stop events or restart timers wait,
\* so that the periodic reset meets an upload and a stop that is under way.
\* Nothing is left to do after cleanup.
CHECK_DEADLOCK FALSE
CONSTANTS
    Violations = {v1, v2}
    MaxAttempts = 2
    MaxPending = 2
    Prompt = FALSE
    MaxFaults = 1
SPECIFICATION Spec
INVARIANTS TypeOK EvidenceKept
PROPERTIES RecordsAgain
