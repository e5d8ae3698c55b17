\* Two clips, two retries each, two runs of the worker that may overlap, two page loads,
\* one request to the store that fails.
\* Nothing is left to do when the store is empty or its clips are given up.
CHECK_DEADLOCK FALSE
CONSTANTS
    Clips = {k1, k2}
    MaxRetries = 2
    Runs = {w1, w2}
    MaxLoads = 2
    MaxErrors = 1
SPECIFICATION Spec
PROPERTIES KeptUntilUploaded RetriesEnd
