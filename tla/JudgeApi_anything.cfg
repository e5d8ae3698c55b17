\* Everything happens: rejudges and aborts overlap, judges are lost, the bridge
\* restarts, web workers stop, requests and replies are lost.
CHECK_DEADLOCK FALSE
CONSTANTS
    w1 = w1
    Judge = {j1, j2}
    Worker = {w1, w2}
    Submitter = w1
    Case = {c1, c2}
    Environment <- Everything
SPECIFICATION Spec
INVARIANTS TypeOK GradingIsKnown NoForeignRow
