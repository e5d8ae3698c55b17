\* Overlapping rejudges and aborts, judges that are lost, restarts of the bridge
\* and requests that are lost; fair. Symmetry is not sound with the temporal property.
CONSTANTS
    w1 = w1
    Judge = {j1, j2}
    Worker = {w1, w2}
    Submitter = w1
    Case = {c1}
    Environment <- Answering
SPECIFICATION FairSpec
INVARIANTS TypeOK GradingIsKnown NoForeignRow RestsFinal
PROPERTIES ResultComes
