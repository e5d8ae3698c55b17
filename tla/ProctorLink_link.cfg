\* Three sockets, of which two may be lost or fail to open, a buffer of two events.
\* Nothing is left to do when the test has been submitted or the link is down for good.
CHECK_DEADLOCK FALSE
CONSTANTS
    MaxSockets = 3
    MaxBuffer = 2
    MaxCount = 3
SPECIFICATION Spec
INVARIANTS TypeOK OneLink
PROPERTIES NoLinkAfterSubmission AckedOnlyFlushed BufferedArrive ZombieNoticed
