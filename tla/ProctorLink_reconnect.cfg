\* No tab switches: sockets break, die and fail to open.
CHECK_DEADLOCK FALSE
CONSTANTS
    MaxSockets = 3
    MaxBuffer = 1
    MaxCount = 0
SPECIFICATION Spec
PROPERTIES KeepsReconnecting
