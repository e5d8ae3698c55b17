\* Three pages that poll, two of them on one channel.
CHECK_DEADLOCK FALSE
CONSTANTS
    p1 = p1
    p2 = p2
    p3 = p3
    c1 = c1
    c2 = c2
    Pages <- MCPages
    Channels <- MCChannels
    ChannelOf <- MCChannelOf
    HasWebSocket <- MCPollers
    MaxQueue = 2
    MaxId = 3
    MaxFaults = 0
SPECIFICATION Spec
INVARIANT EveryPollerCalled
