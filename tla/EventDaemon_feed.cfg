\* Two pages of one channel, one by web socket and one that polls.  The queue holds two
\* messages, of two channels, so that messages can leave it before they are read.
\* Nothing is left to do when all messages are posted and the sockets are idle.
CHECK_DEADLOCK FALSE
CONSTANTS
    p1 = p1
    p2 = p2
    p3 = p3
    c1 = c1
    c2 = c2
    Pages <- TwoPages
    Channels <- MCChannels
    ChannelOf <- TwoChannelOf
    HasWebSocket <- TwoHaveWebSocket
    MaxQueue = 2
    MaxId = 4
    MaxFaults = 2
SPECIFICATION Spec
INVARIANTS TypeOK NothingSkipped
PROPERTIES ReachesPages DeliversAsPromised
