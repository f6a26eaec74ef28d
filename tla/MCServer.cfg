CONSTANTS
    Listeners = {server}
    ServerTask = server
    Peers = {p1, p2}
    Message = {1, 2, 3}
    Undecodable = bad
    MaxAttempts = 2
    ChannelCap = 1
    MaxFrames = 3
SPECIFICATION MCServerSpec
INVARIANT ServerTypeOK
INVARIANT ServerStopsInOrder
PROPERTY ImplementsInboundFifo
PROPERTY HandlerFollowsPeer
PROPERTY ServerFollowsPeers
