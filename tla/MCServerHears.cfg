CONSTANTS
    Listeners = {server}
    ServerTask = server
    Peers = {p1, p2}
    Message = {1}
    Undecodable = bad
    MaxAttempts = 2
    ChannelCap = 1
    MaxFrames = 1
SPECIFICATION MCServerSpec
PROPERTY ServerHearsShutdown
