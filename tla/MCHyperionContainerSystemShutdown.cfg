CONSTANTS
    Clients = {c1}
    Peers = {}
    ServerTask = server
    ComponentTask = component
    Listeners = {c1, server, component}
    UnknownTarget = none
    TargetLists <- MCTargetLists
    Message = {app, hb, down, sysdown}
    Heartbeat = {hb}
    Shutdown = down
    SystemShutdown = sysdown
    Unmapped = {}
    Unserialisable = {}
    Undecodable = bad
    MaxSendRetries = 2
    MaxAttempts = 2
    ChannelCap = 1
    MaxInputs = 1
    Outside = {"console"}
SPECIFICATION MCContainerSpec
CHECK_DEADLOCK FALSE
PROPERTY SystemShutdownEnds
