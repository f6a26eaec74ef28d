CONSTANTS
    Clients = {c1}
    Peers = {}
    ServerTask = server
    ComponentTask = component
    Listeners = {c1, server, component}
    UnknownTarget = none
    TargetLists <- MCTargetLists
    Message = {app, down, sysdown}
    Heartbeat = {}
    Shutdown = down
    SystemShutdown = sysdown
    Unmapped = {}
    Unserialisable = {}
    Undecodable = bad
    MaxSendRetries = 1
    MaxAttempts = 2
    ChannelCap = 1
    MaxInputs = 3
    Outside = {"console", "component"}
SPECIFICATION MCContainerSpec
CHECK_DEADLOCK FALSE
PROPERTY ShutdownDirectiveCloses
PROPERTY NextMessageCloses
PROPERTY MainLoopComesBack
PROPERTY ImplementsClientSpec
