CONSTANTS
    Clients = {c1}
    Peers = {p1}
    ServerTask = server
    ComponentTask = component
    Listeners = {c1, server, component}
    UnknownTarget = none
    TargetLists <- MCTargetLists
    Message = {app, hb, down, sysdown}
    Heartbeat = {hb}
    Shutdown = down
    SystemShutdown = sysdown
    Unmapped = {}
    Unserialisable = {}
    Undecodable = bad
    MaxSendRetries = 2
    MaxAttempts = 2
    ChannelCap = 1
    MaxInputs = 3
    Outside = {"console", "close", "component", "watchdog", "stream", "heartbeat", "peer"}
SPECIFICATION MCContainerSafetySpec
CHECK_DEADLOCK FALSE
INVARIANT ContainerTypeOK
INVARIANT ClosingIsAnnounced
INVARIANT SystemShutdownStopsClients
PROPERTY ImplementsServerSpec
