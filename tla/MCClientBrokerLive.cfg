CONSTANTS
    Clients = {c1}
    Listeners = {c1}
    UnknownTarget = none
    TargetLists <- MCTargetLists
    Message = {m, bad, hb, sysdown}
    Heartbeat = {hb}
    SystemShutdown = sysdown
    Unserialisable = {bad}
    MaxSendRetries = 3
    MaxAttempts = 3
    ChannelCap = 2
    MaxMessages = 3
SPECIFICATION MCBrokerSpec
INVARIANT ClientTypeOK
INVARIANT RetryBudget
INVARIANT InFlightHasStream
INVARIANT StopsForAReason
PROPERTY ImplementsFifo
PROPERTY DialEnds
PROPERTY ImplementsClientSpec
PROPERTY HandleMessageEnds
PROPERTY ForwardShutdownEnds
