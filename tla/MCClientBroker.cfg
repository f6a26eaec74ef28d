CONSTANTS
    Clients = {c1, c2}
    Listeners = {c1, c2}
    UnknownTarget = none
    TargetLists <- MCTargetLists
    Message = {m, hb, sysdown}
    Heartbeat = {hb}
    SystemShutdown = sysdown
    Unserialisable = {}
    MaxSendRetries = 2
    MaxAttempts = 2
    ChannelCap = 1
    MaxMessages = 2
SYMMETRY ClientSymmetry
SPECIFICATION MCBrokerSafetySpec
INVARIANT BrokerTypeOK
INVARIANT ShutdownIsLastWord
INVARIANT SendersOutliveClients
