CONSTANTS
    a = a
    b = b
    c = c
    Container = {a, b, c}
    Name = {a, b, c}
    Second = 1
    Setup <- MCSetup
    MaxStart = 1
    MaxLag = 1
    MaxDelay = 1
    ChannelCap = 2
    MaxTime = 10
    MaxSent = 2
SPECIFICATION MCHeartbeatSpec
INVARIANT HeartbeatTypeOK
INVARIANT OneFate
INVARIANT MissesAreNoticed
INVARIANT NoFalseMiss
INVARIANT SilenceIsNoticed
INVARIANT NoFalseTimeout
