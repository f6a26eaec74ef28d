CONSTANTS
    Payload <- MCPayload
    Undecodable <- MCUndecodable
    Base = 2
    PrefixLen = 2
    MaxRead = 6
    Window = 7
    MaxFrames = 3
SPECIFICATION MCFramingSpec
INVARIANT FramingTypeOK
INVARIANT ShutdownLosesNothing
INVARIANT BufferIsBounded
PROPERTY ImplementsFrameFifo
PROPERTY HandlerFollowsStream
CHECK_DEADLOCK FALSE
