SPECIFICATION MCSpec
CONSTANTS
    Invites = {"i1", "i2", "i3"}
    Keys <- MCKeys
    Key <- MCKey
    Pairs = 2
    Caps = {0, 1, 5}
    Records <- MCRecords
    CallerTag <- MCCallerTag
    CallerPlane <- MCCallerPlane
    ForkTags <- MCForkTags
    OfCarrier = {2}
    Switches = {"n1", "n2"}
    Home = "n1"
    Workers = {1}
    Streams = {"c1", "c2", "k"}
    StreamIp <- IpOf
    CarrierStreams = {"k"}
    MaxTotal = 1
    MaxCarrier = 1
    MaxPerIP = 1
    Idle = 2
    Message = 1
INVARIANTS AdmissionExact ShutdownEndsAll SocketsOwned RequestsRouted StreamsExact
PROPERTIES ConnsArePooled
CHECK_DEADLOCK FALSE
