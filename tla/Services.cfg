SPECIFICATION Spec
CONSTANTS
    Dialers = {1, 2, 3}
    TrunkNodes = {"n1", "n2"}
    TrunkLines = {"l1", "l2"}
    LineNode <- NodeOf
    MaxRestarts = 1
    Trunks = {"k1", "k2"}
    Targets = {"t1", "t2"}
    Addrs = {"a", "b"}
    Renumber = TRUE
    TTL = 2
    NegTTL = 1
    Sockets = {"phone", "other"}
    SocketIp <- OneIp
    Vouched = {"phone"}
    Rate = 1
    Interval = 2
    BucketCap = 2
    AorNames = {"a", "b", "c"}
    AorCap = 2
    AorScan = 2
    AorStrikes = 1
    AorWindow = 2
    AorBan = 2
    MaxNow = 5
    Hosts = {"phone", "rogue"}
    Honest = {"phone"}
    CarrierHosts = {}
    Messages = {1, 2, 3}
    Forgiven = 1
    Slots = 1
    Flight = 2
    Logins = {1, 2, 3}
    LoginSources = {"a", "b", "c"}
    AuthLimit = 1
    AuthWindow = 1
    MaxIPs = 2
    CredsTTL = 1
    MaxSessions = 1
    IdleTimeout = 1
    MaxAge = 1
    WireLength = 5
    Finals = {4}
    ProvCap = 5
    Packets = {"p1", "p2", "p3"}
    QueueSize = 2
INVARIANTS  CarriersReached NothingLostOnTheWay FramesSeen
PROPERTIES KeptUntilDue
CHECK_DEADLOCK FALSE
