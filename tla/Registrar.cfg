SPECIFICATION MCSpec
CONSTANTS
    Devices = {"phone", "browser"}
    Aor <- MCAor
    Sources <- MCSources
    Ip <- MCIp
    Streams = {"browser"}
    Requests = {"r1", "r2", "r3"}
    Dev <- MCDev
    Kinds <- MCKinds
    Subs = {"q1", "q2"}
    SubDev <- MCSubDev
    MaxBindings = 2
    MaxPerAOR = 2
    MaxSubs = 2
    MaxPerBinding = 1
    Nodes = {1}
    Users = {"u1", "u2", "u3"}
    Hash <- MCHash
    Threshold = 2
    Windows <- MCWindows
    Budget = 2
    Cooldown = 1
INVARIANTS TablesAgree BindingsHonest OneProbe
PROPERTIES BindingsReclaimed SubsArePooled NodesComeBack
CHECK_DEADLOCK FALSE
