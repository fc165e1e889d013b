SPECIFICATION Spec
CONSTANTS
    phone = phone
    other = other
    stranger = stranger
    lan = lan
    loop = loop
    NoIP = NoIP
    IPs <- MCIPs
    Loops = {loop}
    LabPlanes = {"private"}
    Private = {lan}
    MaxPort = 3
    SdpAddrs <- MCSdpAddrs
    RtcpPorts = {0, 1}
    Sources <- MCSources
    Peers = {phone, other}
    Talks <- OneStream
    MaxPoints = 2
INVARIANTS SignalledOnly TakenBack MediaGoesHome
PROPERTIES LearnedInTheEnd
CHECK_DEADLOCK FALSE
