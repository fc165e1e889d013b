SPECIFICATION MCSpec
CONSTANTS
    Sessions = {s1, s2}
    MinPort = 5
    MaxPort = 10
    Requests = {"ra", "ub", "ob"}
    Kind <- MCKind
    From <- MCFrom
    EarlyAnswers = {"ra"}
    LegClosers = {"c1", "c2"}
    N = 3
    Udp = {1, 3}
    Handlers = {"h1"}
INVARIANTS PortsSafe ExhaustionTruthful OffersApplied LegReleases NothingLeft
PROPERTIES ResourcesReturned FileFollowed RunReturns
CHECK_DEADLOCK FALSE
