SPECIFICATION Spec
CONSTANTS
    Requests = {"oa", "ob"}
    Kind <- MCKind
    From <- MCFrom
    EarlyAnswers = {}
INVARIANT SlotsExact
CHECK_DEADLOCK FALSE
