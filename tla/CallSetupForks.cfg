SPECIFICATION Spec
CONSTANTS
    N = 1
    Forks = {f1, f2}
    Offerless = FALSE
    BadEarly = FALSE
    Mishaps = {}
PROPERTIES AnswerSettled GivenUpCallEnds
CHECK_DEADLOCK FALSE
