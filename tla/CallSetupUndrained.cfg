SPECIFICATION Spec
CONSTANTS
    N = 1
    Forks = {f1}
    Offerless = FALSE
    BadEarly = TRUE
    Mishaps = {}
PROPERTIES AnswerSettled
CHECK_DEADLOCK FALSE
