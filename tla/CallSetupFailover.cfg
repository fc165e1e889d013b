SPECIFICATION Spec
CONSTANTS
    N = 2
    Forks = {f1}
    Offerless = TRUE
    BadEarly = TRUE
    Mishaps = {"ackWrite", "orphan", "shutdown"}
INVARIANTS NothingLeftBehind OneFinal
PROPERTIES NothingAfterAnswer CallerAnswered
CHECK_DEADLOCK FALSE
