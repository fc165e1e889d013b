SPECIFICATION Spec
CONSTANTS
    Acks = {a1}
    Offerless = TRUE
    Prack = TRUE
    Endings = {{"byeCaller", "byeCallee", "reinvite", "shutdown"}}
INVARIANTS EndedForOneReason
CHECK_DEADLOCK FALSE
