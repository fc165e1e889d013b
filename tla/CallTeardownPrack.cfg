SPECIFICATION Spec
CONSTANTS
    Acks = {a1}
    Offerless = TRUE
    Prack = TRUE
    Endings = {{}}

PROPERTIES LostAckEnds
CHECK_DEADLOCK FALSE
