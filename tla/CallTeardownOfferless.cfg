SPECIFICATION Spec
CONSTANTS
    Acks = {a1, a2}
    Offerless = TRUE
    Prack = FALSE
    Endings = {{"byeCallee", "media"}, {"reinvite"}}
INVARIANTS AnswerRestated
PROPERTIES LostAckEnds EndpointsTold MediaAndCallEndTogether
CHECK_DEADLOCK FALSE
