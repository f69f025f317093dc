SPECIFICATION Spec
CONSTANTS
    Servers = {s1}
    MaxRequests = 4
    MaxEchoes = 2
INVARIANTS
    NoneWaitsForTheDead
PROPERTIES
    SettledOnce
    EveryRequestEnds
    ConnectingEnds
\* the client rests when every request was answered
CHECK_DEADLOCK FALSE
