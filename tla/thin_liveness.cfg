SPECIFICATION Spec
CONSTANTS
    UserTurns = {u1}
    Tasks = {k1}
    Conns = {c1}
    None = None
    QueueCap = 1
    MaxReplies = 1
    MaxBatch = 1
PROPERTIES
    ServerIsReleased
    AskingEnds
\* the server stops when every turn is over and no request comes
CHECK_DEADLOCK FALSE
