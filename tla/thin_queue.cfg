SPECIFICATION Spec
CONSTANTS
    UserTurns = {u1}
    Tasks = {k1}
    Conns = {c1, c2}
    None = None
    QueueCap = 1
    MaxReplies = 1
    MaxBatch = 1
PROPERTIES
    QueueNeverOverruns
CHECK_DEADLOCK FALSE
