SPECIFICATION Spec
CONSTANTS
    UserTurns = {u1}
    Tasks = {k1, k2}
    Conns = {c1, c2}
    None = None
    QueueCap = 2
    MaxReplies = 1
    MaxBatch = 1
SYMMETRY MCSymmetry
INVARIANTS
    GuardedRunsApproved
    PendingIsWaiting
    ActiveIsLive
    EveryTurnEnds
    QueueIsFifo
\* the server stops when every turn is over and no request comes
CHECK_DEADLOCK FALSE
