SPECIFICATION ClientSpec
CONSTANTS
    Sessions = {s1, s2}
    None = None
    MaxTurns = 1
    MaxAsks = 1
    MaxEvents = 1
    MaxKeys = 3
    MaxPosts = 2
INVARIANT AnswersAsShown
PROPERTY UserCanLeave
CHECK_DEADLOCK FALSE
