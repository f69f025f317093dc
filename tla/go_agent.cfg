SPECIFICATION Spec
CONSTANTS
    s1 = s1
    s2 = s2
    r1 = r1
    r2 = r2
    Tools = {write, remote}
    Asking = {write, remote}
    Foreign = {remote}
    MaxCalls = 2
    CallsOf <- MCCallsOf
    MaxRetries = 1
    Sessions = {s1, s2}
    Runs = {r1, r2}
    NoRun = NoRun
    AutoApproved = {}
    Summarized = {s1}
    ServedBy = {"anthropic", "openai", "copilot", "gemini"}
    Crowd = {"openai"}
    Placements <- MCPlacements
    MaxRounds = 1
    MaxReplies = 1
INVARIANTS
    GrantedByUser
    BusyIsLive
    EveryCallAnswered
PROPERTIES
    DenialEndsRequest
    CancelledRunEnds
CHECK_DEADLOCK FALSE
