SPECIFICATION Spec
CONSTANTS
    m1 = m1
    m2 = m2
    m3 = m3
    m4 = m4
    p1 = p1
    p2 = p2
    p3 = p3
    Models = {m1, m2, m3, m4}
    Providers = {p1, p2, p3}
    Pool = {p1, p2, p3}
    Default = p1
    Account = p1
    Budget = 1
    Serves <- MCServes
    FreeAt <- MCFreeAt
    Policy <- MCPolicy
    Exhausted = {}
    Preferred = None
    None = None
    FreeOnly = TRUE
    Level = "high"
    Parallel = TRUE
    MaxSwitches = 2
    MaxSteps = 1
PROPERTIES
    SwitchesToUntried
    SwitchesToLiveProvider
    GivesUpOnlyWhenExhausted
    AbortStopsCalls
\* the turn ends
CHECK_DEADLOCK FALSE
