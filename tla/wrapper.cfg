SPECIFICATION ProcessesSpec
CONSTANTS
    NoParentWatch = FALSE
    Servers = {gopls, tsserver}
    TypeScript = {tsserver}
    Services = {v}
    NoServer = NoServer
    MaxPanics = 1
INVARIANTS
    InkAlone
PROPERTIES
    ExitLeavesNothing
    NoOrphanEngine
    OneScreenComesUp
    EngineDeathEndsAll
    ProgramEnds
\* all processes end
CHECK_DEADLOCK FALSE
