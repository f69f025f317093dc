SPECIFICATION EditorSpec
CONSTANTS
    Files = {f}
    Preloaded = {f}
    Tools = {t}
    Timers = {t1, t2, t3}
    Loop = Loop
    Preload = Preload
    Kinds = {"create", "change", "delete"}
    Nobody = Nobody
    MaxChanges = 3
    Sessions = {s1, s2}
    None = None
    MaxKeys = 2
    MaxShown = 2
    MaxWaiting = 2
    MaxRequests = 1
    MaxMessages = 1
    MaxUpdates = 2
SYMMETRY EditorSymmetry
INVARIANTS
    NoChangeUnreported
    ShownIsCurrent
\* All of the changes have been made, and told; all of the keys were typed.
CHECK_DEADLOCK FALSE
