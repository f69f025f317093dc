SPECIFICATION Spec
CONSTANTS
    Texts <- SmallTexts
    Paths = {"f", "g", "h"}
    Patches <- SmallPatches
    Trees <- SmallTrees
    Calls = {c1, c2, c3}
    NoCall = NoCall
    Room = 1
    MaxShells = 2
INVARIANTS
    AppliedAsWritten
    OwnExitCode
PROPERTIES
    ParseTerminates
    CallsReturn
CHECK_DEADLOCK FALSE
