SPECIFICATION Spec
CONSTANTS
    Editors = {e1, e2}
    Paths = {p1, p2}
    Empty = Empty
    Texts = {a}
    Absent = Absent
    MaxTools = 2
    MaxChanges = 1
    MaxSeconds = 1
    Requests = {q1, q2}
    Clients = {"anthropic", "openai"}
    MaxRows = 5
SYMMETRY Interchangeable
INVARIANTS
    
    ConversationIsSound
PROPERTY NoBlindEdit
CHECK_DEADLOCK FALSE
