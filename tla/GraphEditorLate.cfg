CONSTANTS
    Graphs = {1, 2}
    Initial = {1, 2}
    Edits = {e1, e2}
    Gestures = {"select", "quick"}
    MaxRequests = 2
    MaxMoves = 2
    MaxFailures = 0
SPECIFICATION Spec
PROPERTY LateAnswerKeepsDirty
SYMMETRY Symmetry
CHECK_DEADLOCK FALSE
