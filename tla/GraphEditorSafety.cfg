CONSTANTS
    Graphs = {1, 2, 3}
    Initial = {1, 2}
    Edits = {e1, e2}
    Gestures = {"select", "link", "save", "create", "copy", "delete", "advanced", "quick", "run"}
    MaxRequests = 2
    MaxMoves = 2
    MaxFailures = 1
SPECIFICATION Spec
INVARIANT SavedWasStored EditsAccounted SavedIsStored GraphsStayApart RunsUseCanvas
PROPERTY RefreshKeepsUnsaved
SYMMETRY Symmetry
CHECK_DEADLOCK FALSE
