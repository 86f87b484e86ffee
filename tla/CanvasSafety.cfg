CONSTANTS
    Kinds = {"table", "train", "edit", "old"}
    Ports <- MCPorts
    Report = "report"
    Modifications = {"edit"}
    FirstGraph <- MCFirst
    NewKinds = {"old"}
    DefaultIndex = 2
    MaxHistory = 2
    MaxNodes = 4
    MaxGestures = 4
    MaxPending = 2
    MaxGraphs = 2
SPECIFICATION Spec
INVARIANT EdgesSound InputsFollowEdges IdsUnique HistoryOfGraph ParamsMatchInputs PickIsComplete LayoutFollowsEdges
CHECK_DEADLOCK FALSE
