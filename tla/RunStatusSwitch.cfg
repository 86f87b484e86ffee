CONSTANTS
    g = g
    h = h
    a = a
    b = b
    c = c
    Graphs <- MCGraphs
    Nodes <- MCNodes
    GraphOf <- MCGraphOf
    Edges <- MCEdges
    Choices <- MCOne
    Opened <- MCOpenedOther
    Prior <- MCPrior
    MissThreshold = 2
    MaxJobs = 3
    Kinds = {"switch"}
    MaxDisturbances = 2
SPECIFICATION FairSpec
PROPERTIES SwitchTellsNothing
CHECK_DEADLOCK FALSE
