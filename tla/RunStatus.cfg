CONSTANTS
    g = g
    h = h
    a = a
    b = b
    c = c
    Graphs <- MCGraphs
    Nodes <- MCNodes
    GraphOf <- MCGraphOf
    Edges <- MCEdges
    Choices <- MCOne
    Opened <- MCOpened
    Prior <- MCPrior
    MissThreshold = 2
    MaxJobs = 3
    Kinds = {"event", "stop", "fault", "vanish", "crash", "switch"}
    MaxDisturbances = 1
SPECIFICATION FairSpec
INVARIANTS FinishedJobsIdle ResultsRegistered
PROPERTIES StoppedForAReason NoEarlierRound JobsSettle PollingEnds
CHECK_DEADLOCK FALSE
