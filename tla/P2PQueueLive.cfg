CONSTANTS
    Peers = {p1}
    Rows = {r1}
    Workers = {w1}
    NoPeer = NoPeer
    MaxRetries = 2
    SinkCap = 2
    EarlyWrites = FALSE
    MaxChanges = 3
    MaxPostFaults = 2
    MaxDiskFaults = 1
    MaxRollbacks = 1
    MaxStops = 1
    MaxCrashes = 0
SPECIFICATION FairSpec
PROPERTY QueueDrains
PROPERTY Converges
CHECK_DEADLOCK FALSE
