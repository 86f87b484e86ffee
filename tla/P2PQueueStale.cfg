CONSTANTS
    Peers = {p1}
    Rows = {r1}
    Workers = {w1, w2}
    NoPeer = NoPeer
    MaxRetries = 2
    SinkCap = 2
    EarlyWrites = FALSE
    MaxChanges = 3
    MaxPostFaults = 1
    MaxDiskFaults = 0
    MaxRollbacks = 0
    MaxStops = 0
    MaxCrashes = 0
SPECIFICATION Spec
SYMMETRY Symmetry
INVARIANT SupersededUpdatesAreGone
CHECK_DEADLOCK FALSE
