CONSTANTS
    Peers = {p1}
    Rows = {r1, r2}
    Workers = {w1, w2}
    NoPeer = NoPeer
    MaxRetries = 2
    SinkCap = 2
    EarlyWrites = FALSE
    MaxChanges = 3
    MaxPostFaults = 2
    MaxDiskFaults = 0
    MaxRollbacks = 0
    MaxStops = 1
    MaxCrashes = 1
SPECIFICATION Spec
SYMMETRY Symmetry
INVARIANT TypeOK
INVARIANT NoSilentLoss
INVARIANT GivenUpOnlyAfterRetries
INVARIANT StopKeepsEmitted
INVARIANT OneDrainPerPeer
PROPERTY LeavesQueueForAReason
PROPERTY InOrderWithoutFailures
PROPERTY Promised
CHECK_DEADLOCK FALSE
