CONSTANTS
    Tasks = {t1}
    Instances = {i1, i2}
    Loops = {"poll"}
    Calls = {"stop", "rerunAll", "rerunFailed", "offline"}
    DueBatch = 1
    MissThreshold = 1
    NoTask = NoTask
    MaxRequests = 1
    MaxRefusals = 1
    MaxLostReplies = 1
    MaxTimeouts = 0
    MaxVanished = 1
    MaxCrashes = 1
SPECIFICATION Spec
SYMMETRY Symmetry
INVARIANT RunningIsAccounted FiredOnce
CHECK_DEADLOCK FALSE
CONSTRAINT FewFaults
