CONSTANTS
    Tasks = {t1}
    Instances = {i1}
    Loops = {"sync", "poll"}
    Calls = {"stop"}
    DueBatch = 1
    MissThreshold = 2
    NoTask = NoTask
    MaxRequests = 1
    MaxRefusals = 1
    MaxLostReplies = 0
    MaxTimeouts = 1
    MaxVanished = 1
    MaxCrashes = 1
SPECIFICATION FairSpec
PROPERTIES FailuresAreReadBack VanishedIsDetected DueTasksLeave
CONSTRAINT TwoFaults
CHECK_DEADLOCK FALSE
