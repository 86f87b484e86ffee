SPECIFICATION Spec
CONSTANTS
    Owners = {"alice", "carol"}
    Tabs = {t1}
    Calls = {c1}
    Account <- MCAccount
    Links <- MCLinks
    MaxSessions = 1
    MaxTokens = 1
    MaxEvents = 1
    MaxAging = 0
PROPERTY OverIsNoticed
CHECK_DEADLOCK FALSE
