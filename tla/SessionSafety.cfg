SPECIFICATION Spec
CONSTANTS
    Owners = {"alice", "carol"}
    Tabs = {t1, t2}
    Calls = {c1, c2}
    Account <- MCAccount
    Links <- MCLinks
    MaxSessions = 2
    MaxTokens = 3
    MaxEvents = 2
    MaxAging = 1
INVARIANTS AtMostOnce RevokedForAReason GaveUpForAReason OffersAreOpen RedirectsEnd
SYMMETRY Interchangeable
CHECK_DEADLOCK FALSE
