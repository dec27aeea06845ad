SPECIFICATION AllSpec
CONSTANTS
    Boot = {1, 2}
    Called = {1}
    c1 = c1
    Client = {c1}
    Kind = {"snapshot", "follow", "process", "mcp"}
    MaxObservers = 1
    MaxEvents = 1
    r1 = r1
    out = out
    err = err
INVARIANTS
    BootsOrdered
    FollowersInformed
    LogIsWhole
    GapFree
    WindowsConsistent
    LeavesNothing
SYMMETRY Symmetric
CHECK_DEADLOCK FALSE
