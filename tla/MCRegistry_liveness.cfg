SPECIFICATION FairSpec
CONSTANTS
    Id = {u1, u2}
    Name = {n1}
    Pid = {p1}
    Caller = {c1}
    Observable = {u1}
    NoId = NoId
    NoPid = NoPid
    u1 = u1
    u2 = u2
    n1 = n1
    p1 = p1
    c1 = c1
    MaxProcesses = 1
    MaxTracked = 1
    MaxBoots = 1
    MaxFaults = 0
PROPERTIES
    EverythingSettles
    ObservedLogStays
CHECK_DEADLOCK FALSE
