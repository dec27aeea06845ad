SPECIFICATION Spec
CONSTANTS
    Turn = {t1, t2}
    Session = {s1}
    t1 = t1
    t2 = t2
    s1 = s1
    None = None
    MaxGenerations = 2
    MaxUpdates = 1
INVARIANTS
    TurnsAccounted
PROPERTIES
    TurnsSettle
CHECK_DEADLOCK FALSE
