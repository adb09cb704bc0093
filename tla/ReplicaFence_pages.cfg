SPECIFICATION Spec
CONSTANTS
    Tx = {t1}
    Pod = {p1}
    Reader = {r1}
    Floor = 0
    Margin = 2
    Budget = 1
    Staleness = 2
    RingCapacity = 2
    MaxTime = 4
    MaxRows = 1
    MaxBeats = 3
    MaxFailures = 1
    MaxRewinds = 1
SYMMETRY MCSymmetry
CHECK_DEADLOCK FALSE
INVARIANTS NoHoles BoundedStaleness
