SPECIFICATION Spec
CONSTANTS
    p1 = p1
    p2 = p2
    Pod = {p1, p2}
    Workflow = {w1}
    Skew <- MCSkew
    Window = 2
    Period = 4
    Interval = 3
    MaxLag = 1
    MaxTime = 13
    MaxEvents = 2
    MaxUpsets = 1
CHECK_DEADLOCK FALSE
INVARIANTS OneRunPerInstant ClaimsAreKept RateBounded NeverSkipsTwo
PROPERTIES DepartedStartNothing
