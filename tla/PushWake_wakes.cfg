SPECIFICATION FairSpec
CONSTANTS
    Event = {e1}
    Endpoint = {n1}
    Matcher = {m1}
    Courier = {c1, c2}
    Nobody = Nobody
    MaxGeneration = 2
    MaxMatchAttempts = 2
    MaxAttempts = 2
    MaxFaults = 2
CHECK_DEADLOCK FALSE
INVARIANTS NoWakeLost NeverRungTwice
PROPERTIES EverySettles
