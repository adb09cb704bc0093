SPECIFICATION Spec
CONSTANTS
    Channel = {c1}
    Agent = {a1, a2}
    NoChannel = NoChannel
    MaxEvents = 3
    CreatedAt <- ReplayOrder
    DedupMode = "Queue"
    MaxPending = 2
    MaxBatch = 2
    MaxRetries = 1
    EventHandling = "Steer"
    Heartbeats = FALSE
    Timers = TRUE
    OwnerControls = {}
    MaxFailures = 2
    MaxExpiries = 1
SYMMETRY MCSymmetry
CHECK_DEADLOCK FALSE
INVARIANTS
    TypeOK
    NoEventLost
    NeverRedelivered
    OneTurnPerChannel
    WithheldAwaitsAck
    QueueBounded
    BackoffRemembersAttempts
    OnePlace
    InFlightBacked
