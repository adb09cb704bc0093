SPECIFICATION Spec
CONSTANTS
    Channel = {c1, c2}
    Agent = {a1}
    NoChannel = NoChannel
    MaxEvents = 3
    CreatedAt <- ReplayOrder
    DedupMode = "Queue"
    MaxPending = 2
    MaxBatch = 2
    MaxRetries = 1
    EventHandling = "Interrupt"
    Heartbeats = FALSE
    Timers = TRUE
    OwnerControls = {}
    MaxFailures = 1
    MaxExpiries = 0
CHECK_DEADLOCK FALSE
INVARIANTS
    CancelledEventsSurvive
