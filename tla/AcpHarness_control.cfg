SPECIFICATION Spec
CONSTANTS
    Channel = {c1, c2}
    Agent = {a1, a2}
    NoChannel = NoChannel
    MaxEvents = 3
    CreatedAt <- ReplayOrder
    DedupMode = "Drop"
    MaxPending = 2
    MaxBatch = 1
    MaxRetries = 1
    EventHandling = "OwnerInterrupt"
    Heartbeats = TRUE
    Timers = TRUE
    OwnerControls = {"cancel", "interrupt"}
    MaxFailures = 2
    MaxExpiries = 0
CHECK_DEADLOCK FALSE
INVARIANTS
    PoolConsistent
    DropNeverRetries
