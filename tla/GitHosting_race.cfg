SPECIFICATION HostSpec
CONSTANTS
    c1 = c1
    main = main
    NoCommit = NoCommit
    Refs = {main, bad}
    SafeRefs = {main}
    Commits = {c1, c2}
    Pushers = {p1, p2, p3}
    Announcers = {a1, a2}
    Writers = {p1, p2, p3, a1, a2}
    Reach <- MCReach
    BranchPref <- MCBranchPref
    CompactAt = 1
    MaxPacks = 2
    MaxPackBytes = 3
    MaxRepoBytes = 4
SYMMETRY MCSymmetry
CONSTRAINT MCBounds
INVARIANT TypeOK
INVARIANT LinearHistory
INVARIANT SuccessIsAnnounced
INVARIANT AlwaysClonable
INVARIANT HydratesWithinLimits
PROPERTY AtomicRefs
