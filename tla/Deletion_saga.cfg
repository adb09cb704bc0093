SPECIFICATION FairSpec
CONSTANTS
    Request = {r1}
    Executor = {e1, e2}
    Writer = {w1}
    Key = {k1}
    NoExecutor = NoExecutor
    NoRequest = NoRequest
    NoKey = NoKey
    MaxRetries = 2
    MaxUpsets = 2
CHECK_DEADLOCK FALSE
INVARIANTS
    ArchiveRestored
    ManifestExact
    FenceBacked
PROPERTIES
    Erasure
    EveryRequestSettles
