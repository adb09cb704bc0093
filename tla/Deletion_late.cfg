SPECIFICATION Spec
CONSTANTS
    Request = {r1}
    Executor = {e1}
    Writer = {w1}
    Key = {k1}
    NoExecutor = NoExecutor
    NoRequest = NoRequest
    NoKey = NoKey
    MaxRetries = 2
    MaxUpsets = 1
CHECK_DEADLOCK FALSE
INVARIANT NothingAfterFreeze
