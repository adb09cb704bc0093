SPECIFICATION Spec
CONSTANTS
  c1 = c1
  Channel = {c1}
  MaxEvents = 2
  MaxStamp = 3
  Skew = 1
  Drift = 1
  InboxCap = 1
  SeenLimit = 4
  MaxFaults = 1
  MaxAsks = 2
CHECK_DEADLOCK FALSE
INVARIANTS NothingLost
