CONSTANTS
  c1 = c1
  c2 = c2
  Clients = {c1, c2}
  MaxEventId = 2
  MaxSyncs = 1
  MaxKeyChanges = 1
  Opened <- LogWithoutKey
SPECIFICATION Spec
CHECK_DEADLOCK FALSE
INVARIANT DonePromiseIsDurable
