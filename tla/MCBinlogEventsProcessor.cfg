SPECIFICATION Spec
CONSTANTS
  Sizes = {1, 2}
  CompactMin = 3
  MaxEventId = 7
CHECK_DEADLOCK FALSE
INVARIANTS IndexIsExact CountersAreExact NothingIsRefused
