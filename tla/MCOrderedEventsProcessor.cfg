CONSTANTS
  First = 2
  MaxSeqNo = 9
  CompactMin = 1
SPECIFICATION WindowSpec
INVARIANTS
  WindowTypeOK
  WindowHoldsEarlyArrivals
  FinishedNumbersAreExact
PROPERTY DeliversInOrder
