CONSTANTS
  BufLen = 4
  MaxAhead = 3
  MaxKeys = 4
  MaxRead = 2
SPECIFICATION Spec
INVARIANT DeliveredInOrder
CHECK_DEADLOCK FALSE
