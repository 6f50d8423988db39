CONSTANTS
  BufLen = 4
  MaxAhead = 3
  MaxKeys = 6
  MaxRead = 2
SPECIFICATION FairSpec
INVARIANTS StackBelowPresses NoLostWakeup PatientIsServed
PROPERTIES KeyWakesShell
CHECK_DEADLOCK FALSE
