CONSTANTS
  OtherLines = {6, 12}
SPECIFICATION IrqFairSpec
INVARIANTS IrqTypeOK NoStray InServiceIsStacked
PROPERTIES KeyHandled
