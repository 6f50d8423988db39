CONSTANTS
  Disks <- MCDisks
  Root = "root"
  Letters <- MCLetters
  Paths <- MCPaths
  Seen = 2
  MaxLookups = 2
SPECIFICATION LookupSpec
INVARIANTS LookupTypeOK Resolves
PROPERTIES Ownership ListsUsed
CHECK_DEADLOCK FALSE
