CONSTANTS
  Chars <- MCChars
  Paths <- MCPaths
  MountPaths <- MCMountPaths
  DeviceNames <- MCDeviceNames
  MaxMounts = 3
  MaxHandles = 2
SPECIFICATION FairSpec
INVARIANTS DeepestMount BlocksAreHandles
PROPERTIES SearchEnds
CHECK_DEADLOCK FALSE
