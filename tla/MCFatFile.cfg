CONSTANTS
  SectorLen = 4
  ClusterLen = 8
  Clusters <- MCClusters
  Chains <- MCChains
  FAT16_EOF = 6
  EndMarks = {7}
  MaxEntry = 7
  Sizes = {0, 1, 7, 8, 9, 15, 16, 17, 23, 24}
  MaxVisited = 5
SPECIFICATION FairSpec
INVARIANTS ReadIsExact StaysInFile
PROPERTIES ReadEnds
CHECK_DEADLOCK FALSE
