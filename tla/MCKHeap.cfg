CONSTANTS
  HeaderSize = 4
  PtrScale = 4
  KrnlEnd = 8
  MapEnd = 96
  Sizes <- MCSizes
SPECIFICATION FairSpec
INVARIANTS ListInOrder BytesAccounted
PROPERTIES GrowsOnlyWhenFull CallsEnd ImplementsAllocator
