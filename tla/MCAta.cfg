CONSTANTS
  ByteBits = 1
  HeadBits = 1
  LbaBits = 5
  SectorWords = 2
  MaxSize = 2
  Offsets <- MCOffsets
SPECIFICATION FairSpec
INVARIANTS MasterIsDisk DeliversSectors
PROPERTIES CallsEnd
