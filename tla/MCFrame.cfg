CONSTANTS
  WordBits = 2
  ByteBits = 2
  FramesMax = 7
  Owners <- MCOwners
  Requests <- Several
  o1 = o1  o2 = o2  o3 = o3  o4 = o4
SPECIFICATION FairSpec
INVARIANTS PanicOnlyWhenNoRun
PROPERTIES ReturnsWordAndLastBit AllocEnds SinglesAreExclusive
