CONSTANTS
  WordBits = 32
  Flags = 12
  Words = 4
  Bitmap = 256
  KernelPages <- MCKernelPages
  Written <- MCWritten
  Programs <- MCPrograms
SPECIFICATION Spec
INVARIANTS TypeOK KernelInPlace FramesAccounted
PROPERTIES NeverMoved
