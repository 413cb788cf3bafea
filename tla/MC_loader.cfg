CONSTANTS
  ByteBits = 4
  AddrBits = 4
  MemSize = 16
  NoFault = NoFault
  AlignFault = AlignFault
  BoundsFault = BoundsFault
  ElfFiles <- MCElfFiles
  AllocatedImages <- MCAllocatedImages
SPECIFICATION Spec
INVARIANTS LoadedImage
CHECK_DEADLOCK FALSE
