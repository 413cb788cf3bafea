CONSTANTS
  ByteBits = 4
  AddrBits = 9
  MemSize = 512
  NoFault = NoFault
  AlignFault = AlignFault
  BoundsFault = BoundsFault
  IllegalFault = IllegalFault
  MaxSteps = 1
  Instrs <- LongSubInstrs
  InitRegs <- MCInitRegs
  InitMems <- MCInitMems
SPECIFICATION Spec
PROPERTIES FlagRefinement
CHECK_DEADLOCK FALSE
