CONSTANTS
  ByteBits = 4
  AddrBits = 9
  MemSize = 512
  NoFault = NoFault
  AlignFault = AlignFault
  BoundsFault = BoundsFault
  IllegalFault = IllegalFault
  MaxSteps = 3
  Instrs <- DataInstrs
  InitRegs <- MCInitRegs
  InitMems <- MCInitMems
SPECIFICATION Spec
INVARIANTS StackAligned
PROPERTIES DataRefinement FaultConfined
CHECK_DEADLOCK FALSE
