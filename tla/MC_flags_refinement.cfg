CONSTANTS
  ByteBits = 4
  AddrBits = 9
  MemSize = 512
  NoFault = NoFault
  AlignFault = AlignFault
  BoundsFault = BoundsFault
  IllegalFault = IllegalFault
  MaxSteps = 3
  Instrs <- FlagInstrs
  InitRegs <- MCInitRegs
  InitMems <- MCInitMems
SPECIFICATION Spec
INVARIANTS ConditionsMatchManual
PROPERTIES FlagRefinement
CHECK_DEADLOCK FALSE
