CONSTANTS
  ByteBits = 4
  AddrBits = 9
  AddrSet <- MCAddrSet
  ByteVals <- MCByteVals
  Prefetch <- MCPrefetch
  Tests <- MCTests
  MemWrites <- MCMemWrites
  RegWrites <- MCRegWrites
SPECIFICATION Spec
INVARIANTS RamVerdictExact RegsVerdictExact
