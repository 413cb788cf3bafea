CONSTANTS
  Threads = {t1}
  NumFiles = 4
  ShouldRunTest <- MCShouldRunTest
  FileSizes <- MCFileSizes
  UnparsableSets <- MCUnparsableSets
  ThrowingSets <- MCThrowingSets
SPECIFICATION Spec
INVARIANTS AbortedPrefix
CHECK_DEADLOCK FALSE
