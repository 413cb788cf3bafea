CONSTANTS
  Threads = {t1}
  NumFiles = 4
  ShouldRunTest <- MCShouldRunTest
  FileSizes <- MCFileSizes
  UnparsableSets <- NoFailures
  ThrowingSets <- NoFailures
SPECIFICATION Spec
INVARIANTS WorkComplete
PROPERTIES Termination
CHECK_DEADLOCK FALSE
