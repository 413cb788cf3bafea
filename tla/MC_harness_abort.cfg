CONSTANTS
  Threads = {t1}
  NumFiles = 4
  ShouldRunTest <- MCShouldRunTest
  FileSizes <- OneSizing
  UnparsableSets <- NoFailures
  ThrowingSets <- FirstTestThrows
SPECIFICATION Spec
PROPERTIES Termination
CHECK_DEADLOCK FALSE
