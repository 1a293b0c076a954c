SPECIFICATION Spec
CHECK_DEADLOCK FALSE
CONSTANT MaxReaders = 2
INVARIANTS
  ExitLeavesNoCore
PROPERTIES
  StoppedReaderEnds
  TermEndsDaemon
