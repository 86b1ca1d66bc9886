SPECIFICATION Spec
CONSTANTS
  Suites <- MCSuites
  Dirs0 <- MCDirs
  Out = "out"
INVARIANTS ReturnsClean ReturnsEarned
PROPERTY Ends
CHECK_DEADLOCK FALSE
