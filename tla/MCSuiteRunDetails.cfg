SPECIFICATION Spec
CONSTANTS
  Suites <- Lazy
  Dirs0 <- MCDirs
  Out = "out"
INVARIANT DetailsFound
CHECK_DEADLOCK FALSE
