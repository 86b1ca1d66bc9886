SPECIFICATION Spec
CONSTANTS
  None = None
  Lines <- AllLines
  Library <- MCLibrary
  Vars = {"x", "ca"}
  Funs = {"f", "g"}
  Level <- MCLevel
  MaxLines <- MCMaxLines
  ForloopMax = 12
INVARIANTS TypeOK Faithful OwnPosition
PROPERTIES BlocksFixed Returns
CHECK_DEADLOCK FALSE
