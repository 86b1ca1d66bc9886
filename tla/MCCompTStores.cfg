SPECIFICATION Spec
CONSTANTS
  Frac = 16
  Base = 4
  Tick = 10
  MaxInput = 4500
CHECK_DEADLOCK FALSE
INVARIANT StoresInput
