SPECIFICATION Spec
CONSTANTS
  Frac = 16
  Base = 4
  Tick = 10
  MaxInput = 4500
INVARIANT Nearest
INVARIANT RoundTrip
INVARIANT Tight
CHECK_DEADLOCK FALSE
