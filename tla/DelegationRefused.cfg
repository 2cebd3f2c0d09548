SPECIFICATION Spec
CONSTANTS
  Paths = {p1}
  NoPath = nopath
  NoCall = nocall
  MaxEvents = 2
INVARIANTS
  RefusedLandsNothing
CHECK_DEADLOCK FALSE
