SPECIFICATION Spec
CONSTANTS
  MaxTime = 3
  MaxOps = 3
  MaxProofs = 2
  MaxPending = 2
  MaxRead = 2
  Faults = {"journal", "marker", "write", "crash", "lapse"}
CONSTRAINT Scope
INVARIANTS LoadsAreSafe AllowedIsClean
CHECK_DEADLOCK FALSE
