SPECIFICATION Spec
CONSTANTS
  MaxRuns = 2
  NTargets = 2
  Restarts = {TRUE, FALSE}
  TeamBook = FALSE
  Approvals = {}
  NoApproval = NoApproval
  MaxBoots = 2
  JobLimit = 2
  Kinds = {"rehearsal", "production", "lab"}
  Faults = {"save", "load", "profile", "handoff", "void", "crash"}
CONSTRAINT Scope
INVARIANTS JournalledFirst OneOpenRun
PROPERTIES ImplementsLedger LatchedErrorFreezes CurrentEvidence
CHECK_DEADLOCK FALSE
