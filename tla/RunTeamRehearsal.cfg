SPECIFICATION Spec
CONSTANTS
  MaxRuns = 1
  NTargets = 1
  Restarts = {FALSE}
  TeamBook = TRUE
  Approvals = {}
  NoApproval = NoApproval
  MaxBoots = 1
  JobLimit = 2
  Kinds = {"rehearsal"}
  Faults = {}
PROPERTIES RehearsalsNeedNoApproval
CHECK_DEADLOCK FALSE
