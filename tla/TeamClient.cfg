SPECIFICATION TeamFairSpec
CONSTANTS
  ann = ann
  ann2 = ann2
  ben = ben
  dan = dan
  MaxRuns = 1
  NTargets = 2
  Restarts = {FALSE}
  TeamBook = FALSE
  Approvals = {q1, q2}
  NoApproval = NoApproval
  MaxBoots = 2
  JobLimit = 2
  Kinds = {"lab"}
  Faults = {"save", "handoff", "crash"}
  Tokens = {ann, dan}
  NoToken = NoToken
  Oidc = {dan}
  MaxRows = 2
  MaxOutcomes = 2
  Mine = {ann}
  Others = {dan}
  MaxGen = 3
  Owner <- MCOwner
  Role <- MCRole
CONSTRAINT Scope
INVARIANTS JournalLoads CentralMatchesJournal EachApplyApproved
PROPERTIES AppliedOnAnswer RunsComeToRest ImplementsGoverned
CHECK_DEADLOCK FALSE
