SPECIFICATION Spec
CONSTANTS
  lee = lee
  ada = ada
  rob = rob
  eve = eve
  sam = sam
  Proposals = {p1, p2}
  NoId = NoId
  Goals = {eve, sam}
  NoGoal = NoGoal
  CaseOf <- MCCaseOf
  Needs <- MCNeeds
  Users = {lee, ada, rob}
  NoUser = NoUser
  Leads = {lee}
  Reviewers = {rob}
  Signers = {ada, rob}
  Findings = {"indeterminate"}
  Executors = {x1, x2}
  MaxDaily = 1
SYMMETRY ResponseSymmetry
INVARIANTS RevokedOnce LedgerIsTrue
PROPERTIES ReportStands StopReaches
CHECK_DEADLOCK FALSE
