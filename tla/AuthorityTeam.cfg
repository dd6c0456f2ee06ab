SPECIFICATION Spec
CONSTANTS
  ann = ann
  ann2 = ann2
  dan = dan
  vic = vic
  Tokens = {ann, ann2, dan, vic}
  NoToken = NoToken
  Owner <- MCOwner
  Role <- Roles
  Oidc = {dan}
  Requests = {q1, q2}
  NoRequest = NoRequest
  Bindings <- TwoRuns
  EventIds = {1, 2}
  Results = {"Passed"}
  MaxRows = 2
  MaxOutcomes = 1
SYMMETRY RequestSymmetry
INVARIANTS TwoPeople AuditMatches OutcomeBelongs
PROPERTIES DecisionsAreFinal NoLateConsume
CHECK_DEADLOCK FALSE
