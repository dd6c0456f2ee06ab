SPECIFICATION Spec
CONSTANTS
  Entries = {e1, e2, e3}
  NoEntry = NoEntry
  Deliveries = {d1}
  NoDelivery = NoDelivery
  Configs = {c1, c2}
  NoConfig = NoConfig
  Workers = {w1, w2}
  MaxEntries = 3
  Faults = {"suspend", "late", "misreport"}
CONSTRAINT OneFault
SYMMETRY OutboxSymmetry
INVARIANTS OneLiveAttempt OutboxMatchesDestination
PROPERTIES SettledIsFinal SentUnderClaim
CHECK_DEADLOCK FALSE
