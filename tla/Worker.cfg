SPECIFICATION FairSpec
CONSTANTS
  alert = alert
  probe = probe
  serve = serve
  once = once
  Jobs = {alert, probe}
  NoJob = NoJob
  Own = {alert}
  Workers = {serve, once}
  Service = serve
  NoOne = NoOne
  Gone = Gone
  Budget = 2
  MaxFaults = 1
  Faults = {"crash", "stall"}
INVARIANTS OneCaller CallsArePaid
PROPERTIES JobsSettle
CONSTRAINT OneJob
CHECK_DEADLOCK FALSE
