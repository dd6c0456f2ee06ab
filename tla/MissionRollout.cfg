SPECIFICATION MissionFairSpec
CONSTANTS
  Targets = {"p", "q"}
  Pilot = "p"
  Steps = {1, 2}
  Kinds <- MCKinds
  MaxAttempts = 4
  MissionFaults = {"save", "full"}
INVARIANTS FindingIsOfLatest CommandsAreOnRecord
PROPERTIES StepsSettle
CHECK_DEADLOCK FALSE
