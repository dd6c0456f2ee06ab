SPECIFICATION HistorySpec
CONSTANTS
  Windows = {w1, w2}
  w1 = w1
  w2 = w2
  c1 = c1
  c2 = c2
  c3 = c3
  c4 = c4
  Changes = {c1, c2, c3, c4}
  Contents = {"old", "new"}
  Original = "old"
  Gone = "gone"
  Torn = "torn"
  Kinds = {TRUE, FALSE}
  EntryLimit = 2
  MaxTemps = 1
  MaxForeign = 1
  HistoryFaults = {"save", "kill", "late"}
INVARIANTS OverrunIsBounded UndoIsKept RestoredIsUndone
PROPERTIES LosesNothing
SYMMETRY AnyOrder
CHECK_DEADLOCK FALSE
CONSTRAINT Scope
