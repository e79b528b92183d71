SPECIFICATION Spec
CONSTANTS
  SketchCalls = {"begin", "confirm"}
  AutoConfirm = TRUE
  NoTask = NoTask
  Unreadable = Unreadable
  MaxReports = 3
  SaveFails = FALSE
  MarkFails = TRUE
  Faults = {}
  MaxBoots = 1
INVARIANT OneEnds
CHECK_DEADLOCK FALSE
