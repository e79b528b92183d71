SPECIFICATION Spec
CONSTANTS
  SketchCalls = {"begin", "end"}
  AutoConfirm = TRUE
  NoTask = NoTask
  Unreadable = Unreadable
  MaxReports = 3
  SaveFails = FALSE
  MarkFails = FALSE
  Faults = {"end_confirming"}
  MaxBoots = 1
INVARIANT TimeoutKept
CHECK_DEADLOCK FALSE
