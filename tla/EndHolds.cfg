SPECIFICATION Spec
CONSTANTS
  SketchCalls = {"begin", "end", "poll"}
  AutoConfirm = TRUE
  NoTask = NoTask
  Unreadable = Unreadable
  MaxReports = 3
  SaveFails = FALSE
  MarkFails = FALSE
  Faults = {"end_holding"}
  MaxBoots = 1
