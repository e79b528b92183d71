SPECIFICATION Spec
CONSTANTS
  SketchCalls = {"begin", "end", "confirm", "poll"}
  AutoConfirm = TRUE
  NoTask = NoTask
  Unreadable = Unreadable
  MaxReports = 4
  SaveFails = TRUE
  MarkFails = TRUE
  Faults = {"crash", "end_holding"}
  MaxBoots = 2
INVARIANT TypeOK
INVARIANT TimeoutKept
INVARIANT NoReportLost
INVARIANT OldestFirst
INVARIANT RecordMatches
CHECK_DEADLOCK FALSE
