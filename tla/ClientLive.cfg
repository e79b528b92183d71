SPECIFICATION FairSpec
CONSTANTS
  SketchCalls = {"begin", "confirm", "reboot"}
  AutoConfirm = TRUE
  NoTask = NoTask
  Unreadable = Unreadable
  MaxReports = 3
  SaveFails = FALSE
  MarkFails = FALSE
  Faults = {}
  MaxBoots = 1
INVARIANT OneEnds
INVARIANT ConfirmedOrRolledBack
PROPERTY TrialEnds
PROPERTY ReportDelivered
