SPECIFICATION Spec
CONSTANTS
  Builds = {1}
  NoRollback = {}
  Labelled = {1}
  NoImage = NoImage
  BootloaderRollback = TRUE
  ResumeOnWake = TRUE
  Causes = {1}
  Faults = {"drop_cut"}
INVARIANT ConfirmedIsRunning
