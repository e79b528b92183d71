SPECIFICATION Spec
CONSTANTS
  Builds = {1}
  NoRollback = {1}
  Labelled = {1}
  NoImage = NoImage
  BootloaderRollback = TRUE
  ResumeOnWake = TRUE
  Causes = {1}
  Faults = {}
PROPERTY AcceptedByTrialOnly
