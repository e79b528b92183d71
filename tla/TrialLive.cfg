SPECIFICATION FairSpec
CONSTANTS
  Builds = {1, 2}
  NoRollback = {2}
  Labelled = {1}
  NoImage = NoImage
  BootloaderRollback = TRUE
  ResumeOnWake = TRUE
  Causes = {1, 8}
  Faults = {"timer", "nvs_init"}
PROPERTY RecordResolved
PROPERTY VerdictReached
