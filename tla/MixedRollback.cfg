SPECIFICATION Spec
CONSTANTS
  Builds = {1, 2}
  NoRollback = {1}
  Labelled = {1, 2}
  NoImage = NoImage
  BootloaderRollback = TRUE
  ResumeOnWake = FALSE
  Causes = {1, 8}
  Faults = {"stage", "update_end", "timer", "nvs_init"}
INVARIANT NeverUnsupervised
INVARIANT ConfirmedIsRunning
INVARIANT IdentityHonest
