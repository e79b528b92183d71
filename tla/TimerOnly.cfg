SPECIFICATION Spec
CONSTANTS
  Builds = {1, 2}
  NoRollback = {}
  Labelled = {1}
  NoImage = NoImage
  BootloaderRollback = FALSE
  ResumeOnWake = FALSE
  Causes = {1, 8}
  Faults = {"stage", "update_end", "timer", "nvs_init"}
INVARIANT NeverUnsupervised
INVARIANT IdentityHonest
