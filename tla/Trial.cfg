SPECIFICATION Spec
CONSTANTS
  Builds = {1, 2}
  NoRollback = {}
  Labelled = {1}
  NoImage = NoImage
  BootloaderRollback = TRUE
  ResumeOnWake = TRUE
  Causes = {1, 8}
  Faults = {"stage", "update_end", "timer", "nvs_init"}
INVARIANT TypeOK
INVARIANT NeverUnsupervised
INVARIANT RunsSupervised
INVARIANT BootSlotComplete
INVARIANT IdentityHonest
INVARIANT ConfirmedIsRunning
INVARIANT RolledBackIsGone
INVARIANT OneVerdict
INVARIANT AbandonedNeverRan
PROPERTY AbstractSpec
