SPECIFICATION Spec
CONSTANTS
  Builds = {1, 2}
  NoRollback = {}
  Labelled = {1}
  NoImage = NoImage
  BootloaderRollback = TRUE
  ResumeOnWake = TRUE
  Causes = {1}
  Faults = {"restored_cut"}
INVARIANT NeverUnsupervised
