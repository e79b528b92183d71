SPECIFICATION Spec
CONSTANTS
  Builds = {1, 2}
  NoRollback = {1}
  Labelled = {1, 2}
  NoImage = NoImage
  BootloaderRollback = TRUE
  ResumeOnWake = TRUE
  Causes = {1, 8}
  Faults = {"set_boot", "mark_valid", "stage", "update_end", "timer",
            "drop_cut", "unstage_cut", "unrecorded_cut"}
INVARIANT RunsSupervised
PROPERTY ReturnsAfterReset
