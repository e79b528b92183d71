--------------------------- MODULE MCTrialInstall ---------------------------
(***************************************************************************)
(* TLC instances of TrialInstall; the constants are in the .cfg files.     *)
(***************************************************************************)
EXTENDS TrialInstall
=============================================================================
