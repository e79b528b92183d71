---------------------------- MODULE TrialRecord ----------------------------
(***************************************************************************)
(* What a saved trial record means at boot: the pure functions of          *)
(* SimpleOTATrial.h.  A partition address is a natural number, 0 standing  *)
(* for "missing" (a key that is not in NVS) or "unknown".                  *)
(*                                                                         *)
(* A definition marked "mutant" is a broken form of the one after it, used *)
(* to see that the properties notice; nothing else refers to it.           *)
(***************************************************************************)
EXTENDS Naturals

\* Values of sota_staged.
StagedStarted  == 1
StagedSnapshot == 2

Outcomes == {"none", "trial", "rolled_back", "report_pending", "waiting",
             "abandoned", "incomplete", "slept_in_trial"}

\* f has the fields of SotaBootFacts.

\* apply() writes sota_staged first and sota_trial last.
ForgetsStaged(f) == "none"                                  \* mutant
OutcomeWithoutTrial(f) == IF f.staged # 0 THEN "abandoned" ELSE "none"

\* Deep sleep ends a trial.
OutcomeOnNew(f) == IF f.deepSleepWake THEN "slept_in_trial" ELSE "trial"

\* Back on, or still on, the image the update replaced.
Switched(f) == f.bootPart # 0 /\ f.bootPart # f.runningPart
NeverWaits(f) == IF f.staged # 0 THEN "abandoned" ELSE "rolled_back"  \* mutant
NeverReports(f) == IF f.deepSleepWake /\ Switched(f) THEN "waiting"   \* mutant
                   ELSE "abandoned"
OutcomeOnPrevious(f) ==
  IF f.deepSleepWake /\ Switched(f) THEN "waiting"
  ELSE IF f.staged # 0 THEN "abandoned"
  ELSE "rolled_back"

\* One line per return of the function.
ClassifyBoot(f) ==
  IF f.trial = 0 THEN OutcomeWithoutTrial(f)
  ELSE IF f.trial = 2 THEN "report_pending"
  ELSE IF f.runningPart = 0 \/ f.prevPart = 0 THEN "incomplete"
  ELSE IF f.runningPart # f.prevPart THEN OutcomeOnNew(f)
  ELSE OutcomeOnPrevious(f)

\* The snapshot of the outgoing identity is complete, so it can be put back.
AbandonRestoresIdentity(staged) == staged >= StagedSnapshot

\* verifyRollbackLater(): keep a pending image only when it is a trial.
HoldNothing(imagePending, outcome) == FALSE                 \* mutant
HoldPendingImage(imagePending, outcome) ==
  imagePending /\ outcome \in {"trial", "slept_in_trial"}

\* esp_reset_reason_t values used for rollback reasons, and the reason of the
\* confirm timer.  The text sent to the server is one to one with these numbers.
RstPowerOn   == 1
RstSw        == 3
RstDeepSleep == 8
NamedResets  == {1, 4, 5, 6, 7, 8, 9}
ConfirmTimedOut == 100

\* Reason sent with rolled_back; a software or unknown reset is just "reset".
RollbackReason(cause) == IF cause \in NamedResets THEN cause ELSE RstSw
=============================================================================
