------------------------------ MODULE TrialEnd ------------------------------
(***************************************************************************)
(* The end of a trial: the confirm timer and confirmRunning(), called from *)
(* any number of tasks, between their critical sections.                   *)
(*                                                                         *)
(* Only claimTrialEnd() and the two sections after mark-valid take         *)
(* _trialMux; everything else a task does is a step of its own.  The timer *)
(* callback runs in the timer service task.                                *)
(***************************************************************************)
EXTENDS Naturals, FiniteSets

CONSTANTS
  Tasks,      \* tasks that may call confirmRunning()
  MarkFails,  \* the bootloader may fail to record the image as good
  EndInside   \* end() may delete a task that is inside confirmRunning()

\* A failed mark leaves one caller of confirmRunning() only.
OneCaller == MarkFails => \A s, t \in Tasks : s = t

VARIABLES
  inTrial,        \* _inTrial
  trialEnding,    \* _trialEnding
  timeoutMissed,  \* _timeoutMissed
  timer,          \* the confirm timer: "armed", "expired" (callback entered),
                  \* "rollback" (callback in performRollback()), "idle"
  confirm,        \* confirm[t]: where task t is in confirmRunning()
  verdicts        \* history: what was done with the image in this boot

vars == <<inTrial, trialEnding, timeoutMissed, timer, confirm, verdicts>>
mux  == <<inTrial, trialEnding, timeoutMissed>>

\* confirmRunning(), in order: outside, sotaMarkRunningValid(), the section
\* after a failed mark, the section after a good one, stopping the timer,
\* queueing "confirmed" and dropping the record; or performRollback().
Places == {"out", "mark", "release", "end", "stop", "report", "rollback"}

\* Restarting: performRollback() ends in esp_restart().
Down == "rolled_back" \in verdicts

Goto(t, place) == confirm' = [confirm EXCEPT ![t] = place]

-----------------------------------------------------------------------------
\* A boot: startTrial() arms the timer, or there is no trial.
StartsIn(trial) ==
  /\ inTrial = trial /\ trialEnding = FALSE /\ timeoutMissed = FALSE
  /\ timer = IF trial THEN "armed" ELSE "idle"
  /\ confirm = [t \in Tasks |-> "out"]
  /\ verdicts = {}

Init == \E trial \in BOOLEAN : StartsIn(trial)

\* claimTrialEnd(): the first to get here ends the trial.
ClaimsAgain == inTrial                                      \* mutant
Claims == inTrial /\ ~trialEnding

\* confirmRunning() of a task.  One that does not claim returns at once.
Claim(t) ==
  /\ ~Down /\ confirm[t] = "out" /\ Claims
  /\ trialEnding' = TRUE
  /\ Goto(t, "mark")
  /\ UNCHANGED <<inTrial, timeoutMissed, timer, verdicts>>

MarkValid(t) ==
  /\ ~Down /\ confirm[t] = "mark"
  /\ \/ Goto(t, "end")
     \/ MarkFails /\ Goto(t, "release")
  /\ UNCHANGED <<mux, timer, verdicts>>

\* The bootloader could not record it: the trial goes on, unless it timed out
\* meanwhile.
ReleaseForgets(t) ==                                        \* mutant
  /\ ~Down /\ confirm[t] = "release"
  /\ trialEnding' = FALSE /\ timeoutMissed' = FALSE
  /\ Goto(t, "out")
  /\ UNCHANGED <<inTrial, timer, verdicts>>
Release(t) ==
  /\ ~Down /\ confirm[t] = "release"
  /\ trialEnding' = FALSE /\ timeoutMissed' = FALSE
  /\ Goto(t, IF timeoutMissed THEN "rollback" ELSE "out")
  /\ UNCHANGED <<inTrial, timer, verdicts>>

EndTrial(t) ==
  /\ ~Down /\ confirm[t] = "end"
  /\ inTrial' = FALSE /\ trialEnding' = FALSE /\ timeoutMissed' = FALSE
  /\ Goto(t, "stop")
  /\ UNCHANGED <<timer, verdicts>>

\* xTimerStop() waits for nothing: with the command queue full the timer
\* still fires.
StopTimer(t) ==
  /\ ~Down /\ confirm[t] = "stop"
  /\ timer' \in {timer, IF timer = "armed" THEN "idle" ELSE timer}
  /\ Goto(t, "report")
  /\ UNCHANGED <<mux, verdicts>>

Report(t) ==
  /\ ~Down /\ confirm[t] = "report"
  /\ verdicts' = verdicts \cup {"confirmed"}
  /\ Goto(t, "out")
  /\ UNCHANGED <<mux, timer>>

\* performRollback() called by confirmRunning().
TaskRollback(t) ==
  /\ ~Down /\ confirm[t] = "rollback"
  /\ verdicts' = verdicts \cup {"rolled_back"}
  /\ UNCHANGED <<mux, timer, confirm>>

-----------------------------------------------------------------------------
\* The confirm timer.

Expire ==
  /\ ~Down /\ timer = "armed"
  /\ timer' = "expired"
  /\ UNCHANGED <<mux, confirm, verdicts>>

\* _confirmTimerCb(): a timer that loses to a confirm in progress leaves
\* _timeoutMissed for it.
TimerOnlyClaims ==                                          \* mutant
  /\ ~Down /\ timer = "expired"
  /\ trialEnding' = (trialEnding \/ inTrial)
  /\ timeoutMissed' = (timeoutMissed \/ (inTrial /\ ~Claims))
  /\ timer' = "idle"
  /\ UNCHANGED <<inTrial, confirm, verdicts>>
TimerSeesTrial ==                                           \* mutant
  /\ ~Down /\ timer = "expired"
  /\ trialEnding' = (trialEnding \/ inTrial)
  /\ timeoutMissed' = (timeoutMissed \/ (inTrial /\ ~Claims))
  /\ timer' = IF inTrial THEN "rollback" ELSE "idle"
  /\ UNCHANGED <<inTrial, confirm, verdicts>>
TimerClaim ==
  /\ ~Down /\ timer = "expired"
  /\ trialEnding' = (trialEnding \/ inTrial)
  /\ timeoutMissed' = (timeoutMissed \/ (inTrial /\ ~Claims))
  /\ timer' = IF Claims THEN "rollback" ELSE "idle"
  /\ UNCHANGED <<inTrial, confirm, verdicts>>

TimerRollback ==
  /\ ~Down /\ timer = "rollback"
  /\ verdicts' = verdicts \cup {"rolled_back"}
  /\ UNCHANGED <<mux, timer, confirm>>

\* end() deletes the task wherever it is; the claim it holds stays.
Delete(t) ==
  /\ EndInside /\ ~Down /\ confirm[t] # "out"
  /\ Goto(t, "out")
  /\ UNCHANGED <<mux, timer, verdicts>>

\* Any reset: the next boot is in a trial or not, as the record says.
Boot(trial) ==
  /\ inTrial' = trial /\ trialEnding' = FALSE /\ timeoutMissed' = FALSE
  /\ timer' = IF trial THEN "armed" ELSE "idle"
  /\ confirm' = [t \in Tasks |-> "out"]
  /\ verdicts' = {}

-----------------------------------------------------------------------------
ConfirmStep(t) ==
  Claim(t) \/ MarkValid(t) \/ Release(t) \/ EndTrial(t) \/ StopTimer(t)
  \/ Report(t) \/ TaskRollback(t)

TimerStep == Expire \/ TimerClaim \/ TimerRollback

Next ==
  \/ \E t \in Tasks : ConfirmStep(t) \/ Delete(t)
  \/ TimerStep
  \/ \E trial \in BOOLEAN : Boot(trial)

Spec == Init /\ [][Next]_vars
-----------------------------------------------------------------------------
\* Properties.

\* Every variable has its type.
TypeOK ==
  /\ inTrial \in BOOLEAN /\ trialEnding \in BOOLEAN /\ timeoutMissed \in BOOLEAN
  /\ timer \in {"armed", "expired", "rollback", "idle"}
  /\ confirm \in [Tasks -> Places]
  /\ verdicts \subseteq {"confirmed", "rolled_back"}

\* SimpleOTAClient.cpp, claimTrialEnd(): "Only the first to get here ends the
\* trial."  While one task or the timer is at it, nobody else is.
OneEnds ==
  /\ \A s, t \in Tasks : confirm[s] # "out" /\ confirm[t] # "out" => s = t
  /\ timer = "rollback" => \A t \in Tasks : confirm[t] = "out"

\* An image is not both confirmed and rolled back in one boot.
ConfirmedOrRolledBack == verdicts # {"confirmed", "rolled_back"}

\* SimpleOTAClient.cpp, confirmRunning(): "A timeout that fired meanwhile still
\* rolls back."  Once the timer has run, a trial that still goes on is being
\* ended: by the timer, or by a confirm that will look at _timeoutMissed.
TimeoutKept ==
  inTrial /\ timer = "idle" /\ ~Down =>
    \/ \E t \in Tasks : confirm[t] \in {"mark", "release"} /\ timeoutMissed
    \/ \E t \in Tasks : confirm[t] \in {"end", "rollback"}
=============================================================================
