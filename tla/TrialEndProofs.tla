--------------------------- MODULE TrialEndProofs ---------------------------
(***************************************************************************)
(* The end of a trial for any number of tasks.                             *)
(*                                                                         *)
(* Owning says who holds the claim on the end of the trial, and is         *)
(* inductive for any constants.  Kept and Single stand on it: the first    *)
(* needs tasks that are not deleted inside confirmRunning(), the second    *)
(* OneCaller.                                                              *)
(***************************************************************************)
EXTENDS TrialEnd, TLAPS

\* Task t has the claim.
Busy(t) == confirm[t] \in {"mark", "release", "end"}

Owning ==
  /\ \A t \in Tasks : Busy(t) => inTrial /\ trialEnding /\ timer # "rollback"
  /\ \A s, t \in Tasks : Busy(s) /\ Busy(t) => s = t
  /\ timer = "rollback" => inTrial /\ trialEnding
  /\ \A t \in Tasks : confirm[t] \in {"stop", "report"} => ~inTrial
  /\ timeoutMissed => timer = "idle"
  /\ \A t \in Tasks : confirm[t] \in {"release", "rollback"} => MarkFails

\* The claim has an owner, and a timeout somebody who knows of it.
Owned == trialEnding => timer = "rollback" \/ \E t \in Tasks : Busy(t)
Kept  == Owned /\ TimeoutKept

Single ==
  /\ \A t \in Tasks : confirm[t] = "rollback" => inTrial /\ timer = "idle"
  /\ "confirmed" \in verdicts => ~inTrial
  /\ OneEnds
  /\ ConfirmedOrRolledBack

-----------------------------------------------------------------------------
LEMMA TypeInit == Init => TypeOK
BY DEF Init, StartsIn, TypeOK, Places

LEMMA TypeStep == TypeOK /\ [Next]_vars => TypeOK'
<1> SUFFICES ASSUME TypeOK, [Next]_vars PROVE TypeOK'
  OBVIOUS
<1> USE DEF TypeOK, Places, Goto, mux
<1>1. ASSUME NEW t \in Tasks, Claim(t) PROVE TypeOK'
  BY <1>1 DEF Claim
<1>2. ASSUME NEW t \in Tasks, MarkValid(t) PROVE TypeOK'
  BY <1>2 DEF MarkValid
<1>3. ASSUME NEW t \in Tasks, Release(t) PROVE TypeOK'
  BY <1>3 DEF Release
<1>4. ASSUME NEW t \in Tasks, EndTrial(t) PROVE TypeOK'
  BY <1>4 DEF EndTrial
<1>5. ASSUME NEW t \in Tasks, StopTimer(t) PROVE TypeOK'
  BY <1>5 DEF StopTimer
<1>6. ASSUME NEW t \in Tasks, Report(t) PROVE TypeOK'
  BY <1>6 DEF Report
<1>7. ASSUME NEW t \in Tasks, TaskRollback(t) PROVE TypeOK'
  BY <1>7 DEF TaskRollback
<1>8. ASSUME NEW t \in Tasks, Delete(t) PROVE TypeOK'
  BY <1>8 DEF Delete
<1>9. CASE Expire
  BY <1>9 DEF Expire
<1>10. CASE TimerClaim
  BY <1>10 DEF TimerClaim, Claims
<1>11. CASE TimerRollback
  BY <1>11 DEF TimerRollback
<1>12. ASSUME NEW trial \in BOOLEAN, Boot(trial) PROVE TypeOK'
  BY <1>12 DEF Boot
<1>13. CASE UNCHANGED vars
  BY <1>13 DEF vars
<1>14. QED
  BY <1>1, <1>2, <1>3, <1>4, <1>5, <1>6, <1>7, <1>8, <1>9, <1>10, <1>11, <1>12,
     <1>13 DEF Next, ConfirmStep, TimerStep

LEMMA OwningInit == Init => Owning
BY DEF Init, StartsIn, Owning, Busy

LEMMA OwningStep == TypeOK /\ Owning /\ [Next]_vars => Owning'
<1> SUFFICES ASSUME TypeOK, Owning, [Next]_vars PROVE Owning'
  OBVIOUS
<1> USE DEF TypeOK, Owning, Busy, Goto, mux
<1>1. ASSUME NEW t \in Tasks, Claim(t) PROVE Owning'
  BY <1>1 DEF Claim, Claims
<1>2. ASSUME NEW t \in Tasks, MarkValid(t) PROVE Owning'
  BY <1>2 DEF MarkValid
<1>3. ASSUME NEW t \in Tasks, Release(t) PROVE Owning'
  BY <1>3 DEF Release
<1>4. ASSUME NEW t \in Tasks, EndTrial(t) PROVE Owning'
  BY <1>4 DEF EndTrial
<1>5. ASSUME NEW t \in Tasks, StopTimer(t) PROVE Owning'
  BY <1>5 DEF StopTimer
<1>6. ASSUME NEW t \in Tasks, Report(t) PROVE Owning'
  BY <1>6 DEF Report
<1>7. ASSUME NEW t \in Tasks, TaskRollback(t) PROVE Owning'
  BY <1>7 DEF TaskRollback
<1>8. ASSUME NEW t \in Tasks, Delete(t) PROVE Owning'
  BY <1>8 DEF Delete
<1>9. CASE Expire
  BY <1>9 DEF Expire
<1>10. CASE TimerClaim
  BY <1>10 DEF TimerClaim, Claims
<1>11. CASE TimerRollback
  BY <1>11 DEF TimerRollback
<1>12. ASSUME NEW trial \in BOOLEAN, Boot(trial) PROVE Owning'
  BY <1>12 DEF Boot
<1>13. CASE UNCHANGED vars
  BY <1>13 DEF vars
<1>14. QED
  BY <1>1, <1>2, <1>3, <1>4, <1>5, <1>6, <1>7, <1>8, <1>9, <1>10, <1>11, <1>12,
     <1>13 DEF Next, ConfirmStep, TimerStep

-----------------------------------------------------------------------------
LEMMA KeptInit == Init => Kept
BY DEF Init, StartsIn, Kept, Owned, TimeoutKept, Down

LEMMA KeptStep ==
  ASSUME ~EndInside
  PROVE  TypeOK /\ Owning /\ Kept /\ [Next]_vars => Kept'
<1> SUFFICES ASSUME TypeOK, Owning, Kept, [Next]_vars PROVE Kept'
  OBVIOUS
<1> USE DEF TypeOK, Owning, Kept, Owned, TimeoutKept, Busy, Goto, mux, Down
<1>1. ASSUME NEW t \in Tasks, Claim(t) PROVE Kept'
  BY <1>1 DEF Claim, Claims
<1>2. ASSUME NEW t \in Tasks, MarkValid(t) PROVE Kept'
  BY <1>2 DEF MarkValid
<1>3. ASSUME NEW t \in Tasks, Release(t) PROVE Kept'
  BY <1>3 DEF Release
<1>4. ASSUME NEW t \in Tasks, EndTrial(t) PROVE Kept'
  BY <1>4 DEF EndTrial
<1>5. ASSUME NEW t \in Tasks, StopTimer(t) PROVE Kept'
  BY <1>5 DEF StopTimer
<1>6. ASSUME NEW t \in Tasks, Report(t) PROVE Kept'
  BY <1>6 DEF Report
<1>7. ASSUME NEW t \in Tasks, TaskRollback(t) PROVE Kept'
  BY <1>7 DEF TaskRollback
<1>8. ASSUME NEW t \in Tasks, Delete(t) PROVE Kept'
  BY <1>8 DEF Delete
<1>9. CASE Expire
  BY <1>9 DEF Expire
<1>10. CASE TimerClaim
  BY <1>10 DEF TimerClaim, Claims
<1>11. CASE TimerRollback
  BY <1>11 DEF TimerRollback
<1>12. ASSUME NEW trial \in BOOLEAN, Boot(trial) PROVE Kept'
  BY <1>12 DEF Boot
<1>13. CASE UNCHANGED vars
  BY <1>13 DEF vars
<1>14. QED
  BY <1>1, <1>2, <1>3, <1>4, <1>5, <1>6, <1>7, <1>8, <1>9, <1>10, <1>11, <1>12,
     <1>13 DEF Next, ConfirmStep, TimerStep

LEMMA SingleInit == Init => Single
BY DEF Init, StartsIn, Single, OneEnds, ConfirmedOrRolledBack

LEMMA SingleStep ==
  ASSUME OneCaller
  PROVE  TypeOK /\ Owning /\ Single /\ [Next]_vars => Single'
<1> SUFFICES ASSUME TypeOK, Owning, Single, [Next]_vars PROVE Single'
  OBVIOUS
<1> USE DEF OneCaller, TypeOK, Places, Owning, Single, OneEnds,
            ConfirmedOrRolledBack, Busy, Goto, mux, Down
<1>1. ASSUME NEW t \in Tasks, Claim(t) PROVE Single'
  BY <1>1 DEF Claim, Claims
<1>2. ASSUME NEW t \in Tasks, MarkValid(t) PROVE Single'
  BY <1>2 DEF MarkValid
<1>3. ASSUME NEW t \in Tasks, Release(t) PROVE Single'
  BY <1>3 DEF Release
<1>4. ASSUME NEW t \in Tasks, EndTrial(t) PROVE Single'
  BY <1>4 DEF EndTrial
<1>5. ASSUME NEW t \in Tasks, StopTimer(t) PROVE Single'
  BY <1>5 DEF StopTimer
<1>6. ASSUME NEW t \in Tasks, Report(t) PROVE Single'
  BY <1>6 DEF Report
<1>7. ASSUME NEW t \in Tasks, TaskRollback(t) PROVE Single'
  BY <1>7 DEF TaskRollback
<1>8. ASSUME NEW t \in Tasks, Delete(t) PROVE Single'
  BY <1>8 DEF Delete
<1>9. CASE Expire
  BY <1>9 DEF Expire
<1>10. CASE TimerClaim
  BY <1>10 DEF TimerClaim, Claims
<1>11. CASE TimerRollback
  BY <1>11 DEF TimerRollback
<1>12. ASSUME NEW trial \in BOOLEAN, Boot(trial) PROVE Single'
  BY <1>12 DEF Boot
<1>13. CASE UNCHANGED vars
  BY <1>13 DEF vars
<1>14. QED
  BY <1>1, <1>2, <1>3, <1>4, <1>5, <1>6, <1>7, <1>8, <1>9, <1>10, <1>11, <1>12,
     <1>13 DEF Next, ConfirmStep, TimerStep

-----------------------------------------------------------------------------
\* The claim on the end of the trial has at most one owner, whatever happens.
LEMMA OneOwner == Spec => [](TypeOK /\ Owning)
<1>1. Init => TypeOK /\ Owning
  BY TypeInit, OwningInit
<1>2. TypeOK /\ Owning /\ [Next]_vars => (TypeOK /\ Owning)'
  BY TypeStep, OwningStep
<1>3. QED
  BY <1>1, <1>2, PTL DEF Spec

\* _confirmTimerCb(), confirmRunning(): a timeout that fired while the trial was
\* being confirmed rolls back if the confirm fails, for any number of tasks
\* that confirm at the same time, as long as none of them is deleted there.
THEOREM TimeoutNeverLost ==
  ASSUME ~EndInside
  PROVE  Spec => []TimeoutKept
<1>1. Init => TypeOK /\ Owning /\ Kept
  BY TypeInit, OwningInit, KeptInit
<1>2. (TypeOK /\ Owning /\ Kept) /\ [Next]_vars => (TypeOK /\ Owning /\ Kept)'
  BY TypeStep, OwningStep, KeptStep
<1>3. TypeOK /\ Owning /\ Kept => TimeoutKept
  BY DEF Kept
<1>4. QED
  BY <1>1, <1>2, <1>3, PTL DEF Spec

\* claimTrialEnd(): one of the confirm timer and any number of confirming tasks
\* ends the trial, and the image is not both confirmed and rolled back, if
\* the bootloader never fails to record the image or one task alone confirms.
THEOREM OneEndsTheTrial ==
  ASSUME OneCaller
  PROVE  Spec => [](OneEnds /\ ConfirmedOrRolledBack)
<1>1. Init => TypeOK /\ Owning /\ Single
  BY TypeInit, OwningInit, SingleInit
<1>2. (TypeOK /\ Owning /\ Single) /\ [Next]_vars => (TypeOK /\ Owning /\ Single)'
  BY TypeStep, OwningStep, SingleStep
<1>3. TypeOK /\ Owning /\ Single => OneEnds /\ ConfirmedOrRolledBack
  BY DEF Single
<1>4. QED
  BY <1>1, <1>2, <1>3, PTL DEF Spec
=============================================================================
