------------------------------- MODULE Client -------------------------------
(***************************************************************************)
(* One client and the tasks that use it: the managed task of begin(), the  *)
(* sketch's own task, and the timer service task with the confirm timer.   *)
(*                                                                         *)
(* The end of a trial is TrialEnd, the outbox OutboxSend; this module adds *)
(* the task loop, check() and apply() between them, and what the tasks     *)
(* share beside _trialMux and _outboxLock: the record in NVS, the offer    *)
(* and s_updateWaiting.  The steps of one NVS write are TrialInstall's.    *)
(***************************************************************************)
EXTENDS Naturals, Sequences, FiniteSets

CONSTANTS
  SketchCalls,  \* library calls the sketch makes
  AutoConfirm,  \* setManagedAutoConfirm()
  NoTask, Unreadable, MaxReports, SaveFails, MarkFails,  \* of the components
  Faults,       \* hazards that can happen, of AllFaults
  MaxBoots      \* bound on the boots

AllCalls  == {"begin", "end", "confirm", "poll", "reboot"}
\* "crash" is a reset at any step; "end_holding" and "end_confirming" are an end()
\* while the managed task has the outbox lock or is in confirmRunning();
\* "stage_race" is a download that completes while another task is between
\* clearing _inTrial and dropping the record.
AllFaults == {"crash", "stage_race", "end_holding", "end_confirming"}

ASSUME CallsAssumption  == SketchCalls \subseteq AllCalls /\ AutoConfirm \in BOOLEAN
ASSUME FaultsAssumption == Faults \subseteq AllFaults /\ MaxBoots \in Nat \ {0}

Managed == "managed"
Sketch  == "sketch"
Tasks   == {Managed, Sketch}

VARIABLES
  inTrial, trialEnding, timeoutMissed, timer, confirm, verdicts,  \* TrialEnd
  lock, outbox, stored, place, hand,                              \* OutboxSend
  queued, saved, dropped, answered,
  record,     \* the trial record in NVS: "none", "staged" by apply(), "trial"
              \* once booted, "rolled_back" by performRollback()
  at,         \* at[t]: where task t is; the managed task is at "none" without one
  ok,         \* in _trialLoop(): its check() found an offer
  offer,      \* _hasOffer
  waiting,    \* s_updateWaiting
  trialLoop,  \* the managed task is in _trialLoop()
  late,       \* its deadline has passed
  boots       \* number of boots

EndInside == "end_confirming" \in Faults
T == INSTANCE TrialEnd
O == INSTANCE OutboxSend

ASSUME ConstantsAssumption == O!ConstantsOK /\ SaveFails \in BOOLEAN

trialVars  == <<inTrial, trialEnding, timeoutMissed, timer, confirm, verdicts>>
history    == <<queued, saved, dropped, answered>>
outboxVars == <<lock, outbox, stored, place, hand, history>>
ownVars    == <<record, at, ok, offer, waiting, trialLoop, late, boots>>
vars       == <<trialVars, outboxVars, ownVars>>

Up == ~T!Down
Goto(t, p) == at' = [at EXCEPT ![t] = p]
LeaveTrialLoop == trialLoop' = FALSE /\ late' = FALSE /\ ok' = FALSE

\* Where a task goes on after a check() or apply() of its own.
AfterCheck(t, found, good) ==
  IF t = Managed /\ trialLoop THEN IF AutoConfirm /\ good THEN "confirm" ELSE "t_sleep"
  ELSE IF found THEN "apply"
  ELSE IF t = Managed THEN "sleep" ELSE "idle"
AfterApply(t) == IF t = Managed THEN "sleep" ELSE "idle"
AfterConfirm(t, confirmed) ==
  IF t = Sketch THEN "idle" ELSE IF confirmed THEN "t_report" ELSE "t_sleep"

-----------------------------------------------------------------------------
\* A boot with this record: boot validation, up to the first library call.
BootReport(r) == IF r = "rolled_back" THEN "report" ELSE "idle"
Supervised(r) == r \in {"staged", "trial"}

Init ==
  /\ record \in {"none", "trial", "rolled_back"}
  /\ T!StartsIn(Supervised(record))
  /\ O!Init
  /\ at = [t \in Tasks |-> IF t = Managed THEN "none" ELSE BootReport(record)]
  /\ offer = FALSE /\ waiting = FALSE
  /\ trialLoop = FALSE /\ late = FALSE /\ ok = FALSE
  /\ boots = 1

PowerCycle ==
  /\ boots < MaxBoots /\ boots' = boots + 1
  /\ record' = IF Supervised(record) THEN "trial" ELSE record
  /\ T!Boot(Supervised(record))
  /\ O!Reset
  /\ at' = [t \in Tasks |-> IF t = Managed THEN "none" ELSE BootReport(record)]
  /\ offer' = FALSE /\ waiting' = FALSE
  /\ trialLoop' = FALSE /\ late' = FALSE /\ ok' = FALSE

\* esp_restart() at the end of performRollback(), or of an update.
Restarting == T!Down \/ \E t \in Tasks : at[t] = "restart"
Restart == Restarting /\ PowerCycle

Crash == "crash" \in Faults /\ PowerCycle

-----------------------------------------------------------------------------
\* Steps of the two components.  Nobody else's state changes, but for the
\* record: performRollback() marks it.

TimerStep ==
  /\ T!Expire \/ T!TimerClaim
  /\ UNCHANGED <<outboxVars, ownVars>>

PerformRollback ==
  /\ T!TimerRollback \/ \E t \in Tasks : at[t] # "none" /\ T!TaskRollback(t)
  /\ record' = "rolled_back"
  /\ UNCHANGED <<outboxVars, at, ok, offer, waiting, trialLoop, late, boots>>

OutboxStep(t) ==
  /\ Up /\ at[t] # "none"
  /\ O!Running(t)
  /\ UNCHANGED <<trialVars, ownVars>>

-----------------------------------------------------------------------------
\* confirmRunning(), by the sketch or for auto-confirm.

ConfirmRunning(t) ==
  /\ Up /\ at[t] = "confirm"
  /\ IF T!Claims THEN T!Claim(t) /\ Goto(t, "confirming")
     ELSE UNCHANGED trialVars /\ Goto(t, AfterConfirm(t, FALSE))
  /\ UNCHANGED <<outboxVars, record, ok, offer, waiting, trialLoop, late, boots>>

Confirming(t) ==
  /\ at[t] = "confirming"
  /\ \/ /\ T!MarkValid(t) \/ T!EndTrial(t) \/ T!StopTimer(t)
        /\ UNCHANGED at
     \/ T!Release(t) /\ Goto(t, IF timeoutMissed THEN at[t] ELSE AfterConfirm(t, FALSE))
  /\ UNCHANGED <<outboxVars, record, ok, offer, waiting, trialLoop, late, boots>>

\* queueReport("confirmed"), then dropTrialRecord().
QueueConfirmed(t) ==
  /\ Up /\ at[t] = "confirming" /\ confirm[t] = "report"
  /\ O!QueueReport(t)
  /\ Goto(t, "reporting")
  /\ UNCHANGED <<trialVars, record, ok, offer, waiting, trialLoop, late, boots>>

DropTrialRecord(t) ==
  /\ at[t] = "reporting" /\ place[t] = "out"
  /\ T!Report(t)
  /\ record' = "none"
  /\ Goto(t, AfterConfirm(t, TRUE))
  /\ UNCHANGED <<outboxVars, ok, offer, waiting, trialLoop, late, boots>>

\* Boot validation after a rollback: the report, then the record.
QueueRolledBack ==
  /\ at[Sketch] = "report"
  /\ O!QueueReport(Sketch)
  /\ Goto(Sketch, "resolve")
  /\ UNCHANGED <<trialVars, record, ok, offer, waiting, trialLoop, late, boots>>

ResolveRollback ==
  /\ at[Sketch] = "resolve" /\ place[Sketch] = "out"
  /\ record' = "none"
  /\ Goto(Sketch, "idle")
  /\ UNCHANGED <<trialVars, outboxVars, ok, offer, waiting, trialLoop, late, boots>>

-----------------------------------------------------------------------------
\* check() and apply(), of either task.

CheckOnly(t) ==                                             \* mutant
  /\ Up /\ at[t] = "check"
  /\ Goto(t, "request")
  /\ UNCHANGED <<trialVars, outboxVars, record, ok, offer, waiting, trialLoop, late,
                 boots>>
Check(t) ==
  /\ Up /\ at[t] = "check"
  /\ O!SendPendingReports(t)
  /\ Goto(t, "request")
  /\ UNCHANGED <<trialVars, record, ok, offer, waiting, trialLoop, late, boots>>

\* The old offer is cleared; any HTTP 200 sets _lastCheckOk.
Request(t) ==
  /\ Up /\ at[t] = "request" /\ place[t] = "out"
  /\ \E good, found \in BOOLEAN :
       /\ found => good
       /\ offer' = found
       /\ ok' = (t = Managed /\ trialLoop /\ AutoConfirm /\ found)
       /\ Goto(t, AfterCheck(t, found, good))
  /\ UNCHANGED <<trialVars, outboxVars, record, waiting, trialLoop, late, boots>>

ApplyUnguarded(t) ==                                        \* mutant
  /\ Up /\ at[t] = "apply"
  /\ Goto(t, IF waiting \/ ~offer THEN AfterApply(t) ELSE "download")
  /\ UNCHANGED <<trialVars, outboxVars, record, ok, offer, waiting, trialLoop, late,
                 boots>>
Apply(t) ==
  /\ Up /\ at[t] = "apply"
  /\ Goto(t, IF waiting \/ inTrial \/ ~offer THEN AfterApply(t) ELSE "download")
  /\ UNCHANGED <<trialVars, outboxVars, record, ok, offer, waiting, trialLoop, late,
                 boots>>

DownloadFails(t) ==
  /\ Up /\ at[t] = "download"
  /\ offer' = FALSE
  /\ Goto(t, AfterApply(t))
  /\ UNCHANGED <<trialVars, outboxVars, record, ok, waiting, trialLoop, late, boots>>

\* Another task cleared _inTrial but has not dropped the record yet.
StageRace == \E t \in Tasks : at[t] \in {"confirming", "reporting"}

\* The record of the new update goes in, the boot slot is switched, and the
\* device restarts (setAutoReboot) or goes on.
StageAndSwitch(t) ==
  /\ Up /\ at[t] = "download"
  /\ StageRace => "stage_race" \in Faults
  /\ record' = "staged" /\ waiting' = TRUE /\ offer' = FALSE
  /\ \E next \in {"restart", AfterApply(t)} : Goto(t, next)
  /\ UNCHANGED <<trialVars, outboxVars, ok, trialLoop, late, boots>>

-----------------------------------------------------------------------------
\* The managed task.

\* begin() runs boot validation first, and does nothing when a task runs.
Begin ==
  /\ Up /\ "begin" \in SketchCalls
  /\ at[Sketch] = "idle" /\ at[Managed] = "none"
  /\ Goto(Managed, "delay")
  /\ UNCHANGED <<trialVars, outboxVars, record, ok, offer, waiting, trialLoop, late,
                 boots>>

\* end() deletes the task wherever it is; the locks it holds stay taken.
End ==
  /\ Up /\ "end" \in SketchCalls
  /\ at[Sketch] = "idle" /\ at[Managed] # "none"
  /\ lock = Managed => "end_holding" \in Faults
  /\ IF confirm[Managed] = "out" THEN UNCHANGED trialVars ELSE T!Delete(Managed)
  /\ O!Delete(Managed)
  /\ Goto(Managed, "none")
  /\ LeaveTrialLoop
  /\ UNCHANGED <<record, offer, waiting, boots>>

\* _taskLoop(): the initial delay, then the trial loop if there is a trial.
TaskStarts ==
  /\ Up /\ at[Managed] = "delay"
  /\ trialLoop' = inTrial
  /\ Goto(Managed, IF inTrial THEN "trial" ELSE "loop")
  /\ UNCHANGED <<trialVars, outboxVars, record, late, ok, offer, waiting, boots>>

\* _trialLoop(): leave it when the trial is over or the deadline has passed.
TrialLoop ==
  /\ Up /\ at[Managed] = "trial"
  /\ IF inTrial /\ ~late THEN Goto(Managed, "connect") /\ UNCHANGED <<trialLoop, late, ok>>
     ELSE Goto(Managed, "loop") /\ LeaveTrialLoop
  /\ UNCHANGED <<trialVars, outboxVars, record, offer, waiting, boots>>

\* isConnected(), polled every second; in the trial loop until the deadline.
Connected ==
  /\ Up
  /\ \/ at[Managed] = "connect" /\ ~late
     \/ at[Managed] = "loop"
  /\ Goto(Managed, "check")
  /\ UNCHANGED <<trialVars, outboxVars, record, ok, offer, waiting, trialLoop, late,
                 boots>>

DeadlinePassed ==
  /\ Up /\ at[Managed] \in {"connect", "t_sleep"} /\ late
  /\ Goto(Managed, "loop") /\ LeaveTrialLoop
  /\ UNCHANGED <<trialVars, outboxVars, record, offer, waiting, boots>>

\* The confirmed report is sent without waiting for the next check().
SendConfirmed ==
  /\ Up /\ at[Managed] = "t_report"
  /\ O!SendPendingReports(Managed)
  /\ Goto(Managed, "t_sent")
  /\ UNCHANGED <<trialVars, record, ok, offer, waiting, trialLoop, late, boots>>

TrialConfirmed ==
  /\ Up /\ at[Managed] = "t_sent" /\ place[Managed] = "out"
  /\ LeaveTrialLoop
  /\ Goto(Managed, IF ok THEN "apply" ELSE "sleep")
  /\ UNCHANGED <<trialVars, outboxVars, record, offer, waiting, boots>>

Sleep ==
  /\ Up
  /\ \/ at[Managed] = "sleep" /\ Goto(Managed, "loop")
     \/ at[Managed] = "t_sleep" /\ ~late /\ Goto(Managed, "trial")
  /\ UNCHANGED <<trialVars, outboxVars, record, ok, offer, waiting, trialLoop, late,
                 boots>>

Clock ==
  /\ Up /\ trialLoop /\ ~late
  /\ late' = TRUE
  /\ UNCHANGED <<trialVars, outboxVars, record, at, ok, offer, waiting, trialLoop,
                 boots>>

-----------------------------------------------------------------------------
\* The sketch.

\* It polls check() and apply() by itself only when it runs no managed task.
Entry == [confirm |-> "confirm", poll |-> "check", reboot |-> "restart"]
SketchCall ==
  /\ Up /\ at[Sketch] = "idle"
  /\ \E c \in SketchCalls \cap DOMAIN Entry :
       /\ c = "poll" => at[Managed] = "none"
       /\ Goto(Sketch, Entry[c])
  /\ UNCHANGED <<trialVars, outboxVars, record, ok, offer, waiting, trialLoop, late,
                 boots>>

ConfirmStep(t) ==
  ConfirmRunning(t) \/ Confirming(t) \/ QueueConfirmed(t) \/ DropTrialRecord(t)
ApplyStep(t) == Apply(t) \/ DownloadFails(t) \/ StageAndSwitch(t)
Step(t) == ConfirmStep(t) \/ Check(t) \/ Request(t) \/ ApplyStep(t)
ManagedStep ==
  TaskStarts \/ TrialLoop \/ Connected \/ DeadlinePassed \/ SendConfirmed
  \/ TrialConfirmed \/ Sleep
BootStep == QueueRolledBack \/ ResolveRollback
\* The restart that MaxBoots leaves out.
Stopped == boots = MaxBoots /\ Restarting /\ UNCHANGED vars

Next ==
  \/ \E t \in Tasks : Step(t) \/ OutboxStep(t)
  \/ TimerStep \/ PerformRollback \/ BootStep
  \/ Begin \/ End \/ ManagedStep \/ Clock \/ SketchCall
  \/ Restart \/ Crash \/ Stopped

Spec == Init /\ [][Next]_vars

\* Every task that can run does, and so does the timer service; a mutex is
\* given to every task that waits for it; the sketch starts its managed task;
\* the server does not leave every request unanswered.
Fairness ==
  /\ \A t \in Tasks :
       /\ WF_vars(Step(t)) /\ WF_vars(OutboxStep(t))
       /\ SF_vars(OutboxStep(t) /\ place[t] \in O!Locking)
       /\ SF_vars(OutboxStep(t) /\ place'[t] = "p_lock")
  /\ WF_vars(TimerStep) /\ WF_vars(PerformRollback) /\ WF_vars(BootStep)
  /\ SF_vars(Begin) /\ WF_vars(ManagedStep) /\ WF_vars(Clock) /\ WF_vars(Restart)

FairSpec == Spec /\ Fairness
-----------------------------------------------------------------------------
\* Properties.

At == {"none", "idle", "report", "resolve", "confirm", "confirming", "reporting",
       "check", "request", "apply", "download", "delay", "loop", "sleep", "trial",
       "connect", "t_sleep", "t_report", "t_sent", "restart"}

\* Every variable has its type.
TypeOK ==
  /\ T!TypeOK /\ O!TypeOK
  /\ record \in {"none", "staged", "trial", "rolled_back"}
  /\ at \in [Tasks -> At]
  /\ {ok, offer, waiting, trialLoop, late} \subseteq BOOLEAN
  /\ boots \in 1..MaxBoots

\* claimTrialEnd(): "Only the first to get here ends the trial", among the
\* confirm timer, the auto-confirm of the managed task and the sketch.
OneEnds == T!OneEnds
ConfirmedOrRolledBack == T!ConfirmedOrRolledBack

\* _trialLoop(): "The FreeRTOS confirm timer will fire performRollback() at the
\* deadline regardless of where this loop is currently parked."
TimeoutKept == T!TimeoutKept

\* SimpleOTAOutbox.h: a report stays until a response came, whichever task
\* queues, posts or is deleted meanwhile, and wherever a reset strikes.
NoReportLost == O!NoReportLost
OldestFirst == O!OldestFirst

\* What RAM says of the trial is what NVS says: a running trial has its record,
\* so that a reset goes on with it, and an update that waits for its reboot
\* has one too.  An apply() on one task and the end of the trial on another
\* share the record without a lock.
RecordMatches ==
  /\ inTrial /\ Up => record = "trial"
  /\ waiting => record = "staged"

\* Every trial ends: confirmed, or with a restart.
TrialEnds == inTrial ~> (~inTrial \/ Restarting)

\* Every report that reached NVS is answered, or pushed out by newer ones, unless
\* the device restarts first.
ReportDelivered ==
  \A n \in 1..MaxReports :
    n \in saved ~> (n \in answered \/ n \in dropped \/ Restarting)
=============================================================================
