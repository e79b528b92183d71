---------------------------- MODULE ClientProofs ----------------------------
(***************************************************************************)
(* One client implements its two components: every step of Client is a    *)
(* step of the outbox or leaves it alone, and a step of the end of a trial *)
(* or leaves that alone.  What is proved of the components then holds of   *)
(* the client with its two tasks.                                          *)
(***************************************************************************)
EXTENDS Client, TLAPS

OP == INSTANCE OutboxSendProofs
TP == INSTANCE TrialEndProofs

LEMMA AreTasks == Managed \in Tasks /\ Sketch \in Tasks
BY DEF Tasks

-----------------------------------------------------------------------------
\* The outbox.

LEMMA OutboxInit == Init => OP!Init
BY DEF Init, O!Init, OP!Init, O!Loaded, OP!Loaded, O!Slots, OP!Slots

LEMMA Queues == ASSUME NEW t, O!QueueReport(t) PROVE OP!QueueReport(t)
BY DEF O!QueueReport, OP!QueueReport, O!Goto, OP!Goto, O!history, OP!history

LEMMA Sends == ASSUME NEW t, O!SendPendingReports(t) PROVE OP!SendPendingReports(t)
BY DEF O!SendPendingReports, OP!SendPendingReports, O!Goto, OP!Goto, O!history,
       OP!history

LEMMA Deletes == ASSUME NEW t, O!Delete(t) PROVE OP!Delete(t)
BY DEF O!Delete, OP!Delete, O!Leave, OP!Leave, O!Goto, OP!Goto, O!history, OP!history

LEMMA Runs == ASSUME NEW t, O!Running(t) PROVE OP!Running(t)
BY DEF O!Running, OP!Running, O!Take, OP!Take, O!PushReport, OP!PushReport,
       O!SaveOutbox, OP!SaveOutbox, O!Copy, OP!Copy, O!Post, OP!Post,
       O!PostAnswered, OP!PostAnswered, O!PostLost, OP!PostLost, O!PopReport,
       OP!PopReport, O!Goto, OP!Goto, O!Leave, OP!Leave, O!history, OP!history,
       O!Locking, OP!Locking, O!Posting, OP!Posting, O!Push, OP!Push, O!Pop, OP!Pop,
       O!Slots, OP!Slots, O!Range, OP!Range

LEMMA Resets == O!Reset => OP!Reset
BY DEF O!Reset, OP!Reset, O!Loaded, OP!Loaded, O!Range, OP!Range

LEMMA OutboxNext == [Next]_vars => [OP!Next]_(OP!vars)
<1> SUFFICES ASSUME [Next]_vars PROVE OP!Next \/ UNCHANGED OP!vars
  OBVIOUS
<1>1. UNCHANGED outboxVars => UNCHANGED OP!vars
  BY DEF outboxVars, history, OP!vars, OP!history
<1>2. CASE PowerCycle
  BY <1>2, Resets DEF PowerCycle, OP!Next
<1>3. ASSUME NEW t \in Tasks, OutboxStep(t) PROVE OP!Next
  BY <1>3, Runs DEF OutboxStep, OP!Next
<1>4. ASSUME NEW t \in Tasks, Step(t) PROVE OP!Next \/ UNCHANGED OP!vars
  <2>1. CASE ConfirmStep(t)
    <3>1. CASE QueueConfirmed(t)
      BY <3>1, Queues DEF QueueConfirmed, OP!Next
    <3>2. CASE ConfirmRunning(t) \/ Confirming(t) \/ DropTrialRecord(t)
      BY <1>1, <3>2 DEF ConfirmRunning, Confirming, DropTrialRecord
    <3>3. QED
      BY <2>1, <3>1, <3>2 DEF ConfirmStep
  <2>2. CASE Check(t)
    BY <2>2, Sends DEF Check, OP!Next
  <2>3. CASE Request(t) \/ ApplyStep(t)
    BY <1>1, <2>3 DEF Request, ApplyStep, Apply, DownloadFails, StageAndSwitch
  <2>4. QED
    BY <1>4, <2>1, <2>2, <2>3 DEF Step
<1>5. CASE TimerStep \/ PerformRollback \/ Begin \/ Clock \/ SketchCall
  BY <1>1, <1>5 DEF TimerStep, PerformRollback, Begin, Clock, SketchCall
<1>6. CASE BootStep
  BY <1>1, <1>6, Queues, AreTasks DEF BootStep, QueueRolledBack, ResolveRollback, OP!Next
<1>7. CASE End
  BY <1>7, Deletes, AreTasks DEF End, OP!Next
<1>8. CASE ManagedStep
  <2>1. CASE SendConfirmed
    BY <2>1, Sends, AreTasks DEF SendConfirmed, OP!Next
  <2>2. CASE TaskStarts \/ TrialLoop \/ Connected \/ DeadlinePassed \/ TrialConfirmed
             \/ Sleep
    BY <1>1, <2>2 DEF TaskStarts, TrialLoop, Connected, DeadlinePassed,
                      TrialConfirmed, Sleep
  <2>3. QED
    BY <1>8, <2>1, <2>2 DEF ManagedStep
<1>9. CASE Stopped \/ UNCHANGED vars
  BY <1>1, <1>9 DEF Stopped, vars
<1>10. QED
  BY <1>2, <1>3, <1>4, <1>5, <1>6, <1>7, <1>8, <1>9 DEF Next, Restart, Crash

-----------------------------------------------------------------------------
\* The end of a trial.

LEMMA TrialInit == Init => TP!Init
<1> SUFFICES ASSUME Init PROVE TP!Init
  OBVIOUS
<1>1. Supervised(record) \in BOOLEAN
  BY DEF Supervised
<1>2. TP!StartsIn(Supervised(record))
  BY DEF Init, T!StartsIn, TP!StartsIn
<1>3. QED
  BY <1>1, <1>2 DEF TP!Init

LEMMA Confirms ==
  ASSUME NEW t, T!Claim(t) \/ T!MarkValid(t) \/ T!Release(t) \/ T!EndTrial(t)
                \/ T!StopTimer(t) \/ T!Report(t) \/ T!TaskRollback(t)
  PROVE  TP!ConfirmStep(t)
BY DEF TP!ConfirmStep, T!Claim, TP!Claim, T!Claims, TP!Claims, T!MarkValid, TP!MarkValid,
       T!Release, TP!Release, T!EndTrial, TP!EndTrial, T!StopTimer, TP!StopTimer,
       T!Report, TP!Report, T!TaskRollback, TP!TaskRollback, T!Goto, TP!Goto,
       T!mux, TP!mux, T!Down, TP!Down

LEMMA Times == T!Expire \/ T!TimerClaim \/ T!TimerRollback => TP!TimerStep
BY DEF TP!TimerStep, T!Expire, TP!Expire, T!TimerClaim, TP!TimerClaim,
       T!TimerRollback, TP!TimerRollback, T!Claims, TP!Claims, T!mux, TP!mux, T!Down,
       TP!Down

LEMMA TrialNext == [Next]_vars => [TP!Next]_(TP!vars)
<1> SUFFICES ASSUME [Next]_vars PROVE TP!Next \/ UNCHANGED TP!vars
  OBVIOUS
<1>1. UNCHANGED trialVars => UNCHANGED TP!vars
  BY DEF trialVars, TP!vars
<1>2. CASE PowerCycle
  <2>1. Supervised(record) \in BOOLEAN
    BY DEF Supervised
  <2>2. TP!Boot(Supervised(record))
    BY <1>2 DEF PowerCycle, T!Boot, TP!Boot
  <2>3. QED
    BY <2>1, <2>2 DEF TP!Next
<1>3. ASSUME NEW t \in Tasks, OutboxStep(t) PROVE UNCHANGED TP!vars
  BY <1>1, <1>3 DEF OutboxStep
<1>4. ASSUME NEW t \in Tasks, Step(t) PROVE TP!Next \/ UNCHANGED TP!vars
  <2>1. CASE ConfirmStep(t)
    <3>1. CASE QueueConfirmed(t)
      BY <1>1, <3>1 DEF QueueConfirmed
    <3>2. CASE ConfirmRunning(t) \/ Confirming(t) \/ DropTrialRecord(t)
      BY <1>1, <3>2, Confirms DEF ConfirmRunning, Confirming, DropTrialRecord, TP!Next
    <3>3. QED
      BY <2>1, <3>1, <3>2 DEF ConfirmStep
  <2>2. CASE Check(t) \/ Request(t) \/ ApplyStep(t)
    BY <1>1, <2>2 DEF Check, Request, ApplyStep, Apply, DownloadFails, StageAndSwitch
  <2>3. QED
    BY <1>4, <2>1, <2>2 DEF Step
<1>5. CASE TimerStep \/ PerformRollback
  BY <1>5, Times, Confirms DEF TimerStep, PerformRollback, TP!Next
<1>6. CASE End
  <2>1. T!Delete(Managed) => TP!Delete(Managed)
    BY DEF T!Delete, TP!Delete, T!Goto, TP!Goto, T!mux, TP!mux, T!Down, TP!Down
  <2>2. QED
    BY <1>1, <1>6, <2>1, AreTasks DEF End, TP!Next
<1>7. CASE BootStep \/ ManagedStep \/ Begin \/ Clock \/ SketchCall
  BY <1>1, <1>7 DEF BootStep, QueueRolledBack, ResolveRollback, ManagedStep, TaskStarts,
                    TrialLoop, Connected, DeadlinePassed, SendConfirmed,
                    TrialConfirmed, Sleep, Begin, Clock, SketchCall
<1>8. CASE Stopped \/ UNCHANGED vars
  BY <1>1, <1>8 DEF Stopped, vars
<1>9. QED
  BY <1>2, <1>3, <1>4, <1>5, <1>6, <1>7, <1>8 DEF Next, Restart, Crash

-----------------------------------------------------------------------------
\* A client with its tasks and its deletions is an outbox as OutboxSend
\* specifies it, and ends its trials as TrialEnd does.
THEOREM ClientImplements == Spec => OP!Spec /\ TP!Spec
BY OutboxInit, OutboxNext, TrialInit, TrialNext, PTL DEF Spec, OP!Spec, TP!Spec

\* SimpleOTAOutbox.h: a report that reached NVS stays there until it is answered
\* or pushed out, whatever the managed task, the sketch and the timer do, and
\* wherever resets and end() strike.
THEOREM ClientKeepsReports == Spec => []NoReportLost
<1>1. OP!ConstantsOK
  BY ConstantsAssumption DEF O!ConstantsOK, OP!ConstantsOK
<1>2. OP!Spec => []OP!NoReportLost
  BY <1>1, OP!ReportsAreKept
<1>3. OP!NoReportLost => NoReportLost
  BY DEF OP!NoReportLost, NoReportLost, O!NoReportLost, O!Range, OP!Range, O!Loaded,
         OP!Loaded
<1>4. QED
  BY <1>2, <1>3, ClientImplements, PTL

\* _trialLoop(): the confirm timer brings every timeout to its end, unless end()
\* deletes the task inside confirmRunning().
THEOREM ClientKeepsTimeouts ==
  ASSUME "end_confirming" \notin Faults
  PROVE  Spec => []TimeoutKept
<1>1. TP!Spec => []TP!TimeoutKept
  BY TP!TimeoutNeverLost DEF EndInside
<1>2. TP!TimeoutKept => TimeoutKept
  BY DEF TP!TimeoutKept, TimeoutKept, T!TimeoutKept, T!Down, TP!Down
<1>3. QED
  BY <1>1, <1>2, ClientImplements, PTL

\* claimTrialEnd(): "Only the first to get here ends the trial."  As long as the
\* bootloader can record the image, one of the timer, the managed task and the
\* sketch ends a trial, and no image is both confirmed and rolled back.
THEOREM ClientEndsOnce ==
  ASSUME ~MarkFails
  PROVE  Spec => [](OneEnds /\ ConfirmedOrRolledBack)
<1>1. TP!OneCaller
  BY DEF TP!OneCaller
<1>2. TP!Spec => [](TP!OneEnds /\ TP!ConfirmedOrRolledBack)
  BY <1>1, TP!OneEndsTheTrial
<1>3. TP!OneEnds /\ TP!ConfirmedOrRolledBack => OneEnds /\ ConfirmedOrRolledBack
  BY DEF TP!OneEnds, TP!ConfirmedOrRolledBack, OneEnds, ConfirmedOrRolledBack, T!OneEnds,
         T!ConfirmedOrRolledBack
<1>4. QED
  BY <1>2, <1>3, ClientImplements, PTL

\* README.md: queued reports are sent oldest first, also when the managed task
\* and the sketch queue and send at the same time.
THEOREM ClientSendsInOrder == Spec => []OldestFirst
<1>1. OP!ConstantsOK
  BY ConstantsAssumption DEF O!ConstantsOK, OP!ConstantsOK
<1>2. OP!Spec => []OP!OldestFirst
  BY <1>1, OP!ReportsInOrder
<1>3. OP!OldestFirst => OldestFirst
  BY DEF OP!OldestFirst, OldestFirst, O!OldestFirst, OP!Posting, O!Posting
<1>4. QED
  BY <1>2, <1>3, ClientImplements, PTL

\* An image is not both confirmed and rolled back in one boot, under the same
\* condition as ClientEndsOnce.
THEOREM ClientDecidesOnce ==
  ASSUME ~MarkFails
  PROVE  Spec => []ConfirmedOrRolledBack
BY ClientEndsOnce, PTL

-----------------------------------------------------------------------------
\* The types of the client: its components' and those of its own variables.

OwnTypes ==
  /\ record \in {"none", "staged", "trial", "rolled_back"}
  /\ at \in [Tasks -> At]
  /\ ok \in BOOLEAN /\ offer \in BOOLEAN /\ waiting \in BOOLEAN
  /\ trialLoop \in BOOLEAN /\ late \in BOOLEAN
  /\ boots \in 1..MaxBoots

LEMMA Goes ==
  ASSUME at \in [Tasks -> At], NEW t \in Tasks, NEW p \in At, Goto(t, p)
  PROVE  at' \in [Tasks -> At]
BY DEF Goto

LEMMA OwnInit == Init => OwnTypes
<1> SUFFICES ASSUME Init PROVE OwnTypes
  OBVIOUS
<1>1. at \in [Tasks -> At]
  BY DEF Init, At, BootReport
<1>2. boots \in 1..MaxBoots
  BY FaultsAssumption, SMT DEF Init
<1>3. QED
  BY <1>1, <1>2 DEF Init, OwnTypes

LEMMA OwnStep == inTrial \in BOOLEAN /\ OwnTypes /\ [Next]_vars => OwnTypes'
<1> SUFFICES ASSUME inTrial \in BOOLEAN, OwnTypes, [Next]_vars PROVE OwnTypes'
  OBVIOUS
<1> USE DEF OwnTypes, ownVars, LeaveTrialLoop
<1>0. /\ {"idle", "none", "t_sleep", "t_report", "confirm", "confirming", "reporting",
          "request", "download", "apply", "sleep", "resolve", "restart"} \subseteq At
      /\ \A t \in Tasks : at[t] \in At
  BY DEF At
<1>1. ASSUME NEW t \in Tasks, ConfirmStep(t) PROVE OwnTypes'
  <2>1. \A b \in BOOLEAN : AfterConfirm(t, b) \in At
    BY <1>0 DEF AfterConfirm
  <2>2. CASE ConfirmRunning(t)
    <3>1. at' \in [Tasks -> At]
      BY <1>0, <2>1, <2>2, Goes DEF ConfirmRunning
    <3>2. QED
      BY <2>2, <3>1 DEF ConfirmRunning
  <2>3. CASE Confirming(t)
    <3>1. at' \in [Tasks -> At]
      BY <1>0, <2>1, <2>3, Goes DEF Confirming
    <3>2. QED
      BY <2>3, <3>1 DEF Confirming
  <2>4. CASE QueueConfirmed(t)
    <3>1. at' \in [Tasks -> At]
      BY <1>0, <2>4, Goes DEF QueueConfirmed
    <3>2. QED
      BY <2>4, <3>1 DEF QueueConfirmed
  <2>5. CASE DropTrialRecord(t)
    <3>1. at' \in [Tasks -> At]
      BY <2>1, <2>5, Goes DEF DropTrialRecord
    <3>2. QED
      BY <2>5, <3>1 DEF DropTrialRecord
  <2>6. QED
    BY <1>1, <2>2, <2>3, <2>4, <2>5 DEF ConfirmStep
<1>2. ASSUME NEW t \in Tasks, Check(t) \/ Apply(t) \/ DownloadFails(t) \/ StageAndSwitch(t)
      PROVE  OwnTypes'
  <2>1. AfterApply(t) \in At
    BY <1>0 DEF AfterApply
  <2>2. \E p \in At : Goto(t, p)
    BY <1>0, <1>2, <2>1 DEF Check, Apply, DownloadFails, StageAndSwitch
  <2>3. at' \in [Tasks -> At]
    BY <2>2, Goes
  <2>4. QED
    BY <1>2, <2>3 DEF Check, Apply, DownloadFails, StageAndSwitch
<1>3. ASSUME NEW t \in Tasks, Request(t) PROVE OwnTypes'
  <2>1. PICK good \in BOOLEAN, found \in BOOLEAN :
          /\ offer' = found
          /\ ok' = (t = Managed /\ trialLoop /\ AutoConfirm /\ found)
          /\ Goto(t, AfterCheck(t, found, good))
    BY <1>3 DEF Request
  <2>2. AfterCheck(t, found, good) \in At
    BY <1>0 DEF AfterCheck
  <2>3. at' \in [Tasks -> At]
    BY <2>1, <2>2, Goes
  <2>4. ok' \in BOOLEAN /\ offer' \in BOOLEAN
    BY <2>1
  <2>5. QED
    BY <1>3, <2>3, <2>4 DEF Request
<1>4. CASE TimerStep
  BY <1>4 DEF TimerStep
<1>5. CASE PerformRollback
  BY <1>5 DEF PerformRollback
<1>6. ASSUME NEW t \in Tasks, OutboxStep(t) PROVE OwnTypes'
  BY <1>6 DEF OutboxStep
<1>7. CASE BootStep
  <2>1. at' \in [Tasks -> At]
    BY <1>0, <1>7, AreTasks, Goes DEF BootStep, QueueRolledBack, ResolveRollback
  <2>2. QED
    BY <1>7, <2>1 DEF BootStep, QueueRolledBack, ResolveRollback
<1>8. CASE Begin \/ End
  <2>1. "delay" \in At
    BY DEF At
  <2>2. at' \in [Tasks -> At]
    BY <1>0, <1>8, <2>1, AreTasks, Goes DEF Begin, End
  <2>3. QED
    BY <1>8, <2>2 DEF Begin, End
<1>9. CASE ManagedStep
  <2>1. {"trial", "loop", "connect", "check", "t_sent", "apply", "sleep"} \subseteq At
    BY DEF At
  <2>2. \E p \in At : Goto(Managed, p)
    BY <1>9, <2>1 DEF ManagedStep, TaskStarts, TrialLoop, Connected, DeadlinePassed,
                      SendConfirmed, TrialConfirmed, Sleep
  <2>3. at' \in [Tasks -> At]
    BY <2>2, AreTasks, Goes
  <2>4. CASE TaskStarts
    BY <2>3, <2>4 DEF TaskStarts
  <2>5. CASE TrialLoop \/ Connected \/ DeadlinePassed \/ SendConfirmed \/ TrialConfirmed
             \/ Sleep
    BY <2>3, <2>5 DEF TrialLoop, Connected, DeadlinePassed, SendConfirmed, TrialConfirmed,
                      Sleep
  <2>6. QED
    BY <1>9, <2>4, <2>5 DEF ManagedStep
<1>10. CASE Clock
  BY <1>10 DEF Clock
<1>11. CASE SketchCall
  <2>1. \E p \in At : Goto(Sketch, p)
    <3>1. {"confirm", "check", "restart"} \subseteq At
      BY DEF At
    <3>2. QED
      BY <1>11, <3>1 DEF SketchCall, Entry
  <2>2. at' \in [Tasks -> At]
    BY <2>1, AreTasks, Goes
  <2>3. QED
    BY <1>11, <2>2 DEF SketchCall
<1>12. CASE PowerCycle
  <2>1. at' \in [Tasks -> At]
    BY <1>12 DEF PowerCycle, BootReport, At
  <2>2. boots' \in 1..MaxBoots
    <3>1. boots < MaxBoots /\ boots' = boots + 1
      BY <1>12 DEF PowerCycle
    <3>2. boots \in 1..MaxBoots
      OBVIOUS
    <3>3. QED
      BY <3>1, <3>2, FaultsAssumption, SMT
  <2>3. record' \in {"none", "staged", "trial", "rolled_back"}
    BY <1>12 DEF PowerCycle
  <2>4. QED
    BY <1>12, <2>1, <2>2, <2>3 DEF PowerCycle
<1>13. CASE UNCHANGED vars
  BY <1>13 DEF vars
<1>14. QED
  BY <1>1, <1>2, <1>3, <1>4, <1>5, <1>6, <1>7, <1>8, <1>9, <1>10, <1>11, <1>12, <1>13
  DEF Next, Step, ApplyStep, Restart, Crash, Stopped

\* Every variable keeps its type, for any calls of the sketch and any faults.
THEOREM ClientTypes == Spec => []TypeOK
<1>1. TP!Spec => []TP!TypeOK
  BY TP!OneOwner, PTL
<1>2. OP!Init => OP!Typed
  BY OP!TypeInit
<1>3. OP!Typed /\ [OP!Next]_(OP!vars) => OP!Typed'
  BY OP!TypeStep
<1>4. TP!TypeOK => T!TypeOK
  BY DEF TP!TypeOK, T!TypeOK, TP!Places, T!Places
<1>5. OP!Typed => O!TypeOK
  BY DEF OP!Typed, OP!TypeOK, O!TypeOK, OP!Places, O!Places, OP!Slots, O!Slots,
         OP!Locking, O!Locking, OP!Holding, O!Holding, OP!Posting, O!Posting
<1>6. T!TypeOK /\ O!TypeOK /\ OwnTypes => TypeOK
  BY DEF TypeOK, OwnTypes
<1>7. T!TypeOK => inTrial \in BOOLEAN
  BY DEF T!TypeOK
<1>8. QED
  BY <1>1, <1>2, <1>3, <1>4, <1>5, <1>6, <1>7, OwnInit, OwnStep, ClientImplements, PTL
  DEF Spec, OP!Spec

-----------------------------------------------------------------------------
\* RAM and the record.  RecordMatches by itself says nothing of a drop or a
\* rollback under way: neither may meet an update that waits.

\* Task t is inside confirmRunning().
Ending(t) == at[t] \in {"confirming", "reporting"}

\* No trial runs while an update is downloaded or waits.
NoTrial ==
  /\ waiting => ~inTrial
  /\ \A t \in Tasks : at[t] = "download" => ~inTrial

\* No update waits while a trial is being ended, or boot validation is not done.
NoUpdate ==
  /\ \A t \in Tasks : confirm[t] # "out" => Ending(t) /\ ~waiting
  /\ timer = "rollback" => ~waiting
  /\ at[Sketch] \in {"report", "resolve"} => at[Managed] = "none" /\ ~inTrial /\ ~waiting

Matches ==
  /\ at \in [Tasks -> At]
  /\ TP!TypeOK /\ TP!Owning
  /\ NoTrial /\ NoUpdate /\ RecordMatches

LEMMA MatchesInit == Init => Matches
<1> SUFFICES ASSUME Init PROVE Matches
  OBVIOUS
<1>1. TP!TypeOK /\ TP!Owning
  BY TrialInit, TP!TypeInit, TP!OwningInit
<1>2. at \in [Tasks -> At]
  BY DEF Init, At, BootReport
<1>3. QED
  BY <1>1, <1>2, AreTasks DEF Init, T!StartsIn, Supervised, BootReport, Matches, NoTrial,
     NoUpdate, Ending, RecordMatches, Up, T!Down

LEMMA MatchesStep ==
  ASSUME "stage_race" \notin Faults, Matches, [Next]_vars
  PROVE  Matches'
<1>0. TP!TypeOK' /\ TP!Owning'
  BY TrialNext, TP!TypeStep, TP!OwningStep DEF Matches
<1> SUFFICES at' \in [Tasks -> At] /\ NoTrial' /\ NoUpdate' /\ RecordMatches'
  BY <1>0 DEF Matches
<1> USE AreTasks DEF Matches, NoTrial, NoUpdate, Ending, RecordMatches, Up, T!Down, Goto,
        At, trialVars, TP!TypeOK, TP!Places
<1>1. ASSUME NEW t \in Tasks, ConfirmRunning(t)
      PROVE  at' \in [Tasks -> At] /\ NoTrial' /\ NoUpdate' /\ RecordMatches'
  BY <1>1 DEF ConfirmRunning, T!Claim, T!Claims, T!Goto, AfterConfirm
<1>2. ASSUME NEW t \in Tasks, Confirming(t)
      PROVE  at' \in [Tasks -> At] /\ NoTrial' /\ NoUpdate' /\ RecordMatches'
  <2>1. CASE T!MarkValid(t) \/ T!EndTrial(t) \/ T!StopTimer(t)
    <3>1. UNCHANGED <<at, record, waiting>>
      BY <1>2, <2>1 DEF Confirming, T!MarkValid, T!EndTrial, T!StopTimer, T!Release
    <3>2. /\ (inTrial' => inTrial) /\ verdicts' = verdicts
          /\ timer' = "rollback" => timer = "rollback"
      BY <2>1 DEF T!MarkValid, T!EndTrial, T!StopTimer, T!mux
    <3>3. \A s \in Tasks : confirm'[s] # "out" => confirm[s] # "out"
      BY <2>1 DEF T!MarkValid, T!EndTrial, T!StopTimer, T!Goto
    <3>4. at' \in [Tasks -> At] /\ NoTrial'
      BY <3>1, <3>2
    <3>5. NoUpdate'
      BY <3>1, <3>2, <3>3
    <3>6. RecordMatches'
      BY <3>1, <3>2
    <3>7. QED
      BY <3>4, <3>5, <3>6
  <2>2. CASE T!Release(t)
    BY <1>2, <2>2 DEF Confirming, T!Release, T!Goto, AfterConfirm
  <2>3. QED
    BY <1>2, <2>1, <2>2 DEF Confirming
<1>3. ASSUME NEW t \in Tasks, QueueConfirmed(t)
      PROVE  at' \in [Tasks -> At] /\ NoTrial' /\ NoUpdate' /\ RecordMatches'
  BY <1>3 DEF QueueConfirmed
<1>4. ASSUME NEW t \in Tasks, DropTrialRecord(t)
      PROVE  at' \in [Tasks -> At] /\ NoTrial' /\ NoUpdate' /\ RecordMatches'
  <2>1. confirm[t] = "report" /\ ~inTrial /\ ~waiting
    BY <1>4 DEF DropTrialRecord, T!Report, TP!Owning
  <2>2. QED
    BY <1>4, <2>1 DEF DropTrialRecord, T!Report, T!Goto, T!mux, AfterConfirm
<1>5. ASSUME NEW t \in Tasks, Check(t) \/ Request(t) \/ Apply(t) \/ DownloadFails(t)
      PROVE  at' \in [Tasks -> At] /\ NoTrial' /\ NoUpdate' /\ RecordMatches'
  BY <1>5 DEF Check, Request, Apply, DownloadFails, AfterCheck, AfterApply
<1>6. ASSUME NEW t \in Tasks, StageAndSwitch(t)
      PROVE  at' \in [Tasks -> At] /\ NoTrial' /\ NoUpdate' /\ RecordMatches'
  <2>1. \A s \in Tasks : confirm[s] = "out"
    BY <1>6 DEF StageAndSwitch, StageRace
  <2>2. ~inTrial /\ timer # "rollback"
    BY <1>6 DEF StageAndSwitch, TP!Owning
  <2>3. at[Sketch] \notin {"report", "resolve"}
    BY <1>6 DEF StageAndSwitch, Tasks, Managed, Sketch
  <2>4. QED
    BY <1>6, <2>1, <2>2, <2>3 DEF StageAndSwitch, AfterApply
<1>7. CASE TimerStep
  BY <1>7 DEF TimerStep, T!Expire, T!TimerClaim, T!Claims, T!mux, ownVars
<1>8. CASE PerformRollback
  <2>1. ~waiting /\ verdicts' = verdicts \cup {"rolled_back"}
    BY <1>8 DEF PerformRollback, T!TimerRollback, T!TaskRollback
  <2>2. UNCHANGED <<inTrial, timer, confirm, at, waiting>>
    BY <1>8 DEF PerformRollback, T!TimerRollback, T!TaskRollback, T!mux
  <2>3. QED
    BY <2>1, <2>2
<1>9. CASE BootStep
  BY <1>9 DEF BootStep, QueueRolledBack, ResolveRollback, Managed, Sketch
<1>10. CASE Begin \/ Clock \/ SketchCall
  BY <1>10 DEF Begin, Clock, SketchCall, Entry, Managed, Sketch
<1>11. CASE End
  BY <1>11 DEF End, T!Delete, T!Goto, T!mux, Managed, Sketch
<1>12. CASE ManagedStep
  BY <1>12 DEF ManagedStep, TaskStarts, TrialLoop, Connected, DeadlinePassed,
     SendConfirmed, TrialConfirmed, Sleep, Managed, Sketch
<1>13. CASE PowerCycle
  BY <1>13 DEF PowerCycle, T!Boot, Supervised, BootReport, Managed, Sketch
<1>14. ASSUME NEW t \in Tasks, OutboxStep(t)
       PROVE  at' \in [Tasks -> At] /\ NoTrial' /\ NoUpdate' /\ RecordMatches'
  BY <1>14 DEF OutboxStep, ownVars
<1>15. CASE UNCHANGED vars
  BY <1>15 DEF vars, ownVars
<1>16. QED
  BY <1>1, <1>2, <1>3, <1>4, <1>5, <1>6, <1>7, <1>8, <1>9, <1>10, <1>11, <1>12, <1>13,
     <1>14, <1>15
  DEF Next, Step, ConfirmStep, ApplyStep, Restart, Crash, Stopped

\* A running trial has its record and a waiting update has one, whatever the
\* tasks do and wherever resets and end() strike, unless a whole download
\* completes between clearing _inTrial and dropping the record.
THEOREM ClientRecord ==
  ASSUME "stage_race" \notin Faults
  PROVE  Spec => []RecordMatches
<1>1. Matches => RecordMatches
  BY DEF Matches
<1>2. Matches /\ [Next]_vars => Matches'
  BY MatchesStep
<1>3. QED
  BY <1>1, <1>2, MatchesInit, PTL DEF Spec
=============================================================================
