---------------------------- MODULE TrialInstall ----------------------------
(***************************************************************************)
(* One device, one SimpleOTAClient: an update from the offer to the end of *)
(* its trial, across resets at any step.                                   *)
(*                                                                         *)
(* Flash and NVS survive a reset.  Each NVS put or remove reaches flash on *)
(* its own, so a call that makes several is a sequence of pending writes   *)
(* (todo), applied one per step; what the call reads is read when it       *)
(* starts.  The sketch, the managed task and the confirm timer are one     *)
(* thread here: their interleavings are not the subject of this module.    *)
(*                                                                         *)
(* An image is named by its build number, 0 being the image flashed over   *)
(* USB; the hash of a build, its version label and its deployment are      *)
(* named by the same number, 0 standing for a missing key.                 *)
(*                                                                         *)
(* A definition marked "mutant" is a broken form of the one after it, used *)
(* to see that the properties notice; nothing else refers to it.           *)
(***************************************************************************)
EXTENDS TrialRecord, Outbox, FiniteSets, Functions

CONSTANTS
  Builds,      \* builds the server may offer
  NoRollback,  \* images whose sketch calls setRollbackEnabled(false)
  Labelled,    \* builds offered with a version label that can be stored
  NoImage,     \* content of a slot that holds no complete image
  BootloaderRollback, \* SOTA_BOOTLOADER_ROLLBACK: verifyRollbackLater() is built in
  ResumeOnWake,       \* the bootloader resumes the running image after deep sleep
  Causes,      \* esp_reset_reason_t values of the resets that may strike
  Faults       \* which of the rare failures named in AllFaults can happen

Factory == 0
Images  == {Factory} \cup Builds
Parts   == {1, 2}           \* addresses of ota_0 and ota_1

\* The NVS keys, without the "sota_" they all begin with; 0 is a missing key.
Keys == {"trial", "staged", "prevPart", "prevBuild", "prevHash", "prevVer",
         "build", "hash", "ver", "failDep", "failBuild", "confPend", "rbReason"}

AllFaults == {"stage", "update_end", "mark_valid", "set_boot", "timer",
              "nvs_init", "restored_cut", "confirm_cut", "drop_cut",
              "unstage_cut", "unrecorded_cut"}

ASSUME BuildsAssumption  == Builds \subseteq Nat \ {0}
ASSUME ImageAssumption   == NoImage \notin Nat /\ NoRollback \subseteq Images
                            /\ Labelled \subseteq Builds
ASSUME SwitchAssumption  == BootloaderRollback \in BOOLEAN /\ ResumeOnWake \in BOOLEAN
ASSUME EnvAssumption     == Causes \subseteq Nat /\ Faults \subseteq AllFaults

VARIABLES
  \* flash
  slot,     \* slot[p]: the image in partition p
  boot,     \* the partition otadata selects
  img,      \* img[p]: otadata state of partition p
  nvs,      \* the "simpleota" namespace, one field per key
  outbox,   \* key sota_outbox
  \* the running program
  phase,    \* "off", "boot" (before setup), "setup" (before validation), "run"
  running,  \* the running partition
  cause,    \* esp_reset_reason() of this boot
  waiting,  \* s_updateWaiting
  inTrial,  \* _inTrial
  offer,    \* build of the stored offer, 0 without one
  call,     \* what is left of the library call in progress after todo
  todo,     \* NVS writes of that call still to be made
  \* history, not part of the program
  trusted,  \* partitions whose image was accepted
  attempt   \* the latest update: did it run, which events were queued for it

flash == <<slot, boot, img>>
ram   == <<phase, running, cause, waiting, inTrial, offer, call, todo>>
ghost == <<trusted, attempt>>
vars  == <<flash, nvs, outbox, ram, ghost>>

-----------------------------------------------------------------------------
\* Helpers.

Other(p) == 3 - p
Label(b) == IF b \in Labelled THEN b ELSE 0
RollbackEnabled == slot[running] \notin NoRollback   \* _rollbackEnabled

Put(k, v) == [key |-> k, val |-> v]
Remove(k) == Put(k, 0)

\* Nothing is under way: the sketch may call the library, or sleep.
Ready == phase = "run" /\ call = "none" /\ todo = <<>>

\* sotaReadBootFacts()
Facts == [trial |-> nvs.trial, staged |-> nvs.staged, prevPart |-> nvs.prevPart,
          runningPart |-> running, bootPart |-> boot,
          deepSleepWake |-> cause = RstDeepSleep]

\* stageTrialRecord(): sota_staged first, sota_trial last.
SnapshotWrites ==
  << Put("staged", StagedStarted), Put("prevPart", running),
     Put("prevBuild", nvs.build), Put("prevHash", nvs.hash),
     Put("prevVer", nvs.ver), Put("staged", StagedSnapshot) >>
TrialNotMarked ==                                           \* mutant
  << Put("build", offer), Put("hash", offer), Put("ver", Label(offer)),
     Put("failDep", offer), Put("failBuild", offer), Put("confPend", 1) >>
NewIdentityWrites ==
  << Put("build", offer), Put("hash", offer), Put("ver", Label(offer)),
     Put("failDep", offer), Put("failBuild", offer),
     Put("confPend", 1), Put("trial", 1) >>

\* Without rollback: write the identity, then saveConfirmContext().
\* A label that cannot be stored is not written.
UnsupervisedWrites ==
  << Put("build", offer), Put("hash", offer) >>
  \o (IF offer \in Labelled THEN << Put("ver", offer) >> ELSE <<>>)
  \o << Put("failDep", offer), Put("failBuild", offer), Put("confPend", 1) >>

\* restorePreviousIdentity()
RestoresBuildOnly == << Put("build", nvs.prevBuild) >>      \* mutant
RestoreWrites ==
  << Put("build", nvs.prevBuild), Put("hash", nvs.prevHash),
     Put("ver", nvs.prevVer) >>

\* dropTrialRecord()
DropKeepsTrial ==                                           \* mutant
  << Remove("staged"), Remove("prevBuild"), Remove("prevHash"), Remove("prevVer"),
     Remove("confPend"), Remove("rbReason") >>
DropKeepsContext ==                                         \* mutant
  << Remove("trial"), Remove("staged"), Remove("prevPart"),
     Remove("prevBuild"), Remove("prevHash"), Remove("prevVer"),
     Remove("rbReason") >>
DropWrites ==
  << Remove("trial"), Remove("staged"), Remove("prevPart"),
     Remove("prevBuild"), Remove("prevHash"), Remove("prevVer"),
     Remove("failDep"), Remove("failBuild"), Remove("confPend"),
     Remove("rbReason") >>

\* queueReport() with the report context in NVS.
QueueWrites(event, reason) ==
  LET r == [event |-> event, reason |-> reason,
            deployment |-> nvs.failDep, build |-> nvs.failBuild]
  IN IF Usable(r) THEN << Put("outbox", r) >> ELSE <<>>

ConfirmedWrites == QueueWrites("confirmed", 0) \o DropWrites
QueuesOnly(reason) == QueueWrites("rolled_back", reason)    \* mutant
RolledBackWrites(reason) == QueueWrites("rolled_back", reason) \o DropWrites

-----------------------------------------------------------------------------
\* The device as it leaves the bench: one image, nothing in NVS.

Init ==
  /\ slot = [p \in Parts |-> IF p = 1 THEN Factory ELSE NoImage]
  /\ boot = 1
  /\ img = [p \in Parts |-> "valid"]
  /\ nvs = [k \in Keys |-> 0]
  /\ outbox = <<>>
  /\ phase = "off" /\ running = 1 /\ cause = RstPowerOn
  /\ waiting = FALSE /\ inTrial = FALSE /\ offer = 0
  /\ call = "none" /\ todo = <<>>
  /\ trusted = {1}
  /\ attempt = [ran |-> FALSE, verdicts |-> {}]

-----------------------------------------------------------------------------
\* NVS writes of the call in progress, one per step.

PutKey ==
  /\ todo # <<>> /\ Head(todo).key # "outbox"
  /\ nvs' = [nvs EXCEPT ![Head(todo).key] = Head(todo).val]
  /\ todo' = Tail(todo)
  /\ UNCHANGED <<flash, outbox, phase, running, cause, waiting, inTrial, offer,
                 call, ghost>>

\* sotaOutboxPush() and saveOutbox().
QueueReport ==
  /\ todo # <<>> /\ Head(todo).key = "outbox"
  /\ outbox' = Push(outbox, Head(todo).val)
  /\ attempt' = [attempt EXCEPT !.verdicts = @ \cup {Head(todo).val.event}]
  /\ todo' = Tail(todo)
  /\ UNCHANGED <<flash, nvs, phase, running, cause, waiting, inTrial, offer,
                 call, trusted>>

-----------------------------------------------------------------------------
\* The bootloader and the Arduino core, up to setup().

\* An image still pending at a reset is given up; a new one becomes pending.
\* With both given up the bootloader starts ota_0 (there is no factory slot);
\* a slot without a complete image is passed over.
Bootloader ==
  LET aborted == [p \in Parts |-> IF img[p] = "pending" THEN "aborted" ELSE img[p]]
      pick == IF aborted[boot] # "aborted" THEN boot
              ELSE IF aborted[Other(boot)] # "aborted" THEN Other(boot) ELSE 1
  IN /\ phase = "off"
     /\ ~(cause = RstDeepSleep /\ ResumeOnWake)
     /\ img' = [aborted EXCEPT ![pick] = IF @ = "new" THEN "pending" ELSE @]
     /\ boot' = pick
     /\ running' = IF slot[pick] # NoImage THEN pick ELSE Other(pick)
     /\ attempt' = [attempt EXCEPT !.ran = @ \/ running' \notin trusted]
     /\ phase' = "boot"
     /\ UNCHANGED <<slot, nvs, outbox, cause, waiting, inTrial, offer, call, todo,
                    trusted>>

\* The stock bootloader resumes the running image without reading otadata.
Resume ==
  /\ phase = "off" /\ cause = RstDeepSleep /\ ResumeOnWake
  /\ phase' = "boot"
  /\ UNCHANGED <<flash, nvs, outbox, running, cause, waiting, inTrial, offer, call,
                 todo, ghost>>

\* initArduino(): accept a pending image unless verifyRollbackLater() holds it.
\* With NVS not readable yet nothing is held.
CoreInit ==
  /\ phase = "boot"
  /\ \E readable \in {TRUE} \cup (IF "nvs_init" \in Faults THEN {FALSE} ELSE {}) :
       LET hold == BootloaderRollback /\ readable
                   /\ HoldPendingImage(img[running] = "pending", ClassifyBoot(Facts))
       IN img' = IF img[running] = "pending" /\ ~hold
                   THEN [img EXCEPT ![running] = "valid"] ELSE img
  /\ phase' = "setup"
  /\ UNCHANGED <<slot, boot, nvs, outbox, running, cause, waiting, inTrial, offer,
                 call, todo, ghost>>

\* sotaMarkRunningValid(): a no-op unless the bootloader supervises the trial.
MarkedValid == IF BootloaderRollback THEN [img EXCEPT ![running] = "valid"] ELSE img

NoSwitchBack ==                                             \* mutant
  UNCHANGED <<boot, img>>
SwitchBack ==
  \/ /\ nvs.prevPart \in Parts
     /\ boot' = nvs.prevPart
     /\ img' = [img EXCEPT ![nvs.prevPart] = "new"]
  \/ /\ nvs.prevPart \notin Parts \/ "set_boot" \in Faults
     /\ UNCHANGED <<boot, img>>

\* performRollback(): boot slot first, then the identity, then sota_trial = 2.
RollsBackInPlace(reason) ==                                 \* mutant
  /\ SwitchBack
  /\ todo' = RestoreWrites \o << Put("rbReason", reason), Put("trial", 2) >>
  /\ call' = "none"
  /\ UNCHANGED <<slot, nvs, outbox, running, cause, waiting, offer, ghost>>
PerformRollback(reason) ==
  /\ SwitchBack
  /\ todo' = RestoreWrites \o << Put("rbReason", reason), Put("trial", 2) >>
  /\ call' = "restart"
  /\ UNCHANGED <<slot, nvs, outbox, running, cause, waiting, offer, ghost>>

-----------------------------------------------------------------------------
\* processBootValidation(): the first library call of a boot.

\* Outcomes that only write to NVS.
ValidationWrites(outcome) ==
  CASE outcome = "none" -> IF nvs.confPend # 0 THEN ConfirmedWrites ELSE <<>>
    [] outcome = "report_pending" ->
         RolledBackWrites(IF nvs.rbReason = 0 THEN ConfirmTimedOut ELSE nvs.rbReason)
    [] outcome = "rolled_back" -> RestoreWrites \o RolledBackWrites(RollbackReason(cause))
    [] outcome = "abandoned" ->
         IF AbandonRestoresIdentity(nvs.staged) THEN RestoreWrites \o DropWrites
         ELSE DropWrites
    [] outcome = "incomplete" -> DropWrites
    [] OTHER -> <<>>

\* The running image is on trial, or slept in it, with rollback disabled.
Supervised(outcome) ==
  outcome = "trial" \/ (outcome = "slept_in_trial" /\ ~RollbackEnabled)

BootValidation ==
  LET outcome == ClassifyBoot(Facts) IN
  /\ phase = "setup" /\ outcome \notin {"trial", "slept_in_trial"}
  /\ todo' = ValidationWrites(outcome)
  /\ waiting' = (outcome = "waiting")
  /\ phase' = "run"
  /\ UNCHANGED <<flash, nvs, outbox, running, cause, inTrial, offer, call, ghost>>

\* A trial that reached deep sleep is over.
SleptInTrial ==
  /\ phase = "setup"
  /\ ClassifyBoot(Facts) = "slept_in_trial" /\ RollbackEnabled
  /\ phase' = "run"
  /\ PerformRollback(RstDeepSleep)
  /\ UNCHANGED inTrial

\* startTrial(): first clear sota_staged if a power cut left it behind.
EnterTrial ==
  /\ phase = "setup" /\ Supervised(ClassifyBoot(Facts))
  /\ phase' = "run"
  /\ call' = "start_trial"
  /\ todo' = IF nvs.staged # 0 THEN << Remove("staged") >> ELSE <<>>
  /\ UNCHANGED <<flash, nvs, outbox, running, cause, waiting, inTrial, offer, ghost>>

StartTrial ==
  /\ call = "start_trial" /\ todo = <<>> /\ RollbackEnabled
  /\ inTrial' = TRUE
  /\ call' = "none"
  /\ UNCHANGED <<flash, nvs, outbox, phase, running, cause, waiting, offer, todo,
                 ghost>>

\* The confirm timer could not be created or started.
StartTrialFails ==
  /\ call = "start_trial" /\ todo = <<>> /\ RollbackEnabled /\ "timer" \in Faults
  /\ inTrial' = TRUE
  /\ PerformRollback(ConfirmTimedOut)
  /\ UNCHANGED phase

\* With rollback disabled the image is accepted, whether or not the
\* bootloader could record it.
AcceptUnsupervised ==
  /\ call = "start_trial" /\ todo = <<>> /\ ~RollbackEnabled
  /\ \/ img' = MarkedValid
     \/ "mark_valid" \in Faults /\ UNCHANGED img
  /\ trusted' = trusted \cup {running}
  /\ todo' = ConfirmedWrites
  /\ call' = "none"
  /\ UNCHANGED <<slot, boot, nvs, outbox, phase, running, cause, waiting, inTrial,
                 offer, attempt>>

-----------------------------------------------------------------------------
\* The end of a trial.

\* confirmRunning(): the bootloader first, then the report, then the record.
\* A confirm the bootloader refuses changes nothing.
ConfirmRunning ==
  /\ Ready /\ inTrial
  /\ img' = MarkedValid
  /\ trusted' = trusted \cup {running}
  /\ inTrial' = FALSE
  /\ todo' = ConfirmedWrites
  /\ UNCHANGED <<slot, boot, nvs, outbox, phase, running, cause, waiting, offer,
                 call, attempt>>

\* The confirm timer fires, or a refused confirm finds that it did.
ConfirmTimeout ==
  /\ Ready /\ inTrial
  /\ PerformRollback(ConfirmTimedOut)
  /\ UNCHANGED <<phase, inTrial>>

-----------------------------------------------------------------------------
\* check() and apply().

\* check(): some queued reports are delivered, then the old offer is replaced.
Check ==
  /\ Ready
  /\ \E n \in 0..Len(outbox) : outbox' = SubSeq(outbox, n + 1, Len(outbox))
  /\ offer' \in {0} \cup (Builds \ {nvs.build})
  /\ UNCHANGED <<flash, nvs, phase, running, cause, waiting, inTrial, call, todo,
                 ghost>>

\* apply() passes its guards and Update.begin() claims the other slot.
ApplyOverWaiting ==                                         \* mutant
  /\ Ready /\ ~inTrial /\ offer # 0
  /\ slot' = [slot EXCEPT ![Other(running)] = NoImage]
  /\ trusted' = trusted \ {Other(running)}
  /\ attempt' = [ran |-> FALSE, verdicts |-> {}]
  /\ call' = "download"
  /\ UNCHANGED <<boot, img, nvs, outbox, phase, running, cause, waiting, inTrial,
                 offer, todo>>
ApplyDownload ==
  /\ Ready /\ ~waiting /\ ~inTrial /\ offer # 0
  /\ slot' = [slot EXCEPT ![Other(running)] = NoImage]
  /\ trusted' = trusted \ {Other(running)}
  /\ attempt' = [ran |-> FALSE, verdicts |-> {}]
  /\ call' = "download"
  /\ UNCHANGED <<boot, img, nvs, outbox, phase, running, cause, waiting, inTrial,
                 offer, todo>>

\* Any failure up to the signature check: Update.abort(), clearOffer().
DownloadFails ==
  /\ call = "download"
  /\ call' = "none" /\ offer' = 0
  /\ UNCHANGED <<flash, nvs, outbox, phase, running, cause, waiting, inTrial, todo,
                 ghost>>

\* Checksum and signature hold: with rollback enabled the record goes in first.
DownloadOk ==
  /\ call = "download"
  /\ call' = "switch"
  /\ todo' = IF RollbackEnabled THEN SnapshotWrites \o NewIdentityWrites ELSE <<>>
  /\ UNCHANGED <<flash, nvs, outbox, phase, running, cause, waiting, inTrial, offer,
                 ghost>>

\* A put of the record fails: restore the identity only after a full snapshot.
StageFails ==
  /\ call = "switch" /\ todo # <<>> /\ "stage" \in Faults
  /\ todo' = IF Len(todo) <= Len(NewIdentityWrites) THEN RestoreWrites \o DropWrites
             ELSE DropWrites
  /\ call' = "none" /\ offer' = 0
  /\ UNCHANGED <<flash, nvs, outbox, phase, running, cause, waiting, inTrial, ghost>>

\* Update.end() completes the image and switches the boot slot.  With
\* rollback disabled the sketch takes the image as it is.
UpdateEnd ==
  /\ call = "switch" /\ todo = <<>>
  /\ slot' = [slot EXCEPT ![Other(running)] = offer]
  /\ boot' = Other(running)
  /\ img' = [img EXCEPT ![Other(running)] = "new"]
  /\ trusted' = IF RollbackEnabled THEN trusted ELSE trusted \cup {Other(running)}
  /\ waiting' = TRUE
  /\ todo' = IF RollbackEnabled THEN << Remove("staged") >> ELSE UnsupervisedWrites
  /\ call' = "applied"
  /\ UNCHANGED <<nvs, outbox, phase, running, cause, inTrial, offer, attempt>>

UpdateEndFails ==
  /\ call = "switch" /\ todo = <<>> /\ "update_end" \in Faults
  /\ todo' = IF RollbackEnabled THEN RestoreWrites \o DropWrites ELSE <<>>
  /\ call' = "none" /\ offer' = 0
  /\ UNCHANGED <<flash, nvs, outbox, phase, running, cause, waiting, inTrial, ghost>>

\* apply() returns, or restarts by itself (setAutoReboot).
Applied ==
  /\ call = "applied" /\ todo = <<>>
  /\ offer' = 0
  /\ call' \in {"none", "restart"}
  /\ UNCHANGED <<flash, nvs, outbox, phase, running, cause, waiting, inTrial, todo,
                 ghost>>

\* The sketch restarts the device; its "reboot" event changes no state.
RebootForUpdate ==
  /\ Ready
  /\ call' = "restart"
  /\ UNCHANGED <<flash, nvs, outbox, phase, running, cause, waiting, inTrial, offer,
                 todo, ghost>>

-----------------------------------------------------------------------------
\* Resets.

PowerLoss(c) ==
  /\ phase' = "off" /\ cause' = c
  /\ waiting' = FALSE /\ inTrial' = FALSE /\ offer' = 0
  /\ call' = "none" /\ todo' = <<>>
  /\ UNCHANGED <<flash, nvs, outbox, running, ghost>>

\* esp_restart() at the end of a call.
Restart ==
  /\ call = "restart" /\ todo = <<>>
  /\ PowerLoss(RstSw)

\* Windows in which a reset does harm; each is a fault of its own.
\* - the slot put back is itself on probation until the core accepts it;
RestoredOnProbation ==
  phase = "boot" /\ running \in trusted /\ img[running] = "pending"
\* - the image is accepted, the trial still on record;
AcceptedOnRecord ==
  todo # <<>> /\ running \in trusted /\ nvs.trial = 1 /\ running # nvs.prevPart
\* - the trial is off the record, "confirmed" still due for an image that is not running;
HalfDropped ==
  /\ todo # <<>> /\ nvs.trial = 0 /\ nvs.staged = 0 /\ nvs.confPend = 1
  /\ nvs.failDep # 0 /\ nvs.failBuild # slot[running]
\* - a power cut left sota_staged behind, and the new image that boots now
\*   is reset before it clears it;
LeftStaged == running \notin trusted /\ nvs.staged # 0
\* - an unsupervised switch is made, its identity not yet written.
Unrecorded == call = "applied" /\ todo # <<>> /\ boot \in trusted

\* Power, a crash or a watchdog may end the boot between any two steps;
\* the sketch sleeps between library calls.
Reset(c) ==
  /\ phase # "off"
  /\ c = RstDeepSleep => phase = "setup" \/ Ready
  /\ RestoredOnProbation => "restored_cut" \in Faults
  /\ AcceptedOnRecord => "confirm_cut" \in Faults
  /\ HalfDropped => "drop_cut" \in Faults
  /\ LeftStaged => "unstage_cut" \in Faults
  /\ Unrecorded => "unrecorded_cut" \in Faults
  /\ PowerLoss(c)

-----------------------------------------------------------------------------
Boot == Bootloader \/ Resume \/ CoreInit
Validate == BootValidation \/ SleptInTrial \/ EnterTrial
            \/ StartTrial \/ StartTrialFails \/ AcceptUnsupervised
Apply == ApplyDownload \/ DownloadFails \/ DownloadOk \/ StageFails
         \/ UpdateEnd \/ UpdateEndFails \/ Applied
Write == PutKey \/ QueueReport

Next ==
  \/ Write \/ Boot \/ Validate \/ ConfirmRunning \/ ConfirmTimeout
  \/ Check \/ Apply \/ RebootForUpdate \/ Restart
  \/ \E c \in Causes : Reset(c)

\* What the hardware, the core and the sketch keep doing: boots go through,
\* calls finish, the sketch calls the library once, the confirm timer fires.
Fairness ==
  /\ WF_vars(Write) /\ WF_vars(Boot) /\ WF_vars(Validate)
  /\ WF_vars(DownloadFails \/ DownloadOk) /\ WF_vars(UpdateEnd) /\ WF_vars(Applied)
  /\ WF_vars(Restart) /\ WF_vars(ConfirmTimeout)

Spec == Init /\ [][Next]_vars
FairSpec == Spec /\ Fairness
-----------------------------------------------------------------------------
\* Properties.

Reasons == {0, RstSw, ConfirmTimedOut} \cup NamedResets
KeyType(k) ==
  CASE k \in {"trial", "staged"} -> 0..2
    [] k = "prevPart" -> {0} \cup Parts
    [] k = "confPend" -> 0..1
    [] k = "rbReason" -> Reasons
    [] OTHER -> Images
Report == [event : {"confirmed", "rolled_back"}, reason : Reasons,
           deployment : Builds, build : Builds]

\* A pending write puts a value its key can hold.
Writes == {w \in [key : Keys, val : Nat] : w.val \in KeyType(w.key)}
          \cup [key : {"outbox"}, val : Report]

\* Every variable has its type, every pending write included.
TypeOK ==
  /\ slot \in [Parts -> Images \cup {NoImage}]
  /\ boot \in Parts
  /\ img \in [Parts -> {"new", "pending", "valid", "aborted"}]
  /\ nvs \in [Keys -> Nat] /\ \A k \in Keys : nvs[k] \in KeyType(k)
  /\ outbox \in Seq(Report) /\ Len(outbox) <= Slots
  /\ phase \in {"off", "boot", "setup", "run"}
  /\ running \in Parts
  /\ cause \in Causes \cup {RstSw, RstPowerOn}
  /\ waiting \in BOOLEAN /\ inTrial \in BOOLEAN
  /\ offer \in {0} \cup Builds
  /\ call \in {"none", "start_trial", "download", "switch", "applied", "restart"}
  /\ todo \in Seq(Writes)
  /\ trusted \subseteq Parts
  /\ attempt \in [ran : BOOLEAN, verdicts : SUBSET {"confirmed", "rolled_back"}]

\* README.md, Rollback: "A power cut at any point therefore leaves either the
\* old image running or the new image on trial, never the new image
\* unsupervised."  Whenever the next boot selects an image nobody accepted,
\* the record marks it as a trial and names the other slot, which still holds
\* a complete, accepted image to return to.
NeverUnsupervised ==
  boot \notin trusted =>
    /\ nvs.trial = 1
    /\ nvs.prevPart = Other(boot)
    /\ Other(boot) \in trusted /\ slot[Other(boot)] \in Images

\* The same promise seen from the running program: between library calls an
\* image nobody accepted is in its trial, its confirm timer armed, even when
\* switching the boot slot back can fail.
RunsSupervised == Ready /\ running \notin trusted => inTrial

\* The slot the next boot selects always holds a complete image: apply() never
\* downloads over it, whatever was flashed, resumed or rolled back before.
BootSlotComplete == slot[boot] \in Images

\* Between library calls the identity that check() would send (build number,
\* hash and version label) is that of the image the next boot selects, and
\* of one image only: no cut leaves a mixture of two.
IdentityHonest ==
  Ready => /\ nvs.build = slot[boot] /\ nvs.hash = slot[boot]
           /\ nvs.ver = Label(slot[boot])

\* A report about to be queued.
Queuing(event, b) ==
  \E w \in Range(todo) : w.key = "outbox" /\ w.val.event = event /\ w.val.build = b

\* README.md, OTA lifecycle: "confirmed" is for an update that runs and was
\* accepted; a rolled back or abandoned one never gets it.
ConfirmedIsRunning ==
  \A b \in Builds : Queuing("confirmed", b) => slot[running] = b /\ running \in trusted

\* README.md, Server interaction: "rolled_back" is queued on the image the device
\* returned to, never on the one the report says was left.
RolledBackIsGone ==
  \A b \in Builds : Queuing("rolled_back", b) => slot[running] # b

\* README.md, OTA lifecycle: "If the trial fails instead, ... a rolled_back
\* event takes the place of confirmed."  No update gets both.
OneVerdict == Cardinality(attempt.verdicts) <= 1

\* README.md, OTA lifecycle: with rollback enabled a trial that crashes queues a
\* rolled_back event.  Boot validation drops a record without a report only
\* when the update never ran.
AbandonedNeverRan ==
  phase = "setup" /\ ClassifyBoot(Facts) = "abandoned" => ~attempt.ran

\* SimpleOTAClient.h, setRollbackEnabled(): a device already in a trial boot
\* completes that trial whatever the flag says.  An image on trial is
\* accepted by confirmRunning() only.
AcceptedByTrialOnly ==
  [][running \notin trusted /\ running \in trusted' => inTrial]_vars

\* README.md, Rollback: "a crash or a reset at any point before
\* confirmRunning() ... makes the bootloader return to the previous firmware on
\* the next boot."  An image nobody accepted is started once: the boot after
\* the one it ran in starts an accepted image, whatever the failed rollbacks
\* between them left in otadata.
ReturnsAfterReset ==
  [][Bootloader /\ running \notin trusted => running' \in trusted]_vars

\* No more resets, nor restarts the sketch asks for.
ResetsStop == <>[][~(RebootForUpdate \/ \E c \in Causes : Reset(c))]_vars

\* If resets stop, every saved record is eventually gone, unless the update
\* it belongs to waits for its reboot: no trial goes on for ever.
RecordResolved ==
  ResetsStop => []((nvs.trial # 0) => <>(nvs.trial = 0 \/ (waiting /\ Ready)))

\* README.md, OTA lifecycle: if resets stop, an update that ran on trial gets
\* its "confirmed" or "rolled_back" event.
VerdictReached ==
  ResetsStop => [](attempt.ran => <>(attempt.verdicts # {} \/ ~attempt.ran))

\* The detailed system installs updates as Install promises.
Abstract == INSTANCE Install WITH
  None <- NoImage,
  Unsupervised <- NoRollback,
  accepted <- IF boot \in trusted THEN slot[boot] ELSE slot[Other(boot)],
  candidate <- IF boot \in trusted THEN NoImage ELSE slot[boot]
AbstractSpec == Abstract!Spec
=============================================================================
