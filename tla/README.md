# TLA+ models of SimpleOTAClient

SimpleOTAClient is an Arduino library that updates the firmware of an ESP32
from an OTA server: it checks for an update, downloads it into the other app
partition, checks its hash and signature, switches the boot slot, supervises
the first boot of the new image, and reports how it went. What makes it hard
is that the chip can lose power, crash or be put to sleep between any two
flash writes, that a managed task, the sketch and a timer work on the same
trial, and that what is then in NVS, in otadata and in a watchdog that outlives
resets must still tell the next boot what happened. This directory models
that, checks it with TLC and proves the central results with TLAPS.

    tlc -config Trial.cfg MCTrialInstall.tla      # and so for every run below
    tlapm TrialInstallProofs.tla                  # and every other *Proofs.tla

## The system

Paths are relative to the repository; `Client` is `src/SimpleOTAClient.cpp`.

| Part | State | Operations | Where |
|---|---|---|---|
| Boot classification | none, pure | `sotaClassifyBoot`, `sotaHoldPendingImage`, `sotaAbandonRestoresIdentity`, `sotaRollbackReason` | `src/SimpleOTATrial.h` |
| Trial record and install | NVS keys `sota_*`, boot slot and image states, `s_updateWaiting`, `_inTrial` | `apply`, `stageTrialRecord`, `unstageTrialRecord`, `dropTrialRecord`, `restorePreviousIdentity`, `processBootValidation`, `startTrial`, `confirmRunning`, `performRollback` | `Client` |
| End of a trial | `_inTrial`, `_trialEnding`, `_timeoutMissed` under `_trialMux`, the confirm timer | `claimTrialEnd`, `_confirmTimerCb`, `confirmRunning` | `Client` |
| Report outbox | NVS key `sota_outbox`, RAM copy `_outbox` under `_outboxLock` | push, pop, load, save, `sendPendingReports` | `src/SimpleOTAOutbox.h`, `Client` |
| Managed task | `_taskHandle`, deadlines | `begin`, `end`, `_taskLoop`, `_trialLoop` | `Client` |
| Check and apply | `_hasOffer` and the offer's fields, `_deploymentId` | `check`, `apply`, `report`, `rebootForUpdate`, `clearOffer` | `Client` |
| Signed firmware | pinned keys, verifier contexts | key setters, `sotaSignedGate`, base64, PEM, `SotaSignatureVerifier` | `src/SimpleOTASigning.*` |
| Ed25519 | SHA-512 context, curve arithmetic | incremental check | vendored `src/monocypher*` |
| Chip watchdog | `s_armed`, `s_clamped`, the RTC watchdog | arm, disarm, quiesce, sleep hook | `src/SimpleOTAWdt.c`, `src/SimpleOTAWatchdog.h` |
| Ticks, deadlines | none, pure | conversions, margin, stage value, deadline comparison | `src/SimpleOTATime.h`, `src/SimpleOTAWatchdog.h` |
| URLs | `_serverUrl` | validate, select, join | `src/SimpleOTAUrl.h` |
| HTTP, JSON | none kept | `postJson` with one retry, scanner, escaping writer | `Client` |
| Bootloader, Arduino core | otadata | slot choice, probation, `initArduino()` | external |

How they interact: `initArduino()` calls the library's `verifyRollbackLater()`
before `setup()`, which may arm or quiet the watchdog; the first library call
of a boot runs boot validation, which reads the record and the partitions, may
start a trial (timer, watchdog), may queue a report, and may roll back and
restart. `check()` sends queued reports and stores an offer; `apply()` consumes
it. The confirm timer runs in the timer service task, the managed task runs
`check()`/`apply()` in its own, and the sketch may call `confirmRunning()` from
a third. They share `_trialMux`, `_outboxLock`, and, without a lock, the record
in NVS, the offer and `s_updateWaiting`.

What makes each part correct, and where it is hard:

- *Trial record and install.* No image runs unsupervised; the identity sent to
  the server is that of one image; each update is reported truthfully and
  once. Hard: thirteen NVS puts, a slot switch between two of them, and resets
  between any two.
- *End of a trial.* One of confirm and timer ends it, and a timer that loses to
  a confirm that fails is not lost. Hard: three tasks, and `end()`.
- *Outbox.* Nothing is removed that was not answered or pushed out, oldest
  first. Hard: it is posted without its lock, and saved without a check.
- *Managed task.* RAM and the record agree; every trial ends; every report goes
  out. Hard: all of the above at once.
- *Check and apply.* In signed mode only signed images; one outcome per offer;
  events name their deployment; one TLS session at a time. Hard: a dozen
  failure paths that each must clean up.
- *Watchdog.* It fires over a hung trial and over nothing else. Hard: it
  survives the program that armed it, and its register is narrow.
- *Algorithms.* Each agrees with its standard or with its inverse. Hard:
  boundaries no random test meets.

## Modules

| Module | Models |
|---|---|
| `TrialRecord` | the pure functions of `SimpleOTATrial.h` |
| `Outbox` | push and pop of `SimpleOTAOutbox.h` |
| `TrialInstall` | one device and one client, from the offer to the end of the trial, across resets |
| `Install` | abstract specification: an accepted image, a candidate beside it, accept or reject |
| `TrialEnd` | the end of a trial between its critical sections, any number of tasks |
| `OutboxSend` | queueing, posting and popping reports, any number of tasks |
| `Client` | the managed task, the sketch and the timer over `TrialEnd` and `OutboxSend` |
| `Offer` | `check()`, `apply()`, `report()`: offer, keys, gate, events, sessions |
| `Ticks` | the integer arithmetic of delays, deadlines and the watchdog stage |
| `Watchdog` | the chip watchdog around one trial, on `Ticks` |
| `Sha512` | the buffering and padding of `crypto_sha512_*` |
| `ModL` | reduction modulo L |
| `CheckSignature` | `SotaSignatureVerifier` and the Ed25519 check under it |
| `ServerUrl`, `KeyText`, `Json` | the text helpers |
| `MCTrialInstall`, `MCAlgorithms` | what TLC runs: the constants come from the `.cfg` files; the other runs need no module of their own |
| `TrialInstallProofs` | supervision, and the refinement of `Install` |
| `RecordProofs` | identity and reports of `TrialInstall`, on top of it |
| `TrialEndProofs`, `OutboxSendProofs`, `ClientProofs`, `OfferProofs` | inductive invariants and theorems of the module named |
| `WatchdogProofs` | `Ticks` and `Watchdog` |
| `AlgorithmProofs` | `ModL`, `Sha512`, `ServerUrl` and `KeyText` |

Two seams. `TrialInstall` is one thread and follows every NVS put; `Client` has
the threads and takes the record in NVS as one value per stage of a trial.
`Offer` follows `apply()` step by step and ends at the slot switch;
`TrialInstall` begins the record there and takes the download as one step that
succeeds or fails. A definition marked "mutant" is a plausible slip in the
definition after it, kept to show that a property notices; nothing uses it.

### TrialInstall

`slot`, `boot`, `img` are the flash: what each of the two app partitions
holds, which one otadata selects, and the otadata state of each. `nvs` is the
`simpleota` namespace, one field per key, 0 for a missing key; `outbox` is the
blob `sota_outbox`. `phase` follows a boot: `off`, `boot` (bootloader done, core
initialising), `setup` (before boot validation), `run`. `waiting`, `inTrial`
and `offer` are the RAM of the program. `trusted` and `attempt` are history:
which partitions hold an image somebody accepted, and what the latest update
went through.

A call of the library that writes to NVS is not atomic. Each `Preferences` put
or remove reaches flash on its own, so a call is a sequence of pending writes
`todo`, made one per step by `PutKey` (or `QueueReport` for the outbox), and
`call` is what the call does when they are done. What the code reads at the
start of a call (`restorePreviousIdentity`, `queueReport`) is read when the
sequence is made. A reset drops `todo`; that is a power cut in the middle of
the call.

| Code | Actions |
|---|---|
| `apply()` | `ApplyDownload`, `DownloadFails`, `DownloadOk`, `StageFails`, `UpdateEnd`, `UpdateEndFails`, `Applied` |
| `processBootValidation()` | `BootValidation`, `SleptInTrial`, `EnterTrial` |
| `startTrial()` | `EnterTrial`, `StartTrial`, `StartTrialFails`, `AcceptUnsupervised` |
| `confirmRunning()`, `_confirmTimerCb()` | `ConfirmRunning`, `ConfirmTimeout` |
| `performRollback()` | the operator `PerformRollback`, part of three actions, then `Restart` |
| `rebootForUpdate()` | `RebootForUpdate`, then `Restart` |
| `check()` | `Check` |
| bootloader, `initArduino()` with `verifyRollbackLater()` | `Bootloader`, `Resume`, `CoreInit` |
| power loss, crash, watchdog, deep sleep | `Reset(c)` |

An image is named by its build number; its hash, its version label and its
deployment carry the same number, so that a mixture of two images shows.
A label that cannot be stored (empty or too long) is 0. Reset reasons keep
their `esp_reset_reason_t` numbers.

The bootloader is external, modelled as the code relies on it: an image still
pending at a reset is given up, a new one becomes pending, with both given up
`ota_0` is started, a slot without a complete image is passed over, and on a
wake from deep sleep the stock bootloader may resume the running image without
reading otadata (`ResumeOnWake`). `BootloaderRollback` is
`SOTA_BOOTLOADER_ROLLBACK`; `FALSE` is a build with
`SIMPLEOTA_DISABLE_BOOTLOADER_ROLLBACK` on a bootloader that keeps probation. A
bootloader without probation has fewer behaviours: it never gives an image up.

`Faults` names the rare failures a run allows, so that each run says what it
assumes. `stage`, `update_end`, `mark_valid`, `set_boot`, `timer`, `nvs_init`
are calls that can fail. `restored_cut`, `confirm_cut`, `drop_cut`,
`unstage_cut`, `unrecorded_cut` are resets inside one of five narrow windows
(defined above `Reset`). A reset anywhere else is always allowed. The windows
are where the model found the code to break a promise of its documentation
(see Findings). The run `trial`, and `trial_live` as well, leave all five out and
say what holds with resets everywhere else: they do not show what goes wrong in a window,
which is left to the run `cut_restored` and to `CutConfirm.cfg`, `CutDrop.cfg`
and `CutUnstage.cfg`, each of which violates a promise with one window open. The
run `switch_fails` opens three (`drop_cut`, `unstage_cut`, `unrecorded_cut`):
they cost a report or an identity, not the supervision.

Beside `trial` there are other ways to build and use the library. The run
`switch_fails` has an image that disables rollback and one that does not, the
resume after deep sleep, `esp_ota_set_boot_partition()` and mark-valid failing,
and the three windows just named; with `confirm_cut` as well it passes too (23 270 247
states, close to five minutes). Two configurations are kept for the promises of `trial` in other builds,
which are proved for all of them: `TimerOnly.cfg` without bootloader rollback, so
that only the confirm timer and boot validation supervise a trial, and
`MixedRollback.cfg` with both kinds of image and no failing switch.

### TrialEnd, OutboxSend and Client

`TrialEnd` cuts `confirmRunning()` where another task can get in: the claim,
mark-valid, the section after a failed or a good mark, stopping the timer,
reporting. `confirm[t]` is where task `t` is; `timer` is the FreeRTOS timer and
its callback. `xTimerStop()` with no wait may not reach a full command queue,
so the timer can fire after a confirm.

`OutboxSend` cuts `queueReport()` and `sendPendingReports()` at every lock,
post and save. Reports are numbered in the order they are queued; `outbox` is
the RAM copy, `stored` the blob, which a failed put leaves behind. A posted
report is answered or lost, whether or not the server has it, and `postJson()`
tries twice. A blob that `sotaOutboxValid()` refuses, `end()` at any place and a
reset at any place are covered.

`Client` instantiates both for the tasks "managed" and "sketch" and adds where
each task is (`at`), the offer, `s_updateWaiting`, the record, and the trial
loop. Each action of a component is taken as a whole, with the step of the task
that called it. The HTTP request of `check()` is one step after the reports
went out. The record is `none`, `staged` (by `apply()`), `trial` (booted) or
`rolled_back`; a boot with the last queues its report before it clears it. The
code's `loop()` examples are `SketchCall`: which of begin, end, confirm, poll
(check and apply), reboot a sketch uses is a constant.

Three hazards of `Client` are in `Faults`, off in the passing runs except
the first:

- `end_holding`: `end()` while the managed task holds `_outboxLock`. The lock
  then stays taken for ever, and every later `queueReport()` and `check()` of
  the sketch waits for it. The run `client` allows it: no report or timeout is
  lost by it, and its safety properties do not see the lock. What it does is the
  deadlock of `EndHolds.cfg`; the same configuration without the fault has none.
  The run `client_live` has no `end()`: with it, liveness fails.
- `end_confirming`: `end()` while the managed task is in `confirmRunning()`
  (run `end_deletes`).
- `stage_race`: a whole download that completes while another task is between
  clearing `_inTrial` and dropping the record, a few NVS writes. Then the drop
  removes the new record and `RecordMatches` fails; add it to `Faults` of
  `Client.cfg` to see it.

### Offer

One task. `pc` follows `apply()` from the guards to the restart; every failure
path goes through `Fail`, which aborts the update and closes the connection,
and `ReportFailed`, which posts the event and forgets the offer (two actions
because the order is what `OneSession` is about). An offer's signature is the
key that made it; the image that arrives is intact or not and genuine or not,
independently. The sketch sets keys and the mode between calls, not from
another task during one.

### Watchdog and Ticks

`Watchdog` counts seconds in `timer` and ticks of the slow clock in `wdt`; both
run in `Tick`. `build` ranges over the bootloader's own watchdog, the sleep
hook, `setRollbackEnabled()` and the resume after sleep. `unread` is a boot in
which `nvs_flash_init()` failed in `verifyRollbackLater()`. `Ticks` takes the
widths of words as parameters; the microsecond calibration is a scale factor.

### Algorithms

`Sha512` follows the input buffer and the size counter; the blocks handed to
the compression function are kept as they are, so that `DigestOfMessage` says
that they are the padded message. The padding mark is or-ed into a word that
must be zero, which `SetInput` keeps track of.

`CheckSignature` runs the verifier's two contexts, point decoding, the two
sliding windows, the double-and-add ladder and the formulas in extended
coordinates, one turn of the ladder per step, on the curve with 8 · 37 points
over 269 elements (269 % 8 = 5, as for 2^255 - 19). The reference is the group
equation on affine points with its own addition law. It differs from RFC 8032
where the code does: the digest is reduced modulo L first, a y of Prime or
above is accepted, and the sign of x = 0 is not looked at. The constants of the
code that the small curve cannot show were compared with their definitions by
computation: the table of `mod_l()` is floor(2^512 / L), `D2` is 2d, and
`b_window` holds the odd multiples 1 to 15 of the base point.

`ServerUrl` builds URLs piece by piece and sets them; the code looks for no '?',
'#', '@' or ':' in them, so they are ordinary characters, and that one of these
ends the host early is outside `RequestsReachHost`. `KeyText` reads texts of
base64 digits, white space, padding and armor lines, counts the room of a body in
pieces (an armor line as one), and assumes of the two
lengths the code asks for (64 and 44 bytes) that they do not end a group of four
digits, after which `b64Decode()` would take a zero digit for padding; `Json` writes an object
with `appendJsonString()` and reads it back with the scanner. Answers of the
server are assumed to be escaped as the library escapes its own.

## Runs

| Run | Module, configuration | States | Shows |
|---|---|---|---|
| `trial` | `MCTrialInstall`, `Trial.cfg` | 3 234 996 | supervision, identity and report properties and the refinement of `Install`, with rollback, probation and sleep, and resets between any two steps outside the five windows |
| `trial_live` | `MCTrialInstall`, `TrialLive.cfg` | 899 801 | every record is resolved, every update that ran is reported, also beside an image that disables rollback |
| `switch_fails` | `MCTrialInstall`, `SwitchFails.cfg` | 8 011 401 | when switching back or marking valid fails, an image on trial still runs in its trial only, and only once, with images of both kinds and three of the windows |
| `client` | `Client`, `Client.cfg` | 923 039 | timeouts and reports are kept, RAM matches the record: two tasks, timer, crashes, `end()` |
| `client_live` | `Client`, `ClientLive.cfg` | 31 114 | one of the contenders ends a trial, every trial ends, every report is delivered |
| `offer` | `Offer`, `Offer.cfg` | 589 460 | signature policy, key rotation, events, sessions |
| `watchdog` | `Watchdog`, `Watchdog.cfg` | 15 876 | the watchdog fires over hung trials only, and every trial on probation is resolved |
| `algorithms` | `MCAlgorithms`, `Algorithms.cfg` | 461 882 | five algorithms agree with their reference |
| `cut_restored` | `MCTrialInstall`, `CutRestored.cfg` | | violation: both slots given up, the rejected image boots from `ota_0` |
| `sleep_waiting` | `MCTrialInstall`, `SleepWaiting.cfg` | | violation: the next `apply()` erases the slot about to boot |
| `end_deletes` | `Client`, `EndDeletes.cfg` | | violation: a timeout that nobody acts on |
| `claim_released` | `Client`, `ClaimReleased.cfg` | | violation: two tasks end the same trial |

`TimerOnly.cfg` (1 989 382 states) and `MixedRollback.cfg` (1 085 835), both for
`MCTrialInstall`, pass too and are no runs of their own: what they check are
instances of `AlwaysSupervised`, `KnowsItself` and `ConfirmsItself`.

### Properties

- `TrialInstall`: `NeverUnsupervised`, `RunsSupervised`, `BootSlotComplete` (the
  image that boots is complete, and accepted or on trial); `ReturnsAfterReset` (an
  image reset before it was accepted is not started again); `IdentityHonest`;
  `ConfirmedIsRunning`, `RolledBackIsGone`, `OneVerdict`, `AbandonedNeverRan`
  (what is reported is true, once, and never left out); `RecordResolved`,
  `VerdictReached` (liveness); `AbstractSpec` (refinement of `Install`).
- `Client`: `OneEnds`, `ConfirmedOrRolledBack`, `TimeoutKept` (the end of a
  trial), `NoReportLost`, `OldestFirst` (the outbox), `RecordMatches` (the two
  together with `apply()`), `TrialEnds`, `ReportDelivered` (liveness).
- `Offer`: `SignedOnly`, `RotationVerifies`, `OneOutcome`, `EventsNameTheirs`,
  `OneSession`.
- `Watchdog`: `OnlyOverTrials`, `HungOnly`, `SleepsUndisturbed`, `TrialResolved`.
- Algorithms: `DigestOfMessage`, `SignatureDecides`, `RequestsReachHost`,
  `KeysAreSpelled`, `ReadsBack`.

Each is stated in words above its definition, with the sentence of the
documentation it makes precise where there is one.

### Bounds

- `trial`, `switch_fails`: two updates over the factory image are enough for every
  slot to have been old and new, for the outbox (two slots) to overflow, and
  for an identity to be mixed out of three images. Resets are not counted.
  Two reset causes, power-on (1) and deep sleep (8), are the two that the code
  tells apart other than in the text of a reason. In `trial_live` build 2
  disables rollback, so that an image can also be accepted by starting on trial.
- `client`: `MaxBoots = 2` boots, so that a first boot can stage, confirm or
  roll back and the second finds what it left; `MaxReports = 2 + MaxBoots` (two
  found in NVS, one new per boot) so that the bound stops no report that the
  code would queue and the outbox overflows while a report is posted.
  The sketch polls only while it runs no managed task.
- `client_live`: one boot, nothing fails but requests; the sketch, the managed
  task with auto-confirm and the timer confirm and expire in any order.
- `offer`: two keys, so that one rotates; ids 0 (none) and 1, so that an id can
  be missing, unknown, right or shared; one deployment beside the empty one;
  one `report()` of the sketch between two checks.
- `watchdog`: words of 4 bits, two ticks a second; confirm times 2 and 4 fit
  the register with their margin, 9 does not and is cut, so the cut really
  comes before the confirm timer could need it.
- `algorithms`: blocks of 6 cells with the length at the fourth and fifth place,
  20 bytes in any chunks, a size word of 64 so that the carry happens; a scalar
  word of 512 with L = 37, digests of up to twice that width, six lists of keys
  (none, prime order, y above Prime, with a part of small order, off the curve,
  one too many), every s up to L and two above; URLs of up to six pieces with a
  limit of 12, so that both lengths are reached, and exactly the room
  `postJson()` leaves for a path; texts of up to 6 pieces; objects of two
  members.

Deadlock is checked in every run over `MCTrialInstall`, in `client_live`, `offer`
and `watchdog`. In `client` a deleted task can hold the outbox lock while the
other waits and no crash is left; in `algorithms` a text, a URL and an object
stop growing at their bounds.

### Fairness

- `TrialInstall`: weak fairness for the writes of a call in progress, the steps
  of a boot, the first library call of a boot, the steps of `apply()` once
  started, the restart at the end of a call, and the confirm timer (FreeRTOS
  keeps time whatever the sketch does). None for the sketch: it need never
  confirm, check or apply. Resets, and restarts the sketch itself asks for, are
  assumed to stop, in the properties (`ResetsStop`) and not in the specification.
- `Client`: FreeRTOS runs every task that is ready and the timer service. A
  mutex goes to the longest waiting task of the highest priority, so strong
  fairness for the steps that take one: other tasks cannot win for ever. Strong
  fairness for an answer to a post: a server that loses every request is the one
  case in which a report need not arrive. The sketch starts its managed task.
- `Watchdog`: the slow clock runs, what is due happens, a boot goes on, sleep
  ends, and a sketch that is awake again and again comes to its first library
  call.

## What is proved

Every proof is checked to its leaves. `ASSUME`s on constants are evaluated by
TLC in every run that uses the module.

**`TrialInstallProofs`**, for every set of builds, of reset causes and of images
that disable rollback, and any number of updates and resets: `TypeCorrect`
without further assumptions; `AlwaysSupervised`, `RunsOnTrial`, `Bootable`
(`NeverUnsupervised`, `RunsSupervised`, `BootSlotComplete`) under `Supervisable`:
none of the faults `set_boot`, `mark_valid`, `restored_cut`, and either no image
that disables rollback or a bootloader that does not resume after deep sleep.
The other faults are allowed, the windows `drop_cut`, `confirm_cut`,
`unstage_cut` and `unrecorded_cut` included: they cost a report or an identity,
never the supervision. What `Supervisable` excludes is needed: `cut_restored`
and `sleep_waiting` are the counterexamples without it. With `set_boot` a rejected
image can be the one otadata selects, and with `mark_valid` an image that disables
rollback can stay pending after it accepted itself and be given up at the next
reset: TLC then finds `NeverUnsupervised` violated.

The argument. `NeverUnsupervised` by itself is not inductive: it says nothing
of the writes under way. The inductive invariant `IInv` adds, part by part,

- `OnTrial`: nothing pending touches the record of an image on trial;
- `Staging`: while `apply()` writes the record, `sota_trial` is the last put
  and `sota_prev_part` is written before it, so that when `Update.end()`
  switches the slot the record is complete (this is the ordering the comment
  above `stageTrialRecord()` asks for);
- `PendingMarks`: only staging sets `sota_trial` to 1, only a rollback to 2;
- `WayBack`: a live record leads to an accepted image, which `performRollback()`
  needs;
- `Applying`, `Settled`, `InTrial`, `Starting`, `Waiting`: what holds at each
  place of the program; `Settled` says that outside a trial with no update
  waiting, the running image is the accepted boot image and its record is gone
  or its removal is pending, which is why `apply()` may erase the other slot;
- `Booting`: before boot validation the boot slot runs, or the device woke on
  the old image with an update waiting, which boot validation must recognise;
- `Probation`, `NotHeld`, `CoreAccepts`: the bootloader never gives up the
  accepted image, since the core accepts it when it is not held as a trial.

There is one lemma per action. `IInv` was also checked with TLC, with the other
faults enabled, before it was proved.

In the same module, `InstallsAsPromised`: `TrialInstall` implements `Install`
(`AbstractSpec`), under `Supervisable` and without `confirm_cut`. `IInv` leaves one
way out: an accepted image whose trial is still on record could be tried again
and rolled back, and the accepted image would change with no candidate there.
`OnePrevious` closes it: a live record leaves no accepted image but the previous
one, or it is being dropped. Every step is then one of `Install` or changes
neither the accepted image nor the candidate.

What is left when `esp_ota_set_boot_partition()` and marking valid fail is proved
last: `RunsHeld` (`RunsSupervised`: between library calls an image nobody
accepted is in its trial) and `GivenUp` (`ReturnsAfterReset`: one that was reset
is not started again), for sketches of both kinds and with the resume after deep
sleep, under `BootloaderHolds`: the bootloader does probation, and `nvs_init` and
`restored_cut` do not happen. The proof can not go on as above: `performRollback()`
marks the record as finished even when the boot slot could not be changed, and an
image keeps running unconfirmed after mark-valid failed, so neither the record
nor the boot slot says who is accepted. The state otadata holds for an image
does, and `Held` is about that state: a slot nobody accepted is *new* and on
record until the reboot it waits for (`Unbooted`), *pending* and on record until
its trial ends in a restart (`Tried`), or *aborted* and left for good (`Failed`);
an accepted image with rollback enabled is never aborted (`Kept`, `PutBack`), and
there is one whenever there is an image nobody accepted (`Unaccepted`). The
bootloader, which passes over the aborted slot, then has one choice. The
hypotheses are needed: with each of `nvs_init`, `restored_cut`, and a bootloader
without probation when the switch fails, TLC finds an image nobody accepted
running outside a trial.

**`RecordProofs`**, on `IInv`: what the device says of itself and of its updates.
All assume `Supervisable`, and `Recordable`: no image disables rollback, or every
label is short enough to be stored and no power cut hits a switch without a
record before its identity is written (`StaleLabel.cfg` shows the label).

| Theorem | Property | Also assumes | Because of |
|---|---|---|---|
| `KnowsItself` | `IdentityHonest` | | |
| `ReportsWhatWasLeft` | `RolledBackIsGone` | | |
| `ConfirmsItself` | `ConfirmedIsRunning` | `Undivided`: no `drop_cut` | `CutDrop.cfg` |
| `JudgesOnce` | `OneVerdict` | `Undivided`, and `Dropped`: no `confirm_cut` | `CutConfirm.cfg` |
| `DropsOnlyUnran` | `AbandonedNeverRan` | `Cleared`: no `unstage_cut` | `CutUnstage.cfg` |

`IdentityHonest` speaks of the moments between calls only, and each call writes
identity, report and record one key at a time, with a reset possible after any.
So `RInv` says what the keys mean at every moment. `InFlash` goes by the record:
without one the identity in NVS is that of the boot slot, or the switch without
a record is still writing it (`Identified`); a full snapshot is the identity of
the boot slot (`Snapshot`); on trial the identity to go back to is that of the
previous slot, and the identity of a new image that boots is its own
(`Recorded`); a rollback still to be reported names another image than the boot
slot's (`Returned`). `InProgress` is the order of the pending writes (`Planned`:
identity and report before the mark, the mark before the rest, and that a report
is due last) and how far each call has come. The order is what makes every
prefix of the writes a state the next boot understands; the lemmas on sequences
of writes say that what is left of an ordered sequence is ordered and still
gives the same values.

The other theorems add what is specific to them: `Gone` and `Confirms` follow a
report from the moment it is due (`sota_conf_pend`) to the moment it is queued;
`Judged` says of an update whose verdict is queued or given that the record can
not lead to the other one; `Unran` says where a snapshot can still be there
beside an image that ran. Each was checked with TLC before it was proved.

**`TrialEndProofs`**, for any set of tasks. `Owning` says who holds the claim:
a task between the claim and the section that gives it up, or the timer in its
rollback, one at a time. It is inductive for all constants. `TimeoutNeverLost`
(`TimeoutKept`) adds that the claim has an owner, which needs that tasks are not
deleted inside `confirmRunning()`; `OneEndsTheTrial` (`OneEnds`,
`ConfirmedOrRolledBack`) needs `OneCaller`: marking the image never fails, or
only one task confirms. `end_deletes` and `claim_released` are the
counterexamples without.

**`OutboxSendProofs`**, for any set of tasks, with failing saves, deletions and
resets at any place. `NoReportLost` speaks of NVS, and the next save overwrites
NVS with RAM; so `Kept` says the same of RAM, and that a task about to pop holds
an answered report. `Ordered` says that RAM and NVS are ascending. Theorems
`ReportsAreKept` and `ReportsInOrder`.

**`ClientProofs`**: `ClientImplements`: every step of `Client` is a step of
`OutboxSend` or leaves it alone, and the same for `TrialEnd`, so `Client`
implements both. What is proved of the components then holds of the client:
`ClientKeepsReports`, `ClientSendsInOrder` (`OldestFirst`), `ClientKeepsTimeouts`
(without `end_confirming`), `ClientEndsOnce` and `ClientDecidesOnce` (`OneEnds` and
`ConfirmedOrRolledBack`, without `MarkFails`). `ClientTypes` is `TypeOK`: the types
of the two components come with the refinement, the client's own are one lemma
per action. `ClientRecord` is `RecordMatches`, without
`stage_race`: no trial runs while an update is downloaded or waits, and no update
waits while a trial is being ended, which takes `Owning` of `TrialEnd`.

**`OfferProofs`**, for any keys, ids and deployments: `OfferTypes`, `OnlySigned`
(`SignedOnly`), `RotationWorks` (`RotationVerifies`), `EventsAreNamed`
(`EventsNameTheirs`), `OneOutcomeEach` (`OneOutcome`), `OneSessionOnly` (`OneSession`),
without further assumptions. `Policy` carries the first two: from the gate to the
switch the verifier has the keys the offer calls for, or none because none is
called for. `Naming` carries the events: `_deploymentId` outlives the offer, and
the waiting update has its own.

**`WatchdogProofs`**. Of `Ticks`: `SecondsNeverWrap`, `StageCoversConfirmTime`
(nominal slow clock, calibration 0) and `DeadlineSurvivesWrap` (the signed
comparison of the trial loop), for every width of a word. The first two need
that the product fits 64 bits: for 32-bit seconds it does up to 4 194 304 ticks a
second. Of `Watchdog`, for every width of the register, slow clock and set of
confirm times: `CountsOnlyOverTrials` (`OnlyOverTrials`) and `SleepUndisturbed`
(`SleepsUndisturbed`) without further assumptions. A watchdog that counts was
armed by this boot (`Owned`), which took the sleep hook with it (`Hooked`); a boot
that did not arm it has stopped it, itself or in its bootloader (`BootStops`).
`BitesTheHung` (`HungOnly`) assumes `TicksFit`, that the ticks of every confirm
time fit 64 bits, which at 150 kHz they do for some 3.9 million years; `Later` is
its invariant: the watchdog has a second more to go than the confirm timer, or
was cut and has been counting as long as the timer. It rests on
`StageCoversConfirmTime`.

**`AlgorithmProofs`**. `ReducesModuloL`: for every L, every word of at least 8 L,
and every number below the square of the word, `mod_l()` is the remainder. The
quotient is exact or one short, so the difference is below 2 L and one
conditional subtraction is enough, although only the low word is kept.
`DigestsTheMessage` (`DigestOfMessage`): for every size of block and word and
however the message is cut up, the blocks that are compressed are those of the
padded message. Its invariant says at each step of the loops how many bytes
were consumed (`Pointers`), that whole blocks begin on a boundary (`Boundary`),
that buffer, size counter with its carry and compressed blocks are those of the
bytes consumed (`Streaming`), and that all but the length is in place before the
last block (`Closing`). `UrlReachesHost` (`RequestsReachHost`): for every limit,
default URL and string of pieces. A URL in use was validated; its second piece
is no slash, so stripping stops after the host has begun, and what is left is
not longer. `KeysDecoded` (`KeysAreSpelled`): for every set of digits, every
header and lengths within the assumption, and every text however long, the two
readers yield what the text spells bit by bit, or nothing when it spells nothing.
The relation `Faithful` between the decoder and the digits read so far is kept by
every piece: a decoder that goes on has met no misplaced mark, holds the complete
bytes and, in the low bits of its accumulator, the last digit (`Holds`,
`ByteRead`), whatever the accumulator lost at its width; one that stopped did so
at a misplaced mark or when its buffer was full. `RecursionSolved` gives the
recursion along a text its solution and `AlongText` the induction, over a set of
positions instead of an operator.

Only model-checked:

- liveness under fairness, in `trial_live`, `client_live` and `watchdog`;
- `ReadsBack`, whose scanner and writer are RECURSIVE operators, out of the
  prover's reach;
- `SignatureDecides`, which rests on the group of the curve;
- what happens after `restored_cut`, `confirm_cut`, `drop_cut`, `unstage_cut` and
  `unrecorded_cut` to the properties whose theorem excludes them.

## Findings

Four are runs of their own and listed in `PROJECT.json`: `cut_restored`,
`sleep_waiting`, `end_deletes`, `claim_released`. The others the models show are
kept with a configuration that reproduces each:

| Configuration (module) | Violates | What happens |
|---|---|---|
| `CutDrop.cfg` (`MCTrialInstall`) | `ConfirmedIsRunning` | A power cut inside `dropTrialRecord()` (Client:1348) leaves `sota_conf_pend` without `sota_trial`; the next boot queues `confirmed` for an update that does not run. |
| `CutConfirm.cfg` | `OneVerdict` | A reset after `confirmRunning()` queued `confirmed` (Client:1613) and before the record is gone starts the trial again; if it times out, both verdicts are sent. |
| `CutUnstage.cfg` | `AbandonedNeverRan` | `sota_staged` left by a power cut after the slot switch makes a rollback by the bootloader look like a switch that never happened: never reported (README.md:463). |
| `FlagAccepts.cfg` | `AcceptedByTrialOnly` | An image that disables rollback is accepted at its first boot although a trial is on record; SimpleOTAClient.h:369 says the trial still completes. |
| `EndHolds.cfg` (`Client`) | deadlock freedom | `end()` (Client:490) deletes the managed task while it holds `_outboxLock`; the next `check()` of the sketch waits for the lock for ever. |
| `StaleLabel.cfg` (`MCTrialInstall`) | `IdentityHonest` | With rollback disabled and no storable label, `writeVersionToNvs()` (Client:154) leaves the label of the replaced image. |
| `StrayWatchdog.cfg` (`Watchdog`) | `StrayStopped` | When NVS does not open, `verifyRollbackLater()` returns (Client:1258) before `sota_wdt_quiesce()`, "On a boot that is not a trial: stop a watchdog a reset left running." |

## Not modelled

- Two clients in one sketch, each with its own RAM copy of the outbox and its
  own trial state over one namespace: the documentation shows one.
- The SHA-512 compression function and the limbs of field elements: 64-bit and
  255-bit words of mixing, which TLC cannot enumerate. The parts of monocypher
  the library never calls.
- A power cut between `Update.end()` and the identity writes of an update with
  rollback disabled, as to identity and reports: nothing in the code handles it
  (`unrecorded_cut`, which `switch_fails` allows for the supervision).
- A `Preferences::begin()` that fails after setup: inside `dropTrialRecord()`,
  `restorePreviousIdentity()`, `unstageTrialRecord()` or `saveConfirmContext()`; in
  `performRollback()`, where it skips the slot switch (Client:1553) or the mark and
  its reason (Client:1567); in `confirmRunning()`, where it skips the report
  (Client:1609); and in `processBootValidation()`, which then validates nothing
  (Client:1398). The code goes on in each case, and the model's writes always
  happen unless a reset comes first; a put that fails is modelled in staging and
  in `saveOutbox()`.
- Deep sleep in the middle of a library call; keys set by one task during the
  `apply()` of another.
- The HTTP and TLS clients, `Update`, and the wording of events and reasons.

## Plan

1. The verifier of `CheckSignature` over any group: that the ladder computes
   s·B - h·A follows from the windows alone.
2. `TwoClients`: two instances over one namespace.
