------------------------------ MODULE Watchdog ------------------------------
(***************************************************************************)
(* The chip watchdog around one trial: armed before setup(), again when    *)
(* the library first runs, stopped by a confirm.  It counts on a clock of  *)
(* its own, so it outlives a hang, a software restart and, unless the      *)
(* deep-sleep hook stops it, deep sleep; a boot finds it as the bootloader *)
(* left it.                                                                *)
(*                                                                         *)
(* The confirm timer runs in seconds, the watchdog in ticks of its slow    *)
(* clock.  Flash is cut down to what decides who holds a trial: the state  *)
(* of the new image, the slot selected and sota_trial; TrialInstall has    *)
(* the rest.                                                               *)
(***************************************************************************)
EXTENDS Ticks

CONSTANTS
  ConfirmTimes,   \* arguments of setConfirmTimeout()
  DefaultTime,    \* SIMPLEOTA_CONFIRM_TIMEOUT_S
  MarginFloor,    \* SIMPLEOTA_TRIAL_WDT_MARGIN_S
  SlowHz          \* ticks of the slow clock in a second

ASSUME TimesAssumption ==
  /\ ConfirmTimes \subseteq Word /\ ConfirmTimes # {}
  /\ DefaultTime \in Word /\ MarginFloor \in Word \ {0} /\ SlowHz \in Word \ {0}

VARIABLES
  build,   \* how the two images are built; never changes
  \* flash
  new,     \* otadata state of the new image, "none" before there is one
  boot,    \* the image otadata selects
  record,  \* sota_trial
  \* the chip
  wdt,     \* ticks until the watchdog fires
  cause,   \* of this boot: "deep_sleep" or "other"
  \* the running program
  phase,   \* "off", "core", "setup", "run", "confirming", "asleep"
  running, \* the running image
  hung,    \* nothing is scheduled any more
  armed, clamped, \* s_armed, s_clamped
  hooked,  \* the deep-sleep hook is registered
  timer,   \* seconds until the confirm timer fires, Off outside a trial
  confirmTimeout, \* _confirmTimeoutSec
  \* history
  unread   \* nvs_flash_init() failed in verifyRollbackLater() of this boot

flash == <<build, new, boot, record>>
ram   == <<hung, armed, clamped, hooked, timer, confirmTimeout>>
vars  == <<flash, wdt, cause, phase, running, ram, unread>>

Off == -1

\* bootloaderWdt: CONFIG_BOOTLOADER_WDT_ENABLE.  hook: ESP-IDF 5.1 or later.
\* rollback: setRollbackEnabled().  resume: the bootloader resumes the running
\* image after deep sleep.
Build == [bootloaderWdt : BOOLEAN, hook : BOOLEAN, rollback : BOOLEAN, resume : BOOLEAN]

Probation == running = "new" /\ new = "pending"   \* sotaRunningImagePending()

Init ==
  /\ build \in Build
  /\ new = "none" /\ boot = "old" /\ record = 0
  /\ wdt = Off /\ cause = "other"
  /\ phase = "off" /\ running = "old" /\ hung = FALSE
  /\ armed = FALSE /\ clamped = FALSE /\ hooked = FALSE /\ timer = Off
  /\ confirmTimeout = DefaultTime /\ unread = FALSE

-----------------------------------------------------------------------------
\* SimpleOTAWdt.c

ArmUnhooked(sec) ==                                         \* mutant
  /\ wdt' = StageTicks(LongTicks(sec, MarginFloor, 0, SlowHz, 1, 1))
  /\ armed' = TRUE /\ UNCHANGED <<clamped, hooked>>
Arm(sec) ==
  LET ticks == LongTicks(sec, MarginFloor, 0, SlowHz, 1, 1)
  IN  /\ wdt' = StageTicks(ticks) /\ clamped' = StageClamped(ticks)
      /\ armed' = TRUE /\ hooked' = build.hook

HwOff == wdt' = Off /\ armed' = FALSE /\ clamped' = FALSE

Disarm ==
  /\ IF armed THEN HwOff ELSE UNCHANGED <<wdt, armed, clamped>>
  /\ UNCHANGED hooked

LeavesCounting ==                                           \* mutant
  UNCHANGED <<wdt, armed, clamped, hooked>>
Quiesce ==
  /\ IF build.bootloaderWdt THEN UNCHANGED <<wdt, armed, clamped>> ELSE HwOff
  /\ UNCHANGED hooked

-----------------------------------------------------------------------------
\* Resets and boot.

\* RAM is as the next boot finds it.
Down ==
  /\ phase' = "off" /\ hung' = FALSE
  /\ armed' = FALSE /\ clamped' = FALSE /\ hooked' = FALSE /\ timer' = Off
  /\ confirmTimeout' = DefaultTime

Awake == phase \in {"core", "setup", "run", "confirming"}

\* esp_restart(), a panic: the watchdog counts on.
SoftReset ==
  /\ Awake /\ Down /\ cause' = "other"
  /\ UNCHANGED <<flash, wdt, running, unread>>

PowerCut ==
  /\ Down /\ cause' = "other" /\ wdt' = Off
  /\ UNCHANGED <<flash, running, unread>>

WatchdogFires ==
  /\ wdt = 0
  /\ Down /\ cause' = "other" /\ wdt' = Off
  /\ UNCHANGED <<flash, running, unread>>

\* An image still on probation is given up, a new one put on probation; after
\* deep sleep the running image may go on as it was.
Bootloader ==
  /\ phase = "off" /\ phase' = "core"
  /\ wdt' = IF build.bootloaderWdt THEN Off ELSE wdt
  /\ IF cause = "deep_sleep" /\ build.resume THEN UNCHANGED <<new, boot, running>>
     ELSE LET given_up == new = "pending" \/ new = "aborted"
          IN  /\ boot' = IF given_up THEN "old" ELSE boot
              /\ running' = boot'
              /\ new' = IF given_up THEN "aborted"
                        ELSE IF new = "new" /\ boot = "new" THEN "pending" ELSE new
  /\ UNCHANGED <<build, record, cause, ram, unread>>

\* verifyRollbackLater(), and the core accepting an image that is not held.
CoreInitUnarmed ==                                          \* mutant
  /\ phase = "core" /\ phase' = "setup"
  /\ unread' = FALSE
  /\ new' = IF Probation /\ record # 1 THEN "valid" ELSE new
  /\ UNCHANGED <<build, boot, record, cause, running, hung, timer,
                 confirmTimeout, wdt, armed, clamped, hooked>>
CoreInit ==
  /\ phase = "core" /\ phase' = "setup"
  /\ LET hold == Probation /\ record = 1
     IN  \/ /\ hold /\ Arm(DefaultTime)
            /\ unread' = FALSE /\ UNCHANGED new
         \/ /\ ~hold /\ Quiesce
            /\ unread' = FALSE /\ new' = IF Probation THEN "valid" ELSE new
         \/ /\ unread' = TRUE /\ new' = IF Probation THEN "valid" ELSE new
            /\ UNCHANGED <<wdt, armed, clamped, hooked>>
  /\ UNCHANGED <<build, boot, record, cause, running, hung, timer, confirmTimeout>>

-----------------------------------------------------------------------------
\* The sketch.

\* An update of this library, or of another updater without a trial record.
Install ==
  /\ phase = "run" /\ running = "old" /\ boot = "old" /\ record = 0 /\ ~hung
  /\ new' = "new" /\ boot' = "new" /\ record' \in {0, 1}
  /\ UNCHANGED <<build, wdt, cause, phase, running, ram, unread>>

\* performRollback(), up to its restart.
Rollback == boot' = "old" /\ record' = 2

\* processBootValidation() at the first library call.
FirstCall ==
  /\ phase = "setup" /\ ~hung
  /\ LET trial == record = 1 /\ running = "new"
         slept == trial /\ cause = "deep_sleep"
     IN \/ /\ slept /\ build.rollback
           /\ Rollback /\ Down
           /\ wdt' = IF armed THEN Off ELSE wdt
           /\ cause' = "other" /\ UNCHANGED new
        \/ /\ trial /\ ~build.rollback
           /\ Disarm /\ new' = "valid" /\ record' = 0 /\ phase' = "run"
           /\ UNCHANGED <<boot, cause, hung, timer, confirmTimeout>>
        \/ /\ trial /\ ~slept /\ build.rollback
           /\ \E sec \in ConfirmTimes :
                /\ timer' = sec /\ confirmTimeout' = sec
                /\ IF Probation THEN Arm(sec)
                   ELSE UNCHANGED <<wdt, armed, clamped, hooked>>
           /\ phase' = "run"
           /\ UNCHANGED <<new, boot, record, cause, hung>>
        \/ /\ ~trial
           /\ Disarm /\ record' = IF boot = "new" THEN record ELSE 0
           /\ phase' = "run"
           /\ UNCHANGED <<new, boot, cause, hung, timer, confirmTimeout>>
  /\ UNCHANGED <<build, running, unread>>

\* confirmRunning(): the bootloader is told, then the watchdog is stopped, then
\* the timer and the record go.
Confirm ==
  /\ phase = "run" /\ timer # Off /\ ~hung
  /\ phase' = "confirming" /\ new' = "valid"
  /\ UNCHANGED <<build, boot, record, wdt, cause, running, ram, unread>>

Confirmed ==
  /\ phase = "confirming" /\ ~hung
  /\ Disarm /\ phase' = "run" /\ timer' = Off /\ record' = 0
  /\ UNCHANGED <<build, new, boot, cause, running, hung, confirmTimeout, unread>>

TimerFires ==
  /\ phase = "run" /\ timer = 0 /\ ~hung
  /\ Rollback /\ Down /\ cause' = "other"
  /\ UNCHANGED <<build, new, wdt, running, unread>>

Hang ==
  /\ phase \in {"setup", "run", "confirming"} /\ hung' = TRUE
  /\ UNCHANGED <<flash, wdt, cause, phase, running, armed, clamped, hooked, timer,
                 confirmTimeout, unread>>

\* Deep sleep; the hook runs first.
Sleep ==
  /\ phase \in {"setup", "run"} /\ ~hung
  /\ phase' = "asleep"
  /\ wdt' = IF hooked /\ armed THEN Off ELSE wdt
  /\ armed' = FALSE /\ clamped' = FALSE /\ hooked' = FALSE /\ timer' = Off
  /\ confirmTimeout' = DefaultTime
  /\ UNCHANGED <<flash, cause, running, hung, unread>>

Wake ==
  /\ phase = "asleep" /\ phase' = "off" /\ cause' = "deep_sleep"
  /\ UNCHANGED <<flash, wdt, running, ram, unread>>

-----------------------------------------------------------------------------
\* A second passes: not while the watchdog or the confirm timer is due.  What
\* runs between two calls of the sketch takes no time here.
Left(t, d) == IF t = Off THEN Off ELSE IF t > d THEN t - d ELSE 0
Tick ==
  /\ wdt # 0 /\ (timer = 0 => hung)
  /\ phase \in {"setup", "run", "asleep"} \/ hung
  /\ wdt' = Left(wdt, SlowHz) /\ timer' = Left(timer, 1)
  /\ UNCHANGED <<flash, cause, phase, running, hung, armed, clamped, hooked,
                 confirmTimeout, unread>>

Resets == SoftReset \/ PowerCut \/ WatchdogFires
Sketch == Install \/ FirstCall \/ Confirm \/ Confirmed \/ Sleep
Next == Resets \/ Bootloader \/ CoreInit \/ Sketch \/ TimerFires \/ Hang \/ Wake \/ Tick

Spec == Init /\ [][Next]_vars

\* The clock runs, what is due happens, a boot goes on, sleep ends.  A sketch
\* that is not hung and keeps waking comes to call the library.
Fairness ==
  /\ WF_vars(Tick) /\ WF_vars(WatchdogFires) /\ WF_vars(TimerFires)
  /\ WF_vars(Bootloader) /\ WF_vars(CoreInit) /\ WF_vars(Wake)
  /\ SF_vars(FirstCall)
FairSpec == Spec /\ Fairness

-----------------------------------------------------------------------------
\* Outside a trial on probation the watchdog does not count: it never resets
\* an image that was accepted, nor the old one, whatever reset it outlived.
\* A boot whose NVS could not be read is the exception (StrayStopped).
OnlyOverTrials ==
  phase \in {"setup", "run", "asleep"} /\ wdt # Off => Probation \/ unread

\* A trial that is not hung is ended by its confirm timer: the watchdog comes
\* later, or was cut to the most its register holds and has counted all of it.
HungOnly ==
  wdt = 0 /\ phase = "run" /\ timer # Off /\ ~hung /\ ~unread =>
    clamped /\ SlowHz * (confirmTimeout - timer) >= WordMax

\* With the hook deep sleep never ends in a watchdog reset.
SleepsUndisturbed == phase = "asleep" /\ build.hook => wdt = Off \/ unread

\* A new image on probation does not stay there: also when it hangs, never
\* calls the library, or sleeps.
TrialResolved == Probation ~> (running = "old" \/ new = "valid")

\* SimpleOTAWatchdog.h says of sota_wdt_quiesce(): "On a boot that is not a
\* trial: stop a watchdog a reset left running."
StrayStopped == phase \in {"setup", "run"} /\ wdt # Off => Probation
=============================================================================
