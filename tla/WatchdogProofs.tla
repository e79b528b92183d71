---------------------------- MODULE WatchdogProofs ----------------------------
(***************************************************************************)
(* The integer arithmetic of delays, stages and deadlines is exact, or     *)
(* saturates, for words of any width; and the chip watchdog, which counts  *)
(* in that arithmetic, bites only over a trial and only one that hangs,    *)
(* for any confirm times and any rate of its clock.                        *)
(***************************************************************************)
EXTENDS Watchdog, TLAPS

-----------------------------------------------------------------------------
(***************************************************************************)
(* Ticks.                                                                  *)
(***************************************************************************)

LEMMA DivisionBounds ==
  ASSUME NEW a \in Int, NEW b \in Nat \ {0}
  PROVE  /\ a \div b \in Int /\ a % b \in 0 .. b - 1
         /\ a = b * (a \div b) + (a % b)
  BY SMT

LEMMA WordOf ==
  ASSUME NEW n \in Int
  PROVE  /\ AsWord(n) \in 0 .. WordMax
         /\ \E a \in Int : n = (WordMax + 1) * a + AsWord(n)
<1>1. WordMax + 1 \in Nat \ {0} /\ (WordMax + 1) - 1 = WordMax
  BY WidthAssumption, SMT
<1> QED BY <1>1, DivisionBounds DEF AsWord

LEMMA DivisionOfProduct ==
  ASSUME NEW a \in Nat, NEW b \in Nat \ {0}
  PROVE  (a * b) \div b = a
<1> DEFINE q == (a * b) \div b
           z == (a * b) % b
<1>1. a * b \in Int
  BY SMT
<1>2. q \in Int /\ z \in 0 .. b - 1 /\ a * b = b * q + z
  BY <1>1, DivisionBounds
<1> HIDE DEF q, z
<1>3. (a - q) * b = z
  BY <1>2, SMT
<1>4. a - q < 1 /\ -1 < a - q
  BY <1>2, <1>3, SMT
<1>5. q = a
  BY <1>2, <1>4, SMT
<1> QED BY <1>5 DEF q

\* sotaSecondsToTicks(): no duration wraps to a shorter one; it is exact or the
\* longest there is, as long as a word of seconds in milliseconds times the
\* tick rate fits 64 bits (SimpleOTATime.h, "multiply in 64 bits and
\* saturate").
THEOREM SecondsNeverWrap ==
  ASSUME NEW seconds \in Word, NEW tickHz \in Nat, 1000 * WordMax * tickHz <= LongMax
  PROVE  SecondsToTicks(seconds, tickHz) =
           IF seconds * tickHz > WordMax THEN WordMax ELSE seconds * tickHz
<1>1. WordMax \in Nat /\ LongMax \in Nat /\ seconds \in Nat /\ seconds <= WordMax
  BY WidthAssumption, SMT DEF Word
<1>2. seconds * 1000 \in Nat /\ seconds * tickHz \in Nat
  BY <1>1, SMT
<1>3. (seconds * 1000) * tickHz \in 0 .. LongMax
  <2>1. seconds * (1000 * tickHz) <= WordMax * (1000 * tickHz)
    BY <1>1, SMT
  <2> QED BY <2>1, <1>1, SMT
<1>4. AsLong((seconds * 1000) * tickHz) = (seconds * tickHz) * 1000
  BY <1>1, <1>3, SMT DEF AsLong
<1>5. AsLong((seconds * 1000) * tickHz) \div 1000 = seconds * tickHz
  BY <1>2, <1>4, DivisionOfProduct
<1>6. CASE tickHz = 0
  <2>1. SecondsToTicks(seconds, tickHz) = Saturated(AsLong(AsLong(seconds * 1000) * 0) \div 1000)
    BY <1>6 DEF SecondsToTicks, MillisToTicks
  <2>2. AsLong(seconds * 1000) * 0 = 0
    BY <1>1, <1>2, DivisionBounds, SMT DEF AsLong
  <2>3. AsLong(0) \div 1000 = 0
    BY <1>1, SMT DEF AsLong
  <2> QED BY <2>1, <2>2, <2>3, <1>1, <1>6, SMT DEF Saturated
<1>7. CASE tickHz # 0
  <2>1. seconds * 1000 <= LongMax
    <3>1. (seconds * 1000) * 1 <= (seconds * 1000) * tickHz
      BY <1>2, <1>7, SMT
    <3> QED BY <3>1, <1>1, <1>2, <1>3, SMT
  <2>2. AsLong(seconds * 1000) = seconds * 1000
    BY <2>1, <1>1, <1>2, SMT DEF AsLong
  <2>3. SecondsToTicks(seconds, tickHz) = Saturated(seconds * tickHz)
    BY <2>2, <1>5 DEF SecondsToTicks, MillisToTicks
  <2> QED BY <2>3 DEF Saturated
<1> QED BY <1>6, <1>7

\* sotaWatchdogStageTicks() on the nominal slow clock: the stage is the whole
\* confirm time and its margin, or says that it was cut and is as long as the
\* register allows, so the watchdog leaves the confirm timer its time.
THEOREM StageCoversConfirmTime ==
  ASSUME NEW confirmSec \in Word, NEW floorSec \in Word, NEW hz \in Word \ {0},
         NEW scale \in Nat, NEW perSec \in Nat,
         (confirmSec + MarginSec(confirmSec, floorSec)) * hz <= LongMax
  PROVE  LET ticks == LongTicks(confirmSec, floorSec, 0, hz, scale, perSec)
         IN  /\ StageTicks(ticks) \in Word
             /\ StageClamped(ticks) => StageTicks(ticks) = WordMax
             /\ ~StageClamped(ticks) =>
                  (confirmSec + MarginSec(confirmSec, floorSec)) * hz <= StageTicks(ticks)
<1> DEFINE margin == MarginSec(confirmSec, floorSec)
           ticks == LongTicks(confirmSec, floorSec, 0, hz, scale, perSec)
<1>1. WordMax \in Nat /\ WordMax > 1 /\ LongMax \in Nat
      /\ confirmSec \in Nat /\ floorSec \in Nat /\ hz \in Nat /\ hz # 0
  BY WidthAssumption, SMT DEF Word
<1>2. margin \in Nat
  <2>1. confirmSec \div 10 \in Nat
    BY <1>1, SMT
  <2> QED BY <2>1, <1>1, SMT DEF MarginSec
<1>3. ticks = AsLong((confirmSec + margin) * hz)
  BY <1>1 DEF LongTicks
<1> HIDE DEF margin, ticks
<1>4. (confirmSec + margin) * hz \in 0 .. LongMax
  BY <1>1, <1>2, SMT DEF margin
<1>5. ticks = (confirmSec + margin) * hz
  BY <1>1, <1>3, <1>4, SMT DEF AsLong
<1>6. /\ StageTicks(ticks) \in Word
      /\ StageClamped(ticks) => StageTicks(ticks) = WordMax
      /\ ~StageClamped(ticks) => (confirmSec + margin) * hz <= StageTicks(ticks)
  BY <1>1, <1>4, <1>5, SMT DEF StageTicks, StageClamped, Word
<1> QED BY <1>6 DEF ticks, margin

\* The deadline of _trialLoop(): with millis() wrapping, the loop goes on while
\* less than the confirm time has passed and stops from then on, as long as it
\* looks again within half the range of a word.
THEOREM DeadlineSurvivesWrap ==
  ASSUME NEW start \in Word, NEW span \in 0 .. WordMax \div 2, NEW passed \in Nat,
         passed <= span + WordMax \div 2
  PROVE  Before(AsWord(start + passed), AsWord(start + span)) <=> passed < span
<1> DEFINE M == WordMax + 1
           half == WordMax \div 2
           now == AsWord(start + passed)
           deadline == AsWord(start + span)
           left == AsWord(deadline - now)
<1>1. M \in Nat \ {0} /\ half \in Nat /\ M = 2 * half + 2 /\ WordMax \in Nat
      /\ start \in Nat /\ span \in Nat /\ span <= half
  BY WidthAssumption, SMT DEF Word
<1>2. PICK a \in Int : now \in 0 .. M - 1 /\ start + passed = M * a + now
  <2>1. start + passed \in Int /\ M - 1 = WordMax
    BY <1>1, SMT
  <2> QED BY <2>1, WordOf
<1>3. PICK b \in Int : deadline \in 0 .. M - 1 /\ start + span = M * b + deadline
  <2>1. start + span \in Int /\ M - 1 = WordMax
    BY <1>1, SMT
  <2> QED BY <2>1, WordOf
<1> HIDE DEF now, deadline
<1>4. PICK c \in Int : left \in 0 .. M - 1 /\ deadline - now = M * c + left
  <2>1. deadline - now \in Int /\ M - 1 = WordMax
    BY <1>1, <1>2, <1>3, SMT
  <2> QED BY <2>1, WordOf
<1> HIDE DEF left, M, half
<1>5. PICK k \in Int : span - passed = M * k + left
  <2>1. span - passed = M * (b - a + c) + left /\ b - a + c \in Int
    BY <1>1, <1>2, <1>3, <1>4, SMT
  <2> QED BY <2>1
<1>6. k = 0 \/ k = -1
  <2>1. -M < M * k + left /\ M * k + left < M
    BY <1>1, <1>4, <1>5, SMT DEF half
  <2>2. M * k < M * 1 /\ M * (-2) < M * k
    BY <2>1, <1>1, <1>4, SMT
  <2> QED BY <2>2, <1>1, SMT
<1>7. CASE k = 0
  <2>1. left = span - passed /\ left <= half
    BY <1>7, <1>1, <1>4, <1>5, SMT
  <2> QED BY <2>1, <1>1, SMT DEF Before, Signed, left, now, deadline, half
<1>8. CASE k = -1
  <2>1. left = span - passed + M /\ passed > span
    BY <1>8, <1>1, <1>4, <1>5, SMT
  <2>2. left > half /\ left < M
    BY <2>1, <1>1, <1>4, SMT DEF half
  <2> QED BY <2>1, <2>2, <1>1, SMT DEF Before, Signed, left, now, deadline, half, M
<1> QED BY <1>6, <1>7, <1>8

-----------------------------------------------------------------------------
(***************************************************************************)
(* The watchdog.                                                           *)
(***************************************************************************)

Times == {Off} \cup Nat

WType ==
  /\ build \in Build
  /\ new \in {"none", "new", "pending", "valid", "aborted"}
  /\ boot \in {"old", "new"} /\ running \in {"old", "new"} /\ record \in 0..2
  /\ wdt \in Times /\ timer \in Times /\ confirmTimeout \in Word
  /\ cause \in {"deep_sleep", "other"}
  /\ phase \in {"off", "core", "setup", "run", "confirming", "asleep"}
  /\ hung \in BOOLEAN /\ armed \in BOOLEAN /\ clamped \in BOOLEAN /\ hooked \in BOOLEAN
  /\ unread \in BOOLEAN

\* Only what runs hangs or has a confirm timer.
Scheduled ==
  /\ hung => phase \in {"setup", "run", "confirming"}
  /\ timer # Off => phase \in {"run", "confirming"}

\* A bootloader with a watchdog of its own stops this one.
BootStops == phase = "core" /\ build.bootloaderWdt => wdt = Off

\* A watchdog that counts is one that this boot armed, ...
Owned == phase \in {"setup", "run", "confirming"} /\ wdt # Off => armed \/ unread

\* ... and the deep-sleep hook goes with it.
Hooked == armed /\ build.hook => hooked

\* Watchdog and confirm timer count together: the watchdog has a second more
\* than the timer, or was cut to the most its register holds.
Later ==
  phase = "run" /\ timer # Off /\ ~hung /\ ~unread /\ wdt # Off =>
    /\ timer <= confirmTimeout
    /\ IF clamped THEN wdt + SlowHz * (confirmTimeout - timer) >= WordMax
       ELSE wdt >= SlowHz * (timer + 1)

WInv == WType /\ Scheduled /\ BootStops /\ Owned /\ Hooked /\ OnlyOverTrials /\ SleepsUndisturbed

\* The ticks of every confirm time fit 64 bits: 86400 seconds and the margin
\* at 150 kHz need 34.
TicksFit ==
  \A sec \in ConfirmTimes : (sec + MarginSec(sec, MarginFloor)) * SlowHz <= LongMax

-----------------------------------------------------------------------------
\* The watchdog armed for a confirm time.

LEMMA ArmedTicks ==
  ASSUME NEW sec \in Word
  PROVE  StageTicks(LongTicks(sec, MarginFloor, 0, SlowHz, 1, 1)) \in Nat
<1> DEFINE ticks == LongTicks(sec, MarginFloor, 0, SlowHz, 1, 1)
<1>1. sec \in Nat /\ MarginFloor \in Nat /\ SlowHz \in Nat /\ WordMax \in Nat /\ LongMax \in Nat
  BY WidthAssumption, TimesAssumption DEF Word
<1>2. MarginSec(sec, MarginFloor) \in Nat
  BY <1>1, SMT DEF MarginSec
<1>3. ticks = AsLong((sec + MarginSec(sec, MarginFloor)) * SlowHz) \/ SlowHz = 0
  BY DEF LongTicks
<1>4. SlowHz # 0
  BY TimesAssumption
<1>5. (sec + MarginSec(sec, MarginFloor)) * SlowHz \in Int /\ LongMax + 1 \in Nat \ {0}
  BY <1>1, <1>2, SMT
<1> HIDE DEF ticks
<1>6. ticks \in 0 .. (LongMax + 1) - 1
  <2>1. ticks = ((sec + MarginSec(sec, MarginFloor)) * SlowHz) % (LongMax + 1)
    BY <1>3, <1>4 DEF AsLong
  <2> QED BY <2>1, <1>5, DivisionBounds
<1>7. ticks \in Nat
  BY <1>1, <1>6, SMT
<1>8. StageTicks(ticks) \in Nat
  BY <1>1, <1>7, SMT DEF StageTicks
<1> QED BY <1>8 DEF ticks

\* It has a second more than the confirm timer, or the largest stage.
LEMMA ArmedLater ==
  ASSUME TicksFit, NEW sec \in ConfirmTimes
  PROVE  LET ticks == LongTicks(sec, MarginFloor, 0, SlowHz, 1, 1)
         IN  IF StageClamped(ticks) THEN StageTicks(ticks) >= WordMax
             ELSE StageTicks(ticks) >= SlowHz * (sec + 1)
<1> DEFINE ticks == LongTicks(sec, MarginFloor, 0, SlowHz, 1, 1)
           margin == MarginSec(sec, MarginFloor)
<1>1. /\ sec \in Word /\ MarginFloor \in Word /\ SlowHz \in Word \ {0}
      /\ (sec + margin) * SlowHz <= LongMax
  BY TimesAssumption DEF TicksFit
<1>2. sec \in Nat /\ MarginFloor \in Nat \ {0} /\ SlowHz \in Nat /\ WordMax \in Nat
  BY WidthAssumption, TimesAssumption, <1>1 DEF Word
<1>3. margin \in Nat /\ margin >= 1
  BY <1>2, SMT DEF MarginSec
<1>4. /\ StageTicks(ticks) \in Word
      /\ StageClamped(ticks) => StageTicks(ticks) = WordMax
      /\ ~StageClamped(ticks) => (sec + margin) * SlowHz <= StageTicks(ticks)
  BY <1>1, StageCoversConfirmTime
<1> HIDE DEF ticks, margin
<1>5. StageTicks(ticks) \in Nat
  BY <1>2, <1>4, SMT DEF Word
<1>6. SlowHz * (sec + 1) <= (sec + margin) * SlowHz
  BY <1>2, <1>3, SMT
<1>7. SlowHz * (sec + 1) \in Nat /\ (sec + margin) * SlowHz \in Nat
  BY <1>2, <1>3, SMT
<1>8. IF StageClamped(ticks) THEN StageTicks(ticks) >= WordMax
      ELSE StageTicks(ticks) >= SlowHz * (sec + 1)
  BY <1>2, <1>4, <1>5, <1>6, <1>7, SMT
<1> QED BY <1>8 DEF ticks

LEMMA Constants ==
  /\ DefaultTime \in Word /\ ConfirmTimes \subseteq Word /\ Word \subseteq Nat
  /\ SlowHz \in Nat \ {0} /\ WordMax \in Nat /\ Off \notin Nat
BY WidthAssumption, TimesAssumption DEF Word, Off

LEMMA LeftType == \A t \in Times, d \in Nat : Left(t, d) \in Times /\ (t = Off => Left(t, d) = Off)
BY SMT DEF Left, Times, Off

LEMMA DisarmType ==
  ASSUME WType, Disarm
  PROVE  /\ wdt' \in Times /\ armed' \in BOOLEAN /\ clamped' \in BOOLEAN /\ hooked' \in BOOLEAN
         /\ wdt' = wdt \/ wdt' = Off
         /\ armed => wdt' = Off /\ armed' = FALSE
         /\ ~armed => wdt' = wdt /\ armed' = armed
<1>1. Off \in Times
  BY DEF Times
<1>2. CASE armed
  BY <1>1, <1>2 DEF Disarm, HwOff, WType
<1>3. CASE ~armed
  BY <1>1, <1>3 DEF Disarm, WType
<1> QED BY <1>2, <1>3

\* What a reset leaves of RAM.
LEMMA DownType ==
  ASSUME Down
  PROVE  /\ phase' = "off" /\ hung' = FALSE /\ armed' = FALSE /\ clamped' = FALSE
         /\ hooked' = FALSE /\ timer' = Off /\ timer' \in Times /\ confirmTimeout' \in Word
BY Constants DEF Down, Times

LEMMA TypeStep == WType /\ [Next]_vars => WType'
<1> SUFFICES ASSUME WType, [Next]_vars PROVE WType'
  OBVIOUS
<1> USE Constants DEF WType, flash, ram
<1>1. Off \in Times /\ Word \subseteq Times
  BY DEF Times
<1>2. CASE Resets
  BY <1>1, <1>2 DEF Resets, SoftReset, PowerCut, WatchdogFires, Down
<1>3. CASE Bootloader
  BY <1>1, <1>3 DEF Bootloader
<1>4. ASSUME NEW sec \in Word, Arm(sec)
      PROVE  wdt' \in Times /\ armed' \in BOOLEAN /\ clamped' \in BOOLEAN /\ hooked' \in BOOLEAN
  BY <1>4, ArmedTicks DEF Arm, Times, StageClamped, Build
<1>5. CASE CoreInit
  BY <1>1, <1>4, <1>5 DEF CoreInit, Quiesce, HwOff
<1>6. CASE Install
  BY <1>6 DEF Install
<1>7. CASE FirstCall
  <2>1. UNCHANGED <<build, running, unread>>
    BY <1>7 DEF FirstCall
  <2>2. CASE /\ Rollback /\ Down /\ wdt' = (IF armed THEN Off ELSE wdt)
             /\ cause' = "other" /\ UNCHANGED new
    <3>1. wdt' \in Times
      BY <1>1, <2>2
    <3>2. boot' = "old" /\ record' = 2 /\ new' = new
      BY <2>2 DEF Rollback
    <3> QED BY <3>1, <3>2, <2>1, <2>2, DownType
  <2>3. CASE /\ Disarm /\ new' = "valid" /\ record' = 0 /\ phase' = "run"
             /\ UNCHANGED <<boot, cause, hung, timer, confirmTimeout>>
    <3>1. record' \in 0..2 /\ new' = "valid" /\ phase' = "run"
      BY <2>3
    <3>2. wdt' \in Times /\ armed' \in BOOLEAN /\ clamped' \in BOOLEAN /\ hooked' \in BOOLEAN
      BY <2>3, DisarmType
    <3> QED BY <3>1, <3>2, <2>1, <2>3
  <2>4. CASE /\ \E sec \in ConfirmTimes :
                  /\ timer' = sec /\ confirmTimeout' = sec
                  /\ IF Probation THEN Arm(sec)
                     ELSE UNCHANGED <<wdt, armed, clamped, hooked>>
             /\ phase' = "run"
             /\ UNCHANGED <<new, boot, record, cause, hung>>
    BY <1>1, <1>4, <2>1, <2>4
  <2>5. CASE /\ Disarm /\ record' = IF boot = "new" THEN record ELSE 0
             /\ phase' = "run"
             /\ UNCHANGED <<new, boot, cause, hung, timer, confirmTimeout>>
    <3>1. record' \in 0..2
      BY <2>5
    <3> QED BY <3>1, <2>1, <2>5, DisarmType
  <2> QED BY <1>7, <2>2, <2>3, <2>4, <2>5 DEF FirstCall
<1>8. CASE Confirm
  BY <1>8 DEF Confirm
<1>13. CASE Confirmed
  <2>1. record' \in 0..2 /\ phase' = "run" /\ timer' \in Times
    BY <1>1, <1>13 DEF Confirmed
  <2>2. wdt' \in Times /\ armed' \in BOOLEAN /\ clamped' \in BOOLEAN /\ hooked' \in BOOLEAN
    BY <1>13, DisarmType DEF Confirmed
  <2> QED BY <2>1, <2>2, <1>13 DEF Confirmed
<1>9. CASE Sleep \/ Wake
  BY <1>1, <1>9 DEF Sleep, Wake
<1>10. CASE TimerFires
  <2>1. /\ boot' = "old" /\ record' = 2 /\ cause' = "other"
        /\ UNCHANGED <<build, new, wdt, running, unread>> /\ Down
    BY <1>10 DEF TimerFires, Rollback
  <2> QED BY <2>1, DownType
<1>14. CASE Hang
  BY <1>14 DEF Hang
<1>11. CASE Tick
  BY <1>11, LeftType DEF Tick
<1>12. CASE UNCHANGED vars
  BY <1>12 DEF vars
<1> QED BY <1>2, <1>3, <1>5, <1>6, <1>7, <1>8, <1>9, <1>10, <1>11, <1>12, <1>13, <1>14 DEF Next, Sketch

-----------------------------------------------------------------------------
(***************************************************************************)
(* Who the watchdog counts over.  A case of each lemma below is an action  *)
(* that leaves one of the phases the invariant is about, or stays in it.   *)
(***************************************************************************)

\* A second never starts the watchdog.
LEMMA TickKeeps ==
  ASSUME WType, Tick
  PROVE  /\ wdt' # Off => wdt # Off
         /\ timer' # Off => timer # Off
         /\ UNCHANGED <<flash, cause, phase, running, hung, armed, clamped, hooked,
                        confirmTimeout, unread>>
BY LeftType, Constants DEF Tick, WType

LEMMA ScheduledStep == WInv /\ [Next]_vars => Scheduled'
<1> SUFFICES ASSUME WInv, [Next]_vars PROVE Scheduled'
  OBVIOUS
<1> USE DEF Scheduled, flash, ram
<1>0. WType /\ Scheduled
  BY DEF WInv
<1>1. CASE Resets
  BY <1>1, DownType DEF Resets, SoftReset, PowerCut, WatchdogFires
<1>2. CASE Bootloader
  BY <1>0, <1>2 DEF Bootloader
<1>3. CASE CoreInit
  BY <1>0, <1>3 DEF CoreInit
<1>4. CASE Install
  BY <1>0, <1>4 DEF Install
<1>5. CASE FirstCall
  <2>1. phase = "setup" /\ ~hung
    BY <1>5 DEF FirstCall
  <2>2. CASE Down
    BY <2>2, DownType
  <2>3. CASE phase' = "run" /\ UNCHANGED hung
    BY <1>0, <2>1, <2>3
  <2> QED BY <1>5, <2>2, <2>3 DEF FirstCall
<1>6. CASE Confirm \/ Confirmed
  BY <1>0, <1>6 DEF Confirm, Confirmed
<1>7. CASE Sleep
  BY <1>0, <1>7 DEF Sleep
<1>8. CASE TimerFires
  BY <1>8, DownType DEF TimerFires
<1>9. CASE Hang
  BY <1>0, <1>9 DEF Hang
<1>10. CASE Wake
  BY <1>0, <1>10 DEF Wake
<1>11. CASE Tick
  BY <1>0, <1>11, TickKeeps
<1>12. CASE UNCHANGED vars
  BY <1>0, <1>12 DEF vars
<1> QED BY <1>1, <1>2, <1>3, <1>4, <1>5, <1>6, <1>7, <1>8, <1>9, <1>10, <1>11, <1>12
        DEF Next, Sketch

\* The rest of the invariant.
Counts == BootStops /\ Owned /\ Hooked /\ OnlyOverTrials /\ SleepsUndisturbed

\* A boot arms the watchdog over a trial and stops any other.
LEMMA BootCounts == WInv /\ CoreInit => Counts'
<1> SUFFICES ASSUME WInv, CoreInit PROVE Counts'
  OBVIOUS
<1>1. /\ phase = "core" /\ phase' = "setup"
      /\ UNCHANGED <<build, boot, record, cause, running, hung, timer, confirmTimeout>>
  BY DEF CoreInit
<1>2. WType /\ BootStops /\ Hooked
  BY DEF WInv
<1>3. CASE Probation /\ record = 1 /\ Arm(DefaultTime) /\ UNCHANGED new
  <2>1. armed' = TRUE /\ hooked' = build.hook
    BY <1>3 DEF Arm
  <2>2. Probation'
    BY <1>1, <1>3 DEF Probation
  <2> QED BY <1>1, <2>1, <2>2
          DEF Counts, BootStops, Owned, Hooked, OnlyOverTrials, SleepsUndisturbed
<1>4. CASE Quiesce
  <2>1. wdt' = Off
    BY <1>1, <1>2, <1>4 DEF Quiesce, HwOff, BootStops
  <2>2. Hooked'
    BY <1>1, <1>2, <1>4 DEF Quiesce, HwOff, Hooked
  <2> QED BY <1>1, <2>1, <2>2
          DEF Counts, BootStops, Owned, OnlyOverTrials, SleepsUndisturbed
<1>5. CASE unread' = TRUE /\ UNCHANGED <<wdt, armed, clamped, hooked>>
  BY <1>1, <1>2, <1>5 DEF Counts, BootStops, Owned, Hooked, OnlyOverTrials, SleepsUndisturbed
<1> QED BY <1>3, <1>4, <1>5 DEF CoreInit

\* What Disarm leaves counting is what no boot could stop.
LEMMA DisarmCounts ==
  ASSUME WInv, Disarm, phase \in {"setup", "run", "confirming"}, phase' = "run",
         UNCHANGED <<build, unread>>
  PROVE  Counts'
<1>1. WType /\ Owned /\ Hooked
  BY DEF WInv
<1>2. wdt' # Off => unread'
  BY <1>1, DisarmType DEF Owned
<1>3. Hooked'
  <2>1. armed' => armed
    BY <1>1, DisarmType
  <2>2. UNCHANGED hooked
    BY DEF Disarm
  <2> QED BY <1>1, <2>1, <2>2 DEF Hooked
<1> QED BY <1>2, <1>3 DEF Counts, BootStops, Owned, OnlyOverTrials, SleepsUndisturbed

\* The library's first call, too, arms it over nothing but a trial.
LEMMA CallCounts == WInv /\ FirstCall => Counts'
<1> SUFFICES ASSUME WInv, FirstCall PROVE Counts'
  OBVIOUS
<1>1. phase = "setup" /\ UNCHANGED <<build, running, unread>>
  BY DEF FirstCall
<1>2. WType /\ Owned /\ Hooked /\ OnlyOverTrials
  BY DEF WInv
<1>3. CASE Down
  BY <1>3, DownType DEF Counts, BootStops, Owned, Hooked, OnlyOverTrials, SleepsUndisturbed
<1>4. CASE Disarm /\ phase' = "run"
  BY <1>1, <1>4, DisarmCounts
<1>5. CASE /\ \E sec \in ConfirmTimes :
                IF Probation THEN Arm(sec) ELSE UNCHANGED <<wdt, armed, clamped, hooked>>
           /\ phase' = "run" /\ UNCHANGED new
  <2>1. CASE Probation
    <3>1. armed' = TRUE /\ hooked' = build.hook
      BY <1>5, <2>1 DEF Arm
    <3>2. Probation'
      BY <1>1, <1>5, <2>1 DEF Probation
    <3> QED BY <1>1, <1>5, <3>1, <3>2
            DEF Counts, BootStops, Owned, Hooked, OnlyOverTrials, SleepsUndisturbed
  <2>2. CASE ~Probation
    <3>1. UNCHANGED <<wdt, armed, clamped, hooked>>
      BY <1>5, <2>2
    <3>2. wdt = Off \/ unread
      BY <1>1, <1>2, <2>2 DEF OnlyOverTrials
    <3> QED BY <1>1, <1>2, <1>5, <3>1, <3>2
            DEF Counts, BootStops, Owned, Hooked, OnlyOverTrials, SleepsUndisturbed
  <2> QED BY <2>1, <2>2
<1>6. \/ Down
      \/ Disarm /\ phase' = "run"
      \/ /\ \E sec \in ConfirmTimes :
              IF Probation THEN Arm(sec) ELSE UNCHANGED <<wdt, armed, clamped, hooked>>
         /\ phase' = "run" /\ UNCHANGED new
  BY DEF FirstCall
<1> QED BY <1>3, <1>4, <1>5, <1>6

LEMMA CountsStep == WInv /\ [Next]_vars => Counts'
<1> SUFFICES ASSUME WInv, [Next]_vars PROVE Counts'
  OBVIOUS
<1> USE DEF flash, ram
<1>0. /\ WType /\ Scheduled /\ Counts
      /\ BootStops /\ Owned /\ Hooked /\ OnlyOverTrials /\ SleepsUndisturbed
  BY DEF WInv, Counts
<1>1. CASE Down
  BY <1>1, DownType DEF Counts, BootStops, Owned, Hooked, OnlyOverTrials, SleepsUndisturbed
<1>2. CASE Bootloader
  <2>1. /\ phase' = "core" /\ UNCHANGED <<build, armed, hooked>>
        /\ build.bootloaderWdt => wdt' = Off
    BY <1>2 DEF Bootloader
  <2> QED BY <1>0, <2>1 DEF Counts, BootStops, Owned, Hooked, OnlyOverTrials, SleepsUndisturbed
<1>3. CASE CoreInit
  BY <1>3, BootCounts
<1>4. CASE Install
  <2>1. /\ phase = "run" /\ phase' = "run" /\ ~Probation
        /\ UNCHANGED <<build, wdt, armed, hooked, unread>>
    BY <1>4 DEF Install, Probation
  <2> QED BY <1>0, <2>1 DEF Counts, BootStops, Owned, Hooked, OnlyOverTrials, SleepsUndisturbed
<1>5. CASE FirstCall
  BY <1>5, CallCounts
<1>6. CASE Confirm
  <2>1. /\ phase = "run" /\ phase' = "confirming"
        /\ UNCHANGED <<build, wdt, armed, hooked, unread>>
    BY <1>6 DEF Confirm
  <2> QED BY <1>0, <2>1 DEF Counts, BootStops, Owned, Hooked, OnlyOverTrials, SleepsUndisturbed
<1>7. CASE Confirmed
  <2>1. /\ phase = "confirming" /\ phase' = "run" /\ Disarm /\ UNCHANGED <<build, unread>>
    BY <1>7 DEF Confirmed
  <2> QED BY <2>1, DisarmCounts
<1>8. CASE Sleep
  <2>1. /\ phase \in {"setup", "run"} /\ phase' = "asleep" /\ armed' = FALSE
        /\ UNCHANGED <<build, new, running, unread>>
        /\ wdt' # Off => wdt # Off /\ ~(hooked /\ armed)
    BY <1>8 DEF Sleep
  <2>2. SleepsUndisturbed'
    BY <1>0, <2>1 DEF Owned, Hooked, SleepsUndisturbed
  <2>3. OnlyOverTrials'
    BY <1>0, <2>1 DEF OnlyOverTrials, Probation
  <2> QED BY <2>1, <2>2, <2>3 DEF Counts, BootStops, Owned, Hooked
<1>9. CASE Hang
  <2>1. UNCHANGED <<build, new, running, wdt, phase, armed, hooked, unread>>
    BY <1>9 DEF Hang
  <2> QED BY <1>0, <2>1
          DEF Counts, BootStops, Owned, Hooked, OnlyOverTrials, SleepsUndisturbed, Probation
<1>10. CASE Wake
  <2>1. phase' = "off" /\ UNCHANGED <<build, armed, hooked>>
    BY <1>10 DEF Wake
  <2> QED BY <1>0, <2>1 DEF Counts, BootStops, Owned, Hooked, OnlyOverTrials, SleepsUndisturbed
<1>11. CASE Tick
  <2>1. /\ UNCHANGED <<build, new, running, phase, armed, hooked, unread>>
        /\ wdt' # Off => wdt # Off
    BY <1>0, <1>11, TickKeeps
  <2> QED BY <1>0, <2>1
          DEF Counts, BootStops, Owned, Hooked, OnlyOverTrials, SleepsUndisturbed, Probation
<1>12. CASE UNCHANGED vars
  <2>1. UNCHANGED <<build, new, running, phase, wdt, armed, hooked, unread>>
    BY <1>12 DEF vars
  <2> QED BY <1>0, <2>1
          DEF Counts, BootStops, Owned, Hooked, OnlyOverTrials, SleepsUndisturbed, Probation
<1>13. Resets \/ TimerFires => Down
  BY DEF Resets, SoftReset, PowerCut, WatchdogFires, TimerFires
<1> QED BY <1>1, <1>2, <1>3, <1>4, <1>5, <1>6, <1>7, <1>8, <1>9, <1>10, <1>11, <1>12, <1>13
        DEF Next, Sketch

LEMMA WInit == Init => WInv
<1> SUFFICES ASSUME Init PROVE WInv
  OBVIOUS
<1>1. WType
  <2>1. Off \in Times /\ 0 \in 0..2
    BY DEF Times
  <2>2. DefaultTime \in Word
    BY Constants
  <2> QED BY <2>1, <2>2, Zenon DEF Init, WType
<1> QED BY <1>1 DEF WInv, Init, Scheduled, BootStops, Owned, Hooked, OnlyOverTrials, SleepsUndisturbed

THEOREM WatchdogInvariant == Spec => []WInv
<1>1. WInv /\ [Next]_vars => WInv'
  BY TypeStep, ScheduledStep, CountsStep DEF WInv, Counts
<1> QED BY WInit, <1>1, PTL DEF Spec

\* The watchdog never counts over an image that was accepted nor over the old
\* one (except after a boot that could not read its NVS): whatever resets,
\* hangs and sleeps the counter outlived, and whatever the confirm times.
THEOREM CountsOnlyOverTrials == Spec => []OnlyOverTrials
<1>1. WInv => OnlyOverTrials
  BY DEF WInv
<1> QED BY WatchdogInvariant, <1>1, PTL

\* With the deep-sleep hook no sleep ends in a watchdog reset.
THEOREM SleepUndisturbed == Spec => []SleepsUndisturbed
<1>1. WInv => SleepsUndisturbed
  BY DEF WInv
<1> QED BY WatchdogInvariant, <1>1, PTL

-----------------------------------------------------------------------------
(***************************************************************************)
(* Whom the watchdog bites: a trial that hangs, as long as the ticks of    *)
(* the confirm times fit the 64 bits they are computed in.                 *)
(***************************************************************************)

\* A confirm timer starts with the watchdog, or where none counts.
LEMMA CallLater == TicksFit /\ WInv /\ FirstCall => Later'
<1> SUFFICES ASSUME TicksFit, WInv, FirstCall, phase' = "run", timer' # Off PROVE Later'
  BY DEF Later
<1>1. phase = "setup" /\ timer = Off /\ UNCHANGED unread
  BY DEF FirstCall, WInv, Scheduled
<1>2. PICK sec \in ConfirmTimes :
         /\ timer' = sec /\ confirmTimeout' = sec
         /\ IF Probation THEN Arm(sec) ELSE UNCHANGED <<wdt, armed, clamped, hooked>>
  <2>1. ~Down
    BY DownType
  <2> QED BY <1>1, <2>1 DEF FirstCall
<1>3. sec \in Nat /\ SlowHz \in Nat
  BY Constants
<1>4. CASE Probation
  <2> DEFINE ticks == LongTicks(sec, MarginFloor, 0, SlowHz, 1, 1)
  <2>1. wdt' = StageTicks(ticks) /\ clamped' = StageClamped(ticks)
    BY <1>2, <1>4 DEF Arm
  <2>2. IF StageClamped(ticks) THEN StageTicks(ticks) >= WordMax
        ELSE StageTicks(ticks) >= SlowHz * (sec + 1)
    BY ArmedLater
  <2> HIDE DEF ticks
  <2>3. CASE StageClamped(ticks)
    <3>1. wdt' + SlowHz * (sec - sec) >= WordMax
      <4>1. wdt' >= WordMax /\ wdt' \in Nat /\ WordMax \in Nat
        BY <2>1, <2>2, <2>3, ArmedTicks, Constants DEF ticks
      <4>2. SlowHz * (sec - sec) = 0
        BY <1>3, SMT
      <4> QED BY <4>1, <4>2, SMT
    <3> QED BY <1>2, <1>3, <2>1, <2>3, <3>1 DEF Later
  <2>4. CASE ~StageClamped(ticks)
    BY <1>2, <1>3, <2>1, <2>2, <2>4 DEF Later
  <2> QED BY <2>3, <2>4
<1>5. CASE ~Probation
  <2>1. wdt' = Off \/ unread'
    BY <1>1, <1>2, <1>5 DEF WInv, OnlyOverTrials
  <2> QED BY <2>1 DEF Later
<1> QED BY <1>4, <1>5

LEMMA Compensates ==
  \A w, v, spent \in Int, h, m \in Int :
    v >= w - h /\ w + spent >= m => v + (spent + h) >= m
BY SMT

\* A second brings both nearer, the watchdog by no more than its ticks.
LEMMA TickLater == WInv /\ Later /\ Tick => Later'
<1> SUFFICES ASSUME WInv, Later, Tick,
                    phase' = "run", timer' # Off, ~hung', ~unread', wdt' # Off
             PROVE  Later'
  BY DEF Later
<1>1. /\ UNCHANGED <<clamped, confirmTimeout>>
      /\ phase = "run" /\ ~hung /\ ~unread /\ wdt # Off /\ timer # Off
  BY TickKeeps DEF WInv
<1>2. wdt # 0 /\ timer # 0 /\ wdt' = Left(wdt, SlowHz) /\ timer' = Left(timer, 1)
  BY <1>1 DEF Tick
<1>3. /\ wdt \in Nat \ {0} /\ timer \in Nat \ {0} /\ confirmTimeout \in Nat
      /\ SlowHz \in Nat \ {0} /\ WordMax \in Nat
  BY <1>1, <1>2, Constants DEF WInv, WType, Times
<1>4. timer' = timer - 1 /\ wdt' \in Nat /\ wdt' >= wdt - SlowHz
  BY <1>1, <1>2, <1>3, SMT DEF Left
<1>5. /\ timer <= confirmTimeout
      /\ IF clamped THEN wdt + SlowHz * (confirmTimeout - timer) >= WordMax
         ELSE wdt >= SlowHz * (timer + 1)
  BY <1>1 DEF Later
<1>6. CASE clamped
  <2> DEFINE spent == SlowHz * (confirmTimeout - timer)
  <2>1. SlowHz * (confirmTimeout' - timer') = spent + SlowHz
    <3>1. confirmTimeout' - timer' = (confirmTimeout - timer) + 1
      BY <1>1, <1>3, <1>4, SMT
    <3>2. SlowHz * ((confirmTimeout - timer) + 1) = spent + SlowHz
      BY <1>3, SMT
    <3> QED BY <3>1, <3>2
  <2>2. spent \in Int /\ wdt + spent >= WordMax
    BY <1>3, <1>5, <1>6, SMT
  <2> HIDE DEF spent
  <2>6. wdt' + (spent + SlowHz) >= WordMax
    <3>1. wdt \in Int /\ wdt' \in Int /\ SlowHz \in Int /\ WordMax \in Int
      BY <1>3, <1>4, SMT
    <3>2. wdt' >= wdt - SlowHz
      BY <1>4, Zenon
    <3> QED BY <3>1, <3>2, <2>2, Compensates, Zenon
  <2>3. wdt' + SlowHz * (confirmTimeout' - timer') >= WordMax
    BY <2>1, <2>6, Zenon
  <2>4. timer' <= confirmTimeout'
    BY <1>1, <1>3, <1>4, <1>5, SMT
  <2>5. clamped'
    BY <1>1, <1>6
  <2> QED BY <2>3, <2>4, <2>5, Zenon DEF Later
<1>7. CASE ~clamped
  <2>1. SlowHz * (timer + 1) = SlowHz * ((timer - 1) + 1) + SlowHz
    BY <1>3, SMT
  <2>2. SlowHz * ((timer - 1) + 1) \in Int
    BY <1>3, SMT
  <2>3. wdt' >= SlowHz * (timer' + 1)
    BY <1>3, <1>4, <1>5, <1>7, <2>1, <2>2, SMT
  <2>4. timer' <= confirmTimeout'
    BY <1>1, <1>3, <1>4, <1>5, SMT
  <2>5. ~clamped'
    BY <1>1, <1>7
  <2> QED BY <2>3, <2>4, <2>5, Zenon DEF Later
<1> QED BY <1>6, <1>7

LEMMA LaterStep == TicksFit /\ WInv /\ Later /\ [Next]_vars => Later'
<1> SUFFICES ASSUME TicksFit, WInv, Later, [Next]_vars PROVE Later'
  OBVIOUS
<1> USE DEF flash, ram
<1>1. CASE Down
  BY <1>1, DownType DEF Later
<1>2. CASE Bootloader \/ CoreInit \/ Confirm \/ Sleep \/ Wake
  <2>1. phase' # "run"
    BY <1>2 DEF Bootloader, CoreInit, Confirm, Sleep, Wake
  <2> QED BY <2>1 DEF Later
<1>3. CASE Install
  <2>1. UNCHANGED <<wdt, clamped, phase, hung, timer, confirmTimeout, unread>>
    BY <1>3 DEF Install
  <2> QED BY <2>1 DEF Later
<1>4. CASE FirstCall
  BY <1>4, CallLater
<1>5. CASE Confirmed
  <2>1. timer' = Off
    BY <1>5 DEF Confirmed
  <2> QED BY <2>1 DEF Later
<1>6. CASE Hang
  <2>1. hung' = TRUE
    BY <1>6 DEF Hang
  <2> QED BY <2>1 DEF Later
<1>7. CASE Tick
  BY <1>7, TickLater
<1>8. CASE UNCHANGED vars
  <2>1. UNCHANGED <<wdt, clamped, phase, hung, timer, confirmTimeout, unread>>
    BY <1>8 DEF vars
  <2> QED BY <2>1 DEF Later
<1>9. Resets \/ TimerFires => Down
  BY DEF Resets, SoftReset, PowerCut, WatchdogFires, TimerFires
<1> QED BY <1>1, <1>2, <1>3, <1>4, <1>5, <1>6, <1>7, <1>8, <1>9 DEF Next, Sketch

\* When the watchdog bites a trial that is not hung, its stage was cut to the
\* register's length and all of it has passed: else the confirm timer, which
\* records the rollback, comes first.
THEOREM BitesTheHung == ASSUME TicksFit PROVE Spec => []HungOnly
<1>1. Init => Later
  BY DEF Init, Later
<1>2. WInv /\ Later /\ [Next]_vars => Later'
  BY LaterStep
<1>3. WInv /\ Later => HungOnly
  <2> SUFFICES ASSUME WInv, Later, wdt = 0, phase = "run", timer # Off, ~hung, ~unread
               PROVE  clamped /\ SlowHz * (confirmTimeout - timer) >= WordMax
    BY DEF HungOnly
  <2>1. /\ timer \in Nat /\ confirmTimeout \in Nat /\ SlowHz \in Nat \ {0} /\ WordMax \in Nat
        /\ wdt # Off
    BY Constants DEF WInv, WType, Times
  <2>2. IF clamped THEN 0 + SlowHz * (confirmTimeout - timer) >= WordMax
        ELSE 0 >= SlowHz * (timer + 1)
    BY <2>1 DEF Later
  <2>3. SlowHz * (timer + 1) > 0 /\ SlowHz * (confirmTimeout - timer) \in Int
    BY <2>1, SMT
  <2> QED BY <2>1, <2>2, <2>3, SMT
<1> QED BY WatchdogInvariant, <1>1, <1>2, <1>3, PTL DEF Spec
=============================================================================
