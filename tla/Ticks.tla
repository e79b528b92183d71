------------------------------- MODULE Ticks -------------------------------
(***************************************************************************)
(* The integer arithmetic behind every delay, timer and deadline: 32-bit   *)
(* words (0..WordMax) and 64-bit intermediates (0..LongMax).  UINT32_MAX   *)
(* does not fit TLC's integers, so the word is a parameter.                *)
(***************************************************************************)
EXTENDS Naturals, Integers

CONSTANTS
  WordMax,  \* UINT32_MAX
  LongMax   \* UINT64_MAX

ASSUME WidthAssumption ==
  /\ WordMax \in Nat /\ WordMax > 1 /\ WordMax % 2 = 1
  /\ LongMax \in Nat /\ LongMax >= WordMax

Word == 0 .. WordMax

\* Unsigned results wrap.
AsWord(n) == n % (WordMax + 1)
AsLong(n) == n % (LongMax + 1)

Saturated(n) == IF n > WordMax THEN WordMax ELSE n

\* sotaMillisToTicks() and sotaSecondsToTicks().
MillisToTicks(millis, tickHz) == Saturated(AsLong(millis * tickHz) \div 1000)
SecondsToTicks(seconds, tickHz) == MillisToTicks(AsLong(seconds * 1000), tickHz)

\* setConfirmTimeout()
ConfirmTimeout(seconds) ==
  IF seconds < 10 THEN 10 ELSE IF seconds > 86400 THEN 86400 ELSE seconds

\* sotaWatchdogMarginSec()
MarginSec(confirmSec, floorSec) ==
  IF confirmSec \div 10 > floorSec THEN confirmSec \div 10 ELSE floorSec

\* sotaWatchdogStageTicks(): the calibration is in microseconds per tick,
\* shifted by Fraction bits (19 in the code).  A deadline that does not fit
\* the stage register is cut to its largest value.
LongTicks(confirmSec, floorSec, cal, nominalHz, Scale, PerSec) ==
  LET seconds == confirmSec + MarginSec(confirmSec, floorSec)
      us == seconds * PerSec
  IN  IF cal = 0 THEN AsLong(seconds * (IF nominalHz = 0 THEN 1 ELSE nominalHz))
      ELSE IF us > LongMax \div Scale THEN LongMax
      ELSE AsLong(us * Scale) \div cal
StageClamped(longTicks) == longTicks > WordMax
StageTruncated(longTicks) ==                                \* mutant
  IF AsWord(longTicks) < 2 THEN 2 ELSE AsWord(longTicks)
StageTicks(longTicks) ==
  IF StageClamped(longTicks) THEN WordMax ELSE IF longTicks < 2 THEN 2 ELSE longTicks

\* What _trialLoop() compares: the difference of two words, read as a signed
\* one.
Signed(n) == IF n > WordMax \div 2 THEN n - (WordMax + 1) ELSE n
Before(now, deadline) == Signed(AsWord(deadline - now)) > 0
=============================================================================
