SPECIFICATION FairSpec
CONSTANTS
 WordMax = 15
 LongMax = 255
 ConfirmTimes = {2, 4, 9}
 DefaultTime = 3
 MarginFloor = 1
 SlowHz = 2

INVARIANT OnlyOverTrials
INVARIANT HungOnly
INVARIANT SleepsUndisturbed
PROPERTY TrialResolved
