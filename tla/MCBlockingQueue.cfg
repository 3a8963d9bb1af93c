CONSTANTS
  e1 = e1
  e2 = e2
  None = None
  Elements <- MCElements
  MaxLength = 3
  NsecsInSec = 4
  ClockNsecs <- MCClock
  Fractions <- MCFractions

SPECIFICATION FairSpec

INVARIANT TypeOK
INVARIANT SignalAssertion
INVARIANT SuccessAsserted
INVARIANT SizeAgrees
PROPERTY GivesUpOnlyWhenEmpty
PROPERTY WaitIsServed
PROPERTY TimedWaitEnds
