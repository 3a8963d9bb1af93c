CONSTANTS
  e1 = e1
  e2 = e2
  None = None
  Elements <- MCElements
  MaxLength = 3
  NsecsInSec = 4
  ClockNsecs <- MCAnyClock
  Fractions <- MCFractions

SPECIFICATION Spec

INVARIANT SuccessAsserted
