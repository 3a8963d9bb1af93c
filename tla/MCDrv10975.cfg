CONSTANTS
  Requests <- MCRequests
  Leftover <- MCLeftover
  ConfigWrites = 3
  StatusReads = 3
  AssertsEnabled = FALSE

SPECIFICATION FairDriverSpec

INVARIANT IdleAgrees
INVARIANT StoppedWhenGone
INVARIANT FullyConfigured
PROPERTY CommitsRequest
PROPERTY ImplementsWheel
PROPERTY WheelGoesOn
