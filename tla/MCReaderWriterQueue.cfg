CONSTANTS
  e1 = e1
  e2 = e2
  None = None
  Elements <- MCElements
  maxSize = 1
  MaxBlockSize = 2
  MaxBlocks = 3
  ProducerCalls <- MCEnqueue
  ConsumerCalls <- MCTryDequeue

SPECIFICATION FairSpec

INVARIANT QueueTypeOK
INVARIANT AssertionsHold
INVARIANT CellsAreOwned
INVARIANT NothingLeaks
INVARIANT AllOnRing
PROPERTY ImplementsFifo
PROPERTY SomethingIsFound
