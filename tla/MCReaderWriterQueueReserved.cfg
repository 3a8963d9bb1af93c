CONSTANTS
  e1 = e1
  e2 = e2
  None = None
  Elements <- MCOneElement
  maxSize = 4
  MaxBlockSize = 2
  MaxBlocks = 5
  ProducerCalls <- MCProducerCalls
  ConsumerCalls <- MCConsumerCalls

SPECIFICATION Spec

INVARIANT HoldsMaxSize
