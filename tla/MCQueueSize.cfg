CONSTANTS
  e1 = e1
  e2 = e2
  None = None
  Elements <- MCElements
  maxSize = 1
  MaxBlockSize = 4
  MaxBlocks = 2
  ProducerCalls <- MCProducerCalls
  ConsumerCalls <- MCConsumerCalls

SPECIFICATION SizedSpec
SYMMETRY ElementSymmetry

PROPERTY OrderIsFifo
INVARIANT SizeIsBracketed
