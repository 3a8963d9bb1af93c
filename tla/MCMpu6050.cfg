CONSTANTS
  Quantities = 2
  Samples <- MCSamples

SPECIFICATION Spec

INVARIANT TypeOK
INVARIANT ReadingIsMeasurement
