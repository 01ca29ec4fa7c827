\* Marking operations processed out of order.
CONSTANTS
  a = a
  b = b
  c = c
  r1 = r1
  b1 = b1
  f1 = f1
  Cosigners <- MCCosigners
  Readers = {}
  ThresholdVanilla = 2
  ThresholdColored = 3
  OpTypes <- MCOpTypes
  Contents <- MCContents
  Hash <- MCHash
  FileIds <- MCFileIds
  MaxOps = 2
  MaxFaults = 0
  PowerLoss = FALSE
SPECIFICATION Spec
PROPERTIES
  ProcessedInOrder
