\* A get_operation_by_idx view read while a response commits.
CONSTANTS
  a = a
  b = b
  c = c
  r1 = r1
  b1 = b1
  f1 = f1
  Cosigners <- MCCosigners
  Readers <- MCReaders
  ThresholdVanilla = 2
  ThresholdColored = 3
  OpTypes <- MCOpTypes
  Contents <- MCContents
  Hash <- MCHash
  FileIds <- MCFileIds
  MaxOps = 1
  MaxFaults = 0
  PowerLoss = FALSE
SPECIFICATION Spec
INVARIANTS
  ViewConsistent
