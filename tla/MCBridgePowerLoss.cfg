\* A power loss between rename and fsync leaves a torn file that a later upload deduplicates against.
CONSTANTS
  a = a
  b = b
  c = c
  r1 = r1
  b1 = b1
  f1 = f1
  Cosigners <- MCCosigners
  Readers = {}
  ThresholdVanilla = 2
  ThresholdColored = 3
  OpTypes <- MCOpTypes
  Contents <- MCContents
  Hash <- MCHash
  FileIds <- MCFileIds
  MaxOps = 2
  MaxFaults = 1
  PowerLoss = TRUE
SPECIFICATION Spec
INVARIANTS
  FilesIntact
