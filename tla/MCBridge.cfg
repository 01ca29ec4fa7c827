\* Safety of the coordinator under process crashes and failed steps: lock, decisions, files.
CONSTANTS
  a = a
  b = b
  c = c
  r1 = r1
  b1 = b1
  f1 = f1
  Cosigners <- MCCosigners
  Readers <- MCReaders
  ThresholdVanilla = 2
  ThresholdColored = 3
  OpTypes <- MCOpTypesSafety
  Contents <- MCContents
  Hash <- MCHash
  FileIds <- MCFileIds
  MaxOps = 2
  MaxFaults = 1
  PowerLoss = FALSE
SPECIFICATION Spec
SYMMETRY MCSymmetry
INVARIANTS
  TypeOK
  FilesIntact
  NoOrphanFiles
PROPERTIES
  OpLogRefinement
