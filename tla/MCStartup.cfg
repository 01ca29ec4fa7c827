CONSTANTS
  x1 = x1
  x2 = x2
  Xpubs <- MCXpubs
  Configs <- MCConfigsAll
  MaxCrashes = 2
  None = None
  NaN = NaN
SPECIFICATION Spec
INVARIANTS TypeOK RunningMatchesDb
