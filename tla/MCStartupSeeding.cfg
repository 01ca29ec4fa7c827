\* A failure during the first-start seeding leaves a partial seed behind.
CONSTANTS
  x1 = x1
  x2 = x2
  Xpubs <- MCXpubs
  Configs <- MCConfigsDupThenFixed
  MaxCrashes = 1
  None = None
  NaN = NaN
SPECIFICATION Spec
INVARIANTS FirstStartAtomic
