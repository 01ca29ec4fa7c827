\* Address blocks handed out by concurrent bumps never overlap, and the bump
\* handler refines the abstract allocator of address blocks.
CONSTANTS
  p = p
  q = q
  Cosigners <- MCCosigners
  Counts = {0, 1, 3}
  IndexWidth = 3
SPECIFICATION Spec
INVARIANTS
  TypeOK
  BlocksDisjoint
PROPERTIES
  AllocatorRefinement
