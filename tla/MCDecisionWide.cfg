CONSTANTS
  Width = 3
  NRange <- MCNPastWidth
  Builds <- MCBothBuilds
SPECIFICATION Spec
INVARIANTS StatusByRule
CHECK_DEADLOCK FALSE
