SPECIFICATION MCSpec
CONSTANTS
  None = None
  blockBits = 2
  ringBlocks = 4
  limit = 12
  MaxCounter = 13
INVARIANTS
  LongestPrefixWins
  CutsBack
  SegmentsArePrefix
  StartedUnlessRefused
  WithinBudget
PROPERTIES
  ImplementsWindow
  ImplementsTable
  
\* A vector of packets that has been handled, and a configuration or a table at its bound,
\* stay where they are.
CHECK_DEADLOCK FALSE
