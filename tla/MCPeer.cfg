SPECIFICATION MCSpec
CONSTANTS
  None = None
  Workers = {w1, w2, w3}
  max = 2
  Trials = 2
INVARIANTS
  CountIsOut
PROPERTIES
  
  SilenceLeadsToHandshake
\* A peer that has nothing to do stays where it is.
CHECK_DEADLOCK FALSE
