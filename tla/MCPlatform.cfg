SPECIFICATION MCSpec
CONSTANTS
  None = None
  Ops = {o1, o2}
  MaxSets = 2
INVARIANTS
  NoIoOnClosedHandle
  ClosedOnce
  CopiedUnlessLapped
  NoSocketLeaks
  BatchInOrder
  
  NeverSendsOnClosed
  SuccessMeansConnected
  EveryAddressTried
\* A closed file or listener, an answered client, and a dial that has returned stay where
\* they are.
CHECK_DEADLOCK FALSE
