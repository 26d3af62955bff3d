SPECIFICATION MCSpec
CONSTANTS
  None = None
  Caller = {c1, c2}
  Peer = {p1}
  Routine = {receiver}
  SequentialReceiver = receiver
  Sockets = 1
  MaxOps = 4
  Failures = TRUE
INVARIANTS
  NoWriteAfterClose
  ServesThroughTested
  LicenseInForce
  NoRepeatInRound
PROPERTIES
  
  ScanEnds
  CookieProvesAddress
  LetInAtLast
\* A closed device, a served start, a loaded identity, a finished scan and the bounded
\* address generator stay where they are.
CHECK_DEADLOCK FALSE
