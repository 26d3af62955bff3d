SPECIFICATION MCSpec
CONSTANTS
  Callers = {t1, t2}
  Reader = t1
  Encrypters = {w1}
  Containers = {c1, c2, c3}
  None = None
  Nil = Nil
  Keepalive = Keepalive
  limit = 1
  QueueStagedSize = 1
  QueueOutboundSize = 3
  Batches <- OnePair
  MaxKeypairs = 2
  MaxKeepalives = 1
  MaxExpiries = 1
  MaxStops = 0
INVARIANTS
  NoUseAfterPut
  SealedOnce
  DeliveredInOrder
  BufferHasOneOwner
  RenewedInTime
PROPERTIES
  NonceGivenOnce
\* Sessions and batches are bounded: when they are used up nothing is left to do.
CHECK_DEADLOCK FALSE
