CONSTANTS
  Kind = {k1, k2}
  Watched = {k1}
  Buffer = 2
  MaxEvents = 6
SPECIFICATION FairSpec
INVARIANTS DeliveredInv NothingForgotten
PROPERTY EventuallyDelivered
CHECK_DEADLOCK FALSE
