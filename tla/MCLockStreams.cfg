CONSTANTS
  Holder = {h1, h2, h3}
  Waiter = {h1, h2}
  Keeper = {h2}
  None = None
  Workload = {"release", "expire"}
  MaxPending = 1
SPECIFICATION FairSpec
INVARIANTS StreamInv WakeupNotLost LossNotLost
PROPERTIES AnnouncedLockIsTaken HolderLearns
