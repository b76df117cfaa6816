CONSTANTS
  Holder = {h1, h2}
  Waiter = {h2}
  Obj = {o1, o2}
  None = None
  TTL = 2
  MaxGen = 1
  MaxOps = 1
SPECIFICATION FairSpec
INVARIANTS LockInv NoSleepBesideFreeLock
PROPERTY WaiterIsServed
