CONSTANTS
  Holder = {h1, h2, h3}
  Waiter = {h1}
  Keeper = {}
  None = None
  Workload = {"release"}
  MaxPending = 1
SPECIFICATION FairSpec
PROPERTY WaiterIsServed
