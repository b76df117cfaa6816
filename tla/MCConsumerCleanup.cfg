CONSTANTS
  Consumer = {c1, c2}
  Holder = {h1}
  Proc = {p1, p2}
  None = None
  TTL = 1
  Guarantee = 1
  CleanLimit = 1
  PoolSize = 3
  MaxClock = 3
  MaxPos = 0
  Workload = {"acquire"}
SPECIFICATION FairSpec
INVARIANT LeaseInv
 
