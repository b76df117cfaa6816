CONSTANTS
  Consumer = {c1}
  Holder = {h1, h2}
  Proc = {p1, p2}
  None = None
  TTL = 2
  Guarantee = 1
  CleanLimit = 1
  PoolSize = 3
  MaxClock = 4
  MaxPos = 1
  Workload = {"acquire", "heartbeat", "release", "submit", "position"}
SPECIFICATION Spec
SYMMETRY Symmetry
INVARIANTS TypeOK GuaranteeExclusion GrantCoversAcks HeartbeatFenced
PROPERTY ImplementsLease
