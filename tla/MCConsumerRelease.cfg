CONSTANTS
  Consumer = {c1}
  Holder = {h1, h2}
  Proc = {p1, p2}
  None = None
  TTL = 1
  Guarantee = 1
  CleanLimit = 1
  PoolSize = 3
  MaxClock = 4
  MaxPos = 0
  Workload = {"acquire", "release"}
SPECIFICATION Spec
PROPERTY ReleaseOnlyByHolder
