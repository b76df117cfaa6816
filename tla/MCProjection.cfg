SPECIFICATION Spec
CONSTANTS
  Pump = {p1, p2}
  p1 = p1
  p2 = p2
  n1 = n1
  Name = {n1}
  HolderOf <- SameHolder
  Payload = {"upsert", "delete"}
  MaxEvents = 2
  Db = db
  Consumer = n1
  ChangeBuf = 1
SYMMETRY Symmetry
INVARIANTS     
  NoMissedVersion NoSleepInState ChangesNotMissed
CHECK_DEADLOCK FALSE
