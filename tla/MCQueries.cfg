SPECIFICATION Spec
CONSTANTS
  Stream <- AllStreams
  Key <- Keys
  Client = {"p", "q"}
  MaxPos = 1
  Here <- here
  Written <- Both
  Kind = {"k", "l"}
  Field = {"f"}
  Value = {"x"}
  Builders <- V1
  Requests <- R2
  MaxEvents = 2
INVARIANTS
  TypeOK PerformExact   WatchOnce EnvelopesExact
   MetaComplete
PROPERTY PositionForward
