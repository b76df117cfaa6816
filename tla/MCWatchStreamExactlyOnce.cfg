CONSTANTS
  Writer = {w1, w2}
  Kind = {"k1"}
  Clause = {"all"}
  Selects <- OneClause
  Pinned = {}
  MaxEvents = 2
SPECIFICATION Spec
INVARIANT ExactlyOnce
CHECK_DEADLOCK FALSE
