CONSTANTS
  Writer = {w1, w2}
  Kind = {"k1", "k2"}
  Clause = {"all", "kind"}
  Selects <- MCSelects
  Pinned = {1}
  MaxEvents = 3
SPECIFICATION FairSpec
INVARIANTS SentInv SentWanted NoGap QuietMeansCaughtUp
PROPERTY EventuallySent
CHECK_DEADLOCK FALSE
