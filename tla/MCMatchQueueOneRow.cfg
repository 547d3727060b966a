SPECIFICATION Spec
CONSTANTS
  ann = ann
  bob = bob
  r1 = r1
  w1 = w1
  w2 = w2
  Players = {ann, bob}
  Rooms = {r1}
  Workers = {w1, w2}
  None = None
  Free = Free
  MAX_ATTEMPTS = 2
  RETRY_DELAY = 1
  SAME_MATCH_WINDOW = 1
  ROOM_END_SLACK = 1
  MaxEvents = 2
  MaxTime = 2
  MaxCrashes = 1
SYMMETRY Symmetry
CHECK_DEADLOCK FALSE
INVARIANTS
  OneRowPerMatch
