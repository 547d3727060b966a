SPECIFICATION ChatSpec
CONSTANTS
  u1 = u1
  p1 = p1
  p2 = p2
  s1 = s1
  Posters = {u1}
  Writers = {p1, p2}
  Streams = {s1}
  QueueSize = 1
  MaxListed = 2
  Interval = 1
  MaxMessages = 3
  MaxSeconds = 2
  MaxRestarts = 1
  Never = Never
INVARIANTS
  NoGhost
