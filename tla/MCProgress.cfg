SPECIFICATION ProgressSpec
CONSTANTS
  u1 = u1
  u2 = u2
  d1 = d1
  d2 = d2
  s1 = s1
  t1 = t1
  t2 = t2
  p1 = p1
  a = a
  b = b
  ann = ann
  bob = bob
  cid = cid
  dan = dan
  c1 = c1
  r1 = r1
  host = host
  guest = guest
  h1 = h1
  l1 = l1
  Posters = {u1}
  Writers = {d1, d2}
  Streams = {s1}
  QueueSize = 1
  MaxListed = 2
  Interval = 1
  MaxMessages = 2
  MaxSeconds = 1
  MaxRestarts = 1
  Never = Never
  Callers = {t1, t2}
  Lobbies = 1
  COOLDOWN = 1
  MaxCalls = 2
  MaxMonotonic = 1
  NoCaller = NoCaller
  NoClient = NoClient
  Keys <- MCKeys
  TTL = 1
  Lossy = TRUE
  Nothing = Nothing
  Requests = {a, b}
  MaxWrites = 1
  Posts = {p1}
  People = {u1}
  MaxReplies = 1
  NoHolder = NoHolder
  NoPost = NoPost
  Gone = Gone
  Savers = {ann, bob, cid, dan}
  Captures = {c1}
  NoCapture = NoCapture
  CAPTURE_OVERLAP = 2
  CAPTURE_LIMIT = 3
  MaxId = 4
  MaxPlayed = 0
  MaxFailures = 0
  Reservations = {r1}
  Users = {host, guest}
  Handlers = {h1}
  Listers = {l1}
  Offers <- MCOffers
  Patches = {}
  Keep = Keep
  Free = Free
  LEAD_TIME = 1
  LISTING_GRACE = 1
  DayLength = 3
  TxnSpan = 1
  MaxTime = 2
CHECK_DEADLOCK FALSE
PROPERTIES
  EveryTransactionEnds
  EveryMessageArrives
  EveryCallEnds
  CacheHeals
  EverySaveCompared
