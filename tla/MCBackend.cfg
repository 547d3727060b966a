SPECIFICATION BackendSpec
CONSTANTS
  d1 = d1
  d2 = d2
  t1 = t1
  t2 = t2
  Posters = {s1}
  Writers = {d1, d2}
  Streams = {s1}
  QueueSize = 1
  MaxListed = 2
  Interval = 1
  MaxMessages = 3
  MaxSeconds = 1
  MaxRestarts = 1
  Never = Never
  Callers = {t1, t2}
  Lobbies = 2
  COOLDOWN = 1
  MaxCalls = 3
  MaxMonotonic = 1
  NoCaller = NoCaller
  NoClient = NoClient
  c1 = c1
  c2 = c2
  s1 = s1
  q1 = q1
  q2 = q2
  m1 = m1
  m2 = m2
  v = v
  w = w
  r1 = r1
  host = host
  guest = guest
  h1 = h1
  l1 = l1
  l2 = l2
  Seekers = {q1, q2}
  Lists <- MCLists
  Visits = {v, w}
  ROOMS_TTL = 0
  SEARCH_TTL = 0
  MaxUpdates = 3
  MaxClock = 1
  Unseen = Unseen
  NoUser = NoUser
  Observations <- MCObservations
  DAY = 2
  HOUR = 1
  WEEK = 4
  LIVE_ROOM_WINDOW = 2
  RETENTION = 2
  MaxCycles = 4
  Reservations = {r1}
  Users = {host, guest}
  Handlers = {h1}
  Listers = {l1, l2}
  Commenters = {c1, c2}
  MaxComments = 2
  Offers <- MCOffers
  Patches = {}
  Keep = Keep
  Free = Free
  LEAD_TIME = 1
  LISTING_GRACE = 1
  DayLength = 3
  TxnSpan = 1
  MaxTime = 2
  Savers = {s1}
  Captures = {c1}
  NoCapture = NoCapture
  CAPTURE_OVERLAP = 2
  CAPTURE_LIMIT = 3
  MaxId = 3
  MaxPlayed = 2
  MaxFailures = 1
  PingLimit = 2
  AccountNames = {host, guest}
  TokenTtl = 2
  ApiTimeout = 1
  MaxNow = 3
  NoBan = NoBan
  Names = {1, 2}
  Lines <- MCLines
  Limit = 1
  MaxMatches = 3
  NoOne = NoOne
  Entrants = {1, 2, 3}
  Saves <- MCSaves
CHECK_DEADLOCK FALSE
INVARIANTS
  StatusMatchesSeats
  NothingMissed
  RepliesInStep
  AloneIsRight
  PhantomsExplained
  MeetingsRecorded
  RowsExplained
  StatsAgree
  TallyExplained
  ClosedInOrder
  BansHold
  PagesComplete
  TalliesAgree
  BoardsRight
PROPERTIES
  CancelledFallsSilent
  EndsOnce
