SPECIFICATION SiteSpec
CONSTANTS
  p1 = p1
  i1 = i1
  i2 = i2
  u1 = u1
  u2 = u2
  c1 = c1
  c2 = c2
  s1 = s1
  a = a
  b = b
  Keys <- MCKeys
  TTL = 1
  Lossy = TRUE
  Nothing = Nothing
  Requests = {a, b}
  MaxWrites = 3
  Posts = {p1}
  People = {u1, u2}
  MaxReplies = 2
  NoHolder = NoHolder
  NoPost = NoPost
  Gone = Gone
  Popups = {p1}
  Images = {i1, i2}
  NoImage = NoImage
  Streamers = {u1, u2}
  Channels = {c1, c2}
  NoChannel = NoChannel
  Players = {s1}
  MaxSaves = 3
SYMMETRY Symmetry
INVARIANTS
  SiteTypeOK
  ThumbsAgree
  RepliesShown
  ServedIsCurrent
  OneLiveMark
