SPECIFICATION PopupSpec
CONSTANTS
  Keys = {"popups:active"}
  TTL = 1
  Lossy = FALSE
  Nothing = Nothing
  Requests = {a}
  MaxWrites = 2
  Popups = {p1}
  Images = {i1, i2}
  NoImage = NoImage
CHECK_DEADLOCK FALSE
INVARIANTS
  ImageIsItsHash
