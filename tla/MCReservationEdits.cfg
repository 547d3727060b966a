SPECIFICATION Spec
CONSTANTS
  r1 = r1
  host = host
  guest = guest
  rival = rival
  h1 = h1
  h2 = h2
  l1 = l1
  l2 = l2
  Reservations = {r1}
  Users = {host, guest, rival}
  Handlers = {h1, h2}
  Listers = {l1}
  Offers <- MCOffers
  Patches <- MCPatches
  Keep = Keep
  Free = Free
  LEAD_TIME = 1
  LISTING_GRACE = 1
  DayLength = 3
  TxnSpan = 1
  MaxTime = 2
INVARIANTS
  ConditionsHold
