SPECIFICATION RSpec
CONSTANTS
  Callers = {t1}
  Lobbies = 2
  COOLDOWN = 1
  MaxCalls = 2
  MaxMonotonic = 1
  NoCaller = NoCaller
  NoClient = NoClient
CHECK_DEADLOCK FALSE
INVARIANTS
  RepliesMatch
