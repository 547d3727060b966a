SPECIFICATION Spec
CONSTANTS
  h1 = h1
  h2 = h2
  h3 = h3
  k1 = k1
  q1 = q1
  q2 = q2
  Handlers = {h1, h2, h3}
  Keys = {k1}
  Requests = {q1, q2}
  RefusedAt <- MCRefusedAt
  MaxTime = 2
  MaxAttempts = 4
  NoHandler = NoHandler
  Null = Null
INVARIANTS
  AtMostOnce
  KeyMatchesWrite
  AnswersAreReal
PROPERTIES
  KeepsPromise
  EveryRequestEnds
