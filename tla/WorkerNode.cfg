SPECIFICATION FairSpec
CONSTANTS
  m1 = m1
  m2 = m2
  o1 = o1
  o2 = o2
  Messages = {m1, m2}
  Origins = {o1, o2}
  OriginsOf <- SharedOrigin
  Handlers = {h1, h2}
  MaxInFlight = 2
  Retries = 1
INVARIANTS
  WorkerTypeOK
  PeersAreWanted
PROPERTIES
  HandlersAdvance
  HandlersEnd
