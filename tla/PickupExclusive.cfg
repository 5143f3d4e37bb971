SPECIFICATION DelegateSpec
CONSTANTS
  c1 = c1
  c2 = c2
  r1 = r1
  w1 = w1
  NoRequest = NoRequest
  Cids = {c1}
  Requests = {r1, r2, r3}
  CidOf <- OneCid
  Workers = {s1, s2}
  Slots = {s1, s2}
  WorkerOf <- OwnWorker
  Fits = {c1}
  Faults = {"crash", "delete", "stale"}
  MaxReceiveCount = 2
  Invocations = {i1}
  BatchSize = 2
SYMMETRY SlotsAndRequests
INVARIANTS
  ExclusionInv
  OneHandlerPerCar
  DestinationComplete
  AcceptedPinIsInProgress
  DelegatesHadMessage
PROPERTIES
  PinnedPinsAreDone
