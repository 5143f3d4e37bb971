SPECIFICATION Spec
CONSTANTS
  c1 = c1
  c2 = c2
  r1 = r1
  w1 = w1
  NoRequest = NoRequest
  Cids = {c1}
  Requests = {r1}
  CidOf <- OneCid
  Workers = {w1}
  Slots = {s1, s2}
  WorkerOf <- OneWorker
  Fits = {c1}
  Faults = {"lapse"}
  MaxReceiveCount = 2
  Invocations = {i1}
  BatchSize = 2
INVARIANTS
  DestinationComplete
