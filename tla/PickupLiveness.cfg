SPECIFICATION FairSpec
CONSTANTS
  c1 = c1
  c2 = c2
  r1 = r1
  w1 = w1
  NoRequest = NoRequest
  Cids = {c1}
  Requests = {r1, r2}
  CidOf <- OneCid
  Workers = {w1}
  Slots = {s1}
  WorkerOf <- OneWorker
  Fits = {c1}
  Faults = {"crash", "lapse", "delete", "stale"}
  MaxReceiveCount = 2
  Invocations = {i1}
  BatchSize = 2
PROPERTIES
  MessagesWearOut
  MessagesAreSettled
  KeepsLifecycle
