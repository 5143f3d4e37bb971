SPECIFICATION Spec
CONSTANTS
  c1 = c1
  c2 = c2
  r1 = r1
  w1 = w1
  NoRequest = NoRequest
  Cids = {c1, c2}
  Requests = {r1, r2, r3}
  CidOf <- TwoCids
  Workers = {w1}
  Slots = {s1}
  WorkerOf <- OneWorker
  Fits = {c1}
  Faults = {"put", "lambda"}
  MaxReceiveCount = 1
  Invocations = {i1, i2}
  BatchSize = 2
SYMMETRY OtherRequests
INVARIANTS
  IndInv
