SPECIFICATION Spec
CONSTANTS
  Calls = {p1, p2}
  Cids = {c1}
  Statuses = {"queued", "pinned"}
  MaxTime = 1
  Limits = {1, 2}
  CallsFail = TRUE
  ReadsLag = TRUE
  NoCid = NoCid
SYMMETRY AnyCall
INVARIANTS
  ServiceTypeOK
  AnsweredPinIsStored
  AnswersArePins
PROPERTY
  ListsLatestFirst
