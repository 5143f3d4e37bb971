SPECIFICATION Spec
CONSTANTS
  Calls = {p1, p2}
  Cids = {c1, c2}
  Statuses = {"queued", "pinned"}
  MaxTime = 1
  Limits = {1}
  CallsFail = FALSE
  ReadsLag = FALSE
  NoCid = NoCid
PROPERTY
  ListsWhatMatches
