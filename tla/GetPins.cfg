SPECIFICATION FairSpec
CONSTANTS
  Cids = {c1, c2}
  InvalidCid = InvalidCid
  MaxAsked = 3
  BatchItemCount = 2
  ReadsMayFail = TRUE
  MayThrottle = FALSE
INVARIANTS
  GetPinsTypeOK
  RowsAreTrue
  PinnedRowIsStored
PROPERTY
  ListIsAnswered
