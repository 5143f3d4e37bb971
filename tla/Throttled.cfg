SPECIFICATION Spec
CONSTANTS
  Cids = {c1, c2}
  InvalidCid = InvalidCid
  MaxAsked = 3
  BatchItemCount = 2
  ReadsMayFail = TRUE
  MayThrottle = TRUE
INVARIANT
  RowsAreTrue
