SPECIFICATION FairAttempt
CONSTANTS
  b1 = b1
  b2 = b2
  b3 = b3
  Blocks = {b1, b2, b3}
  Root = b1
  HeaderBytes = 1
  BlockBytes = 2
  Dags <- SomeDags
  FetchTimeout = 5
  ChunkTimeout = 2
  MaxCarBytes = 5
  CarSizes = {3, 5, 7}
  ChunkSizes = {1, 2}
  HighWater = 2
  Visibility = 3
  Lead = 1
  MaxHidden = 10
INVARIANTS
  AttemptTypeOK
  UploadedIsNotAborted
  SizeLimit
  FetchIsBounded
  AcceptedIsWholeDag
  HiddenWhileWorking
PROPERTIES
  SlowChunkIsSlow
  AttemptEnds
  ImplementsHandler
