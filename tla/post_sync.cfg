\* Two runs of one store, the first without artwork, and one cancellation.
CONSTANTS
  MaxRuns = 2
  NumStores = 1
  NoArtwork = {1}
  MaxCancels = 1
SPECIFICATION FairSpec
INVARIANTS
  TypeOK
  CompleteMeansIdle
PROPERTIES
  CancelledEarlySticks
  BarSettles
CHECK_DEADLOCK FALSE
