\* Two runs and one cancellation, in either.
CONSTANTS
  MaxRuns = 2
  NumStores = 1
  NoArtwork = {}
  MaxCancels = 1
SPECIFICATION Spec
PROPERTY
  CancelledSticks
CHECK_DEADLOCK FALSE
