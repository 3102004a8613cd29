\* One run, never cancelled.
CONSTANTS
  MaxRuns = 1
  NumStores = 1
  NoArtwork = {}
  MaxCancels = 0
SPECIFICATION Spec
PROPERTY
  WalkFollowsSync
CHECK_DEADLOCK FALSE
