\* Four calls, one of them forced and one without artwork, two stores, a
\* cancellation and an install at any moment.
CONSTANTS
  r1 = r1
  r2 = r2
  r3 = r3
  f = f
  Requests = {r1, r2, r3, f}
  Forced = {f}
  NoArtwork = {r2}
  NoCaller = NoCaller
  NumStores = 2
  MaxRuns = 4
  MaxOthers = 2
SPECIFICATION FairSpec
INVARIANTS
  TypeOK
  StrandedOnlyBehind
  CancelKeepsLibrary
  LibraryTracksInstalls
PROPERTIES
  QueuedIsServed
  CallsReturn
CHECK_DEADLOCK FALSE
