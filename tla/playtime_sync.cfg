\* Three games of three stores, two sessions, a clock of four ticks.
CONSTANTS
  g1 = g1  g2 = g2  g3 = g3  gog = gog  epic = epic  amazon = amazon
  Games = {g1, g2, g3}
  Ids = {r1, r2}
  NoGame = NoGame
  NoId = NoId
  MinSession = 2
  MaxTime = 4
  Stores = {gog, epic, amazon}
  SyncStores = {gog, epic}
  StoreOf <- MCStoreOf
  RoundsDown = {gog}
  MinReport = 3
  MaxSends = 2
SPECIFICATION Spec
INVARIANTS TypeOK SessionLedger OnceIfKnown NothingForgotten
PROPERTIES ImplementsOutbox FinishedIsReported
CHECK_DEADLOCK FALSE
