\* Two games, one cloud-only, two process lives, a call during the save of the worker or of stop.
CONSTANTS
  a1 = a1
  a2 = a2
  b = b
  ka = ka
  kb = kb
  NoItem = NoItem
  Items = {a1, b}
  KeyOf <- MCPairKeyOf
  CloudOnly = {b}
  MaxConcurrent = 1
  MaxBoots = 2
  MaxSaves = 1
  EarlyCalls = TRUE
SPECIFICATION FairSpec
INVARIANTS
  ConcurrencyCap
  DiskSettled
  PersistBeforeSpawn
  
PROPERTIES
  OneVerdict
  QueuedIsServed
  CancelTakesEffect
CHECK_DEADLOCK FALSE
