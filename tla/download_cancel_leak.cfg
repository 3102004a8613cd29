\* Two games, one slot, one process life: what a cancelled task leaves behind.
CONSTANTS
  a1 = a1
  a2 = a2
  b = b
  ka = ka
  kb = kb
  NoItem = NoItem
  Items = {a1, b}
  KeyOf <- MCPairKeyOf
  CloudOnly = {b}
  MaxConcurrent = 1
  MaxBoots = 1
  MaxSaves = 1
  EarlyCalls = FALSE
SPECIFICATION Spec
INVARIANT SlotFreedWhenTaskEnds
CHECK_DEADLOCK FALSE
