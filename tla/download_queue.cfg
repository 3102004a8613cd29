\* Three requests for two games, two install slots, one process life.
CONSTANTS
  a1 = a1
  a2 = a2
  b = b
  ka = ka
  kb = kb
  NoItem = NoItem
  Items <- MCItems
  KeyOf <- MCKeyOf
  CloudOnly = {}
  MaxConcurrent = 2
  MaxBoots = 1
  MaxSaves = 1
  EarlyCalls = FALSE
SPECIFICATION Spec
SYMMETRY MCSymmetry
INVARIANTS
  TypeOK
  NoDuplicateKey
  LiveInstallHoldsSlot
  SlotAccounted
CHECK_DEADLOCK FALSE
