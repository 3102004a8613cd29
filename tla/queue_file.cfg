\* Two saves in flight, four inodes: a file each, the target and a leftover.
CONSTANTS
  Writers = {w1, w2}
  Lists <- MCLists
  Inodes = {n1, n2, n3, n4}
  NoInode = NoInode
SPECIFICATION Spec
SYMMETRY MCSymmetry
INVARIANTS TypeOK SettledHoldsLive CrashFindsWholeFile
PROPERTY ImplementsSaveFile
CHECK_DEADLOCK FALSE
