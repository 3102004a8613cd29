\* One user; four operations, two of them under way together.
CONSTANTS
  f1 = f1  f2 = f2  u1 = u1  u2 = u2
  Games = {g1, g2}
  Foreign = {f1}
  Users = {u1}
  HomeOf <- MCHomeOf
  WithExe = {g2}
  Tasks = {t1, t2}
  NoLib = NoLib
  MaxCalls = 3
  MaxOthers = 1
SPECIFICATION Spec
SYMMETRY MCSymmetry
INVARIANTS TypeOK SavedIsMemory FlagsFollowGames
PROPERTIES ForeignKept
CHECK_DEADLOCK FALSE
