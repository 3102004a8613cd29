\* Two users, one of whom takes over while a save is under way.
CONSTANTS
  f1 = f1  f2 = f2  u1 = u1  u2 = u2
  Games = {g1, g2}
  Foreign = {f1, f2}
  Users = {u1, u2}
  HomeOf <- MCHomeOf
  WithExe = {g2}
  Tasks = {t1}
  NoLib = NoLib
  MaxCalls = 3
  MaxOthers = 1
SPECIFICATION SwitchSpec
INVARIANTS OwnFile
CHECK_DEADLOCK FALSE
