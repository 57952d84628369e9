\* Two processes that update at the same time, five versions: is there still a binary behind the symlink?
CONSTANTS
  p1 = p1
  p2 = p2
  Procs = {p1, p2}
  Versions = {1, 2, 3, 4, 5}
  Retain = 3
  MaxMissed = 0
  InitLayouts = {"symlink"}
  NoVersion = NoVersion
SPECIFICATION Spec
INVARIANTS LinkResolves
SYMMETRY ProcSymmetry
CHECK_DEADLOCK FALSE
