\* One process at a time, killed and restarted at will; five versions, so that
\* an update finds more than it retains.
CONSTANTS
  p1 = p1
  Procs = {p1}
  Versions = {1, 2, 3, 4, 5}
  Retain = 3
  MaxMissed = 2
  InitLayouts = {"symlink", "inplace", "managed", "dev"}
  NoVersion = NoVersion
SPECIFICATION Spec
INVARIANTS TypeOK LinkResolves InstalledIsGenuine OneCheckPerStamp
PROPERTIES OnlyForward RollbackKept
CHECK_DEADLOCK FALSE
