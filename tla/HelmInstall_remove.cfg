\* Install a chart from a git repository, then --remove it, perhaps after a release.
CONSTANTS
  r1 = r1
  r2 = r2
  Absent = Absent
  Runs = {r1, r2}
  MaxActive = 1
  MaxVersion = 2
  MaxDeletes = 0
  VersionInKey = TRUE
SPECIFICATION Spec
INVARIANTS RemoveUndoes
CHECK_DEADLOCK FALSE
