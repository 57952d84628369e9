\* Two commands, one after the other or at once; a release and a deletion meanwhile.
CONSTANTS
  r1 = r1
  r2 = r2
  Absent = Absent
  Runs = {r1, r2}
  MaxActive = 2
  MaxVersion = 2
  MaxDeletes = 1
  VersionInKey = FALSE
SPECIFICATION Spec
INVARIANTS TypeOK EditsKept ReviewedOrNewer
CHECK_DEADLOCK FALSE
