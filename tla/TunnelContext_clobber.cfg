\* Are the changes the user makes while a tunnel is open still there afterwards?
CONSTANTS
  t1 = t1
  dev = dev
  prod = prod
  None = None
  Tunnels = {t1}
  UserContexts = {dev, prod}
  MaxSuffix = 1
SPECIFICATION Spec
INVARIANTS ForeignChangesKept
CHECK_DEADLOCK FALSE
