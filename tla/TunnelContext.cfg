\* One tunnel, and a user who adds and selects contexts meanwhile.
CONSTANTS
  t1 = t1
  dev = dev
  prod = prod
  None = None
  Tunnels = {t1}
  UserContexts = {dev, prod}
  MaxSuffix = 2
SPECIFICATION Spec
INVARIANTS TypeOK DeadContextRetired SelectionExists GrantsRevoked
CHECK_DEADLOCK FALSE
