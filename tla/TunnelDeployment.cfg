\* Two installs and a removal, over an earlier install or none.
CONSTANTS
  i1 = i1
  i2 = i2
  r1 = r1
  None = None
  Installs = {i1, i2}
  Removes = {r1}
  Asked <- MCAsked
  Mapped <- MCMapped
  Hyphen = "-"
  ApiServerNames <- MCApiServerNames
  ApiServerSlug <- MCApiServerSlug
  ServiceSlug <- MCServiceSlug
  Limit = 2
  MaxPods = 2
  Prior <- MCPrior
SPECIFICATION Spec
INVARIANTS TypeOK NoLostInstall NamesValid ReportsOwnTarget
PROPERTIES OnlyOwnRemoved InstallEnds
CHECK_DEADLOCK FALSE
