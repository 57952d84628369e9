\* Every configuration, and one file that changes while it is resolved.
CONSTANTS
  MaxRotations = 1
SPECIFICATION Spec
INVARIANTS TypeOK ExactlyOne
CHECK_DEADLOCK FALSE
