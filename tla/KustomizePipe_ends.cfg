\* The same instance: does the pipe end with the processes at its two ends?
CONSTANT NumDocs = 3
SPECIFICATION FairSpec
PROPERTIES EndsWithItsProcesses
CHECK_DEADLOCK FALSE
