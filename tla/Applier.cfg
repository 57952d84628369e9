\* Two runs that may draw the same name: r1 a kustomization of two documents, r2 a plain manifest.
CONSTANTS
  r1 = r1
  r2 = r2
  n1 = n1
  NoRun = NoRun
  NoName = NoName
  Runs = {r1, r2}
  Names = {n1}
  Kustomize = {r1}
  Remove = {r2}
  NumDocs = 2
SPECIFICATION FairSpec
INVARIANTS TypeOK DeferredIsOwn AppliesAsCaller CleanExit
PROPERTIES DeletesOnlyOwn KeepsPromise CancelReturns
CHECK_DEADLOCK FALSE
