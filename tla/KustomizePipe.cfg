\* Three documents: one in kubectl, one in the copier, one in a blocked write.
CONSTANT NumDocs = 3
SPECIFICATION FairSpec
INVARIANT TypeOK
PROPERTIES KeepsPromise CancelReturns ReturnsUnlessApplyEndsFirst
CHECK_DEADLOCK FALSE
