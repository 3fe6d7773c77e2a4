SPECIFICATION Spec
CONSTANTS
  Serial = {s1}
  Task = {t1, t2, t3}
  NoTask = NoTask
  Reconnectable = {s1}
  ReopenFails = TRUE
  ListingFails = TRUE
  BackoffBase = 1
  BackoffMax = 30
  FailureCap = 6
  MaxLag = 2
SYMMETRY TaskSymmetry
INVARIANTS TypeOK ExclusiveSession RegistryTellsTruth KnownIsOwned
PROPERTIES FailureNeverShortensWait ImplementsLifecycle
