SPECIFICATION FairSpec
CONSTANTS
  Serial = {s1}
  Task = {t1, t2}
  NoTask = NoTask
  Reconnectable = {s1}
  ReopenFails = TRUE
  ListingFails = FALSE
  BackoffBase = 1
  BackoffMax = 2
  FailureCap = 2
  MaxLag = 1
PROPERTIES PluggedIsServed UnpluggedIsForgotten WillingIsConnected
