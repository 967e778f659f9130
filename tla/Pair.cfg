SPECIFICATION Spec
CONSTANTS
  m1 = m1
  m2 = m2
  m3 = m3
  i1 = i1
  i2 = i2
  NoMail = NoMail
  Mails <- TwoMails
  Instances <- TwoInstances
  EmptyBodies <- EmptyBody
  Request <- BothGranted
  Unauthenticated = FALSE
  LoggingOnly = FALSE
  RetryInterval = 1
  KeepInterval = 1
  MaxTime = 2
  MaxDisruptions = 1
INVARIANTS
  NeverResent SentMeansHandedOver NoOrphanWithoutDisruption
PROPERTIES
  NeverBackToQueue FollowsLifecycle
SYMMETRY Interchangeable
