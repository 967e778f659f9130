SPECIFICATION Spec
CONSTANTS
  m1 = m1
  m2 = m2
  m3 = m3
  i1 = i1
  i2 = i2
  NoMail = NoMail
  Mails <- OneMail
  Instances <- TwoInstances
  EmptyBodies <- NoBody
  Request <- OneGranted
  Unauthenticated = FALSE
  LoggingOnly = FALSE
  RetryInterval = 1
  KeepInterval = 1
  MaxTime = 2
  MaxDisruptions = 0
INVARIANTS
  OneAttemptPerInterval
