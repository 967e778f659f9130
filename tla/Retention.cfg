SPECIFICATION FairSpec
CONSTANTS
  m1 = m1
  m2 = m2
  m3 = m3
  i1 = i1
  i2 = i2
  NoMail = NoMail
  Mails <- OneMail
  Instances <- OneInstance
  EmptyBodies <- NoBody
  Request <- OneGranted
  Unauthenticated = FALSE
  LoggingOnly = FALSE
  RetryInterval = 1
  KeepInterval = 1
  MaxTime = 3
  MaxDisruptions = 0
PROPERTIES
  SentIsDeleted
