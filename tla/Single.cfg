SPECIFICATION FairSpec
CONSTANTS
  m1 = m1
  m2 = m2
  m3 = m3
  i1 = i1
  i2 = i2
  NoMail = NoMail
  Mails <- ThreeMails
  Instances <- OneInstance
  EmptyBodies <- EmptyBody
  Request <- OneDenied
  Unauthenticated = FALSE
  LoggingOnly = FALSE
  RetryInterval = 0
  KeepInterval = 0
  MaxTime = 1
  MaxDisruptions = 2
INVARIANTS
  TypeOK  OnlyPermittedMails
PROPERTIES
  FollowsLifecycle ShutdownWindsDown QueueDrains ShutdownCompletes
