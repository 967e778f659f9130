SPECIFICATION FairSpec
CONSTANTS
  c1 = c1
  c2 = c2
  alice = alice
  bob = bob
  a = a
  A = A
  b = b
  NoUser = NoUser
  NoAddress = NoAddress
  ProxyUser = ProxyUser
  Conns <- TwoConns
  Users <- TwoUsers
  Addresses <- TwoAddresses
  Fold <- AsSpelled
  MaxCopies = 1
  Messages <- SomeMessages
  Configs <- SomeConfigs
INVARIANTS
  SubmitsAsItsUser PassthroughHasUser OneMailPerLogin
PROPERTIES
  KeepsPromise FailureWindsDown TransferEnds FailureEndsProxy
