SPECIFICATION Spec
CONSTANTS
  c1 = c1
  c2 = c2
  alice = alice
  bob = bob
  a = a
  A = A
  b = b
  NoUser = NoUser
  NoAddress = NoAddress
  ProxyUser = ProxyUser
  Conns <- OneConn
  Users <- OneUser
  Addresses <- ThreeAddresses
  Fold <- LowerCase
  MaxCopies = 2
  Messages <- Envelopes
  Configs <- GoodConfig
INVARIANTS
  AddressedAsEnvelope
