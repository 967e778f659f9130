SPECIFICATION Spec
CONSTANTS
  Entities <- SomeEntities
  Requests <- SomeRequests
INVARIANTS
  CompositeUnencoded WireFits ContentKept AcceptedIsSendable 
