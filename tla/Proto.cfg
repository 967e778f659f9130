SPECIFICATION Spec
CONSTANTS
  Entities <- SomeEntities
  Requests <- SomeRequests
INVARIANT AnyPromiseKept
