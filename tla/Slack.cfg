SPECIFICATION FairSpec
CONSTANTS
  c1 = c1
  c2 = c2
  w1 = w1
  w2 = w2
  id1 = id1
  id2 = id2
  NoUser = NoUser
  NoMap = NoMap
  NoWorkspace = NoWorkspace
  Calls <- TwoCalls
  Workspaces <- TwoWorkspaces
  Ids <- OneId
  MaxRetries = 2
  UpdatePeriod = 0
  MaxChanges = 1
  MaxTime = 1
INVARIANTS
  PostedAtMostOnce ResolvesTruly OkUnlessExhausted
PROPERTIES
  CallGetsOn CallReturns
