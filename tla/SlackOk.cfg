SPECIFICATION Spec
CONSTANTS
  c1 = c1
  c2 = c2
  w1 = w1
  w2 = w2
  id1 = id1
  id2 = id2
  NoUser = NoUser
  NoMap = NoMap
  NoWorkspace = NoWorkspace
  Calls <- TwoCalls
  Workspaces <- OneWorkspace
  Ids <- OneId
  MaxRetries = 2
  UpdatePeriod = 1
  MaxChanges = 1
  MaxTime = 2
INVARIANTS
  OkMeansPosted
SYMMETRY Symmetry
