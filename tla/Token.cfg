SPECIFICATION Spec
CONSTANTS
  c1 = c1
  c2 = c2
  Callers <- TwoCallers
  Lifetimes <- ShortAndLong
  Skew = 1
  MaxTokens = 3
  MaxTime = 4
INVARIANTS
  NeverReturnsNil FreshUnlessOverlapped
SYMMETRY EitherCaller
