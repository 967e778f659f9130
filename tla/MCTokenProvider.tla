--------------------------- MODULE MCTokenProvider ---------------------------
(* Small instances of TokenProvider for TLC.                               *)
EXTENDS TokenProvider, TLC

CONSTANTS c1, c2

TwoCallers == {c1, c2}
ShortAndLong == {1, 3}
EitherCaller == Permutations(TwoCallers)
=============================================================================
