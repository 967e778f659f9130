---------------------------- MODULE MCSlackSender ----------------------------
(* Small instances of SlackSender for TLC.                                 *)
EXTENDS SlackSender, TLC

CONSTANTS c1, c2, w1, w2, id1, id2

TwoCalls == {c1, c2}
OneWorkspace == {w1}
TwoWorkspaces == {w1, w2}
OneId == {id1}
TwoIds == {id1, id2}

Symmetry == Permutations(Calls) \cup Permutations(Workspaces) \cup Permutations(Ids)
=============================================================================
