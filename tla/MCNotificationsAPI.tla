-------------------------- MODULE MCNotificationsAPI --------------------------
(* Small instances of NotificationsAPI for TLC.                            *)
EXTENDS NotificationsAPI, TLC

CONSTANTS m1, m2, m3, i1, i2

Granted == [receivers |-> TRUE, content |-> TRUE, valid |-> TRUE, small |-> TRUE,
            token |-> TRUE, roles |-> {"mail", "sender"}, needs |-> {"mail", "sender"}]

(* No role for the sender the mail names.                                  *)
Denied == [Granted EXCEPT !.roles = {"mail"}]

ThreeMails == {m1, m2, m3}
TwoMails == {m1, m2}
OneMail == {m1}
TwoInstances == {i1, i2}
OneInstance == {i1}

EmptyBody == {m2}
NoBody == {}

BothGranted == (m1 :> Granted) @@ (m2 :> Granted)
OneDenied == (m1 :> Granted) @@ (m2 :> Granted) @@ (m3 :> Denied)
OneGranted == (m1 :> Granted)

Interchangeable == Permutations(TwoInstances)
=============================================================================
