-------------------------------- MODULE Relay --------------------------------
(***************************************************************************)
(* What the SMTP proxy promises of the mails sent through a connection,    *)
(* one after the other: the client is told of success only for a mail the  *)
(* API took, the API takes each at most once, and a failure the client is  *)
(* told of may come after that.  A connection may be lost at any time, but *)
(* all are lost together only with the process, once a server failed.      *)
(***************************************************************************)
EXTENDS Naturals

CONSTANT Conns

VARIABLES
  transfer,   \* per connection, how far the mail is, or how the last one ended
  copies,     \* how often the API took the mail under way
  proxy,      \* the process
  logging     \* mails are only logged

vars == <<transfer, copies, proxy, logging>>

Rest == {"none", "ok", "failed"}
Stage == Rest \cup {"open", "accepted"}

Init ==
  /\ transfer = [c \in Conns |-> "none"]
  /\ copies = [c \in Conns |-> 0]
  /\ proxy = "new"
  /\ logging \in BOOLEAN

Move(c, from, to, n) ==
  /\ proxy \in {"up", "failing"}
  /\ transfer[c] \in from
  /\ transfer' = [transfer EXCEPT ![c] = to]
  /\ copies' = [copies EXCEPT ![c] = n]
  /\ UNCHANGED <<proxy, logging>>

Begin(c) == Move(c, Rest, "open", 0)
Refuse(c) == Move(c, Rest, "failed", 0)
Accept(c) == copies[c] = 0 /\ Move(c, {"open"}, "accepted", 1)
Confirm(c) == Move(c, IF logging THEN {"open"} ELSE {"accepted"}, "ok", 0)
Fail(c) == Move(c, {"open", "accepted"}, "failed", 0)
Disconnect(c) == Move(c, Stage, "none", 0)

-----------------------------------------------------------------------------
Become(from, to) == proxy = from /\ proxy' = to /\ UNCHANGED logging

Start == Become("new", "up") /\ UNCHANGED <<transfer, copies>>
GiveUp == Become("new", "over") /\ UNCHANGED <<transfer, copies>>
Break == Become("up", "failing") /\ UNCHANGED <<transfer, copies>>

End ==
  /\ Become("failing", "over")
  /\ transfer' = [c \in Conns |-> "none"]
  /\ copies' = [c \in Conns |-> 0]

Next ==
  \/ \E c \in Conns :
       Begin(c) \/ Refuse(c) \/ Accept(c) \/ Confirm(c) \/ Fail(c) \/ Disconnect(c)
  \/ Start \/ GiveUp \/ Break \/ End

Spec == Init /\ [][Next]_vars
=============================================================================
