---------------------------- MODULE MailLifecycle ----------------------------
(***************************************************************************)
(* What the life of one mail looks like from outside: which states its row *)
(* goes through, and who gives it to the mail backend.  An RPC handler     *)
(* does so once, and then the mail is nobody else's; a dispatcher once,    *)
(* and only while the mail is under way.  A row is marked sent only of a   *)
(* mail the backend has.                                                   *)
(*                                                                         *)
(* A dispatcher alone on the database leads every mail once from submitted *)
(* to sent or failed, and both are final.  Several may have read the same  *)
(* row before one of them claims it: then each claims it, sends it and     *)
(* writes its own result over the others', but none of them sends it twice.*)
(***************************************************************************)
CONSTANTS Mails, Dispatchers

VARIABLES
  status,    \* status of the row, "absent" without one
  byQueue,   \* the dispatchers the backend accepted the mail from
  byRpc      \* the mails the backend accepted from an RPC handler

lifecycleVars == <<status, byQueue, byRpc>>

Alone == \A d, e \in Dispatchers : d = e

Init ==
  /\ status = [m \in Mails |-> "absent"]
  /\ byQueue = [m \in Mails |-> {}]
  /\ byRpc = {}

New(m) == status[m] = "absent" /\ byQueue[m] = {} /\ m \notin byRpc

UnderWay(m) ==
  /\ status[m] \in IF Alone THEN {"processing"} ELSE {"processing", "sent", "failed"}
  /\ m \notin byRpc

Become(m, s) ==
  status' = [status EXCEPT ![m] = s] /\ UNCHANGED <<byQueue, byRpc>>

Submit(m) == New(m) /\ Become(m, "submitted")

Claim(m) ==
  /\ \/ status[m] = "submitted" /\ m \notin byRpc
     \/ ~Alone /\ UnderWay(m)
  /\ Become(m, "processing")

HandOver(m, d) ==
  /\ UnderWay(m) /\ d \notin byQueue[m]
  /\ byQueue' = [byQueue EXCEPT ![m] = @ \cup {d}]
  /\ UNCHANGED <<status, byRpc>>

MarkSent(m) == UnderWay(m) /\ byQueue[m] # {} /\ Become(m, "sent")

MarkFailed(m) == UnderWay(m) /\ Become(m, "failed")

SendDirectly(m) ==
  /\ New(m)
  /\ byRpc' = byRpc \cup {m}
  /\ UNCHANGED <<status, byQueue>>

Record(m) == status[m] = "absent" /\ m \in byRpc /\ Become(m, "sent")

Next ==
  \E m \in Mails :
    \/ Submit(m) \/ Claim(m) \/ MarkSent(m) \/ MarkFailed(m)
    \/ \E d \in Dispatchers : HandOver(m, d)
    \/ SendDirectly(m) \/ Record(m)

Spec == Init /\ [][Next]_lifecycleVars
=============================================================================
