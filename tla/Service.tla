------------------------------- MODULE Service -------------------------------
(***************************************************************************)
(* What every part of the service shares: the processes (`notifications-   *)
(* api grpc-api`, one per instance), the mail backend behind               *)
(* mailer.MailSender, and the budget of things that go wrong.              *)
(***************************************************************************)
EXTENDS MailTable

CONSTANTS
  Instances,       \* processes that use the same database
  LoggingOnly,     \* CommonConfig.LoggingOnly
  MaxDisruptions   \* bound: failures, crashes and shutdowns in a behaviour

ASSUME ServiceAssumption ==
  /\ LoggingOnly \in BOOLEAN
  /\ MaxDisruptions \in Nat

VARIABLES
  life,         \* per instance, where its process is
  disruptions,  \* how many disruptions there have been
  fromQueue,    \* history: how often the backend took a mail from a dispatcher
  fromRpc       \* history: how often it took a mail from an RPC handler

(* stopping: the errgroup context is cancelled, but the goroutine that      *)
(* waits for it has not called GracefulStop yet; draining: it has.         *)
Life == {"up", "stopping", "draining", "down"}

serviceVars == <<life, disruptions, fromQueue, fromRpc>>

ServiceInit ==
  /\ life = [i \in Instances |-> "up"]
  /\ disruptions = 0
  /\ fromQueue = [i \in Instances |-> [m \in Mails |-> 0]]
  /\ fromRpc = [m \in Mails |-> 0]

(* A lost connection, a timeout, a refused mail, a kill, a signal.         *)
Disruption ==
  /\ disruptions < MaxDisruptions
  /\ disruptions' = disruptions + 1

Running(i) == life[i] # "down"

Cancelled(i) == life[i] \in {"stopping", "draining"}

(* The gRPC server lets new calls in until GracefulStop.                   *)
Serving(i) == life[i] \in {"up", "stopping"}

(* A call that gets the cancelled context of an instance fails without any *)
(* other cause.                                                            *)
CallFails(i) ==
  \/ Cancelled(i) /\ UNCHANGED disruptions
  \/ life[i] = "up" /\ Disruption

(* MailSender.TransmitMail for a mail the backend accepts, called by the   *)
(* dispatcher of i or by an RPC handler.                                   *)
AcceptFromQueue(i, m) == fromQueue' = [fromQueue EXCEPT ![i][m] = @ + 1]
AcceptFromRpc(m) == fromRpc' = [fromRpc EXCEPT ![m] = @ + 1]

HandedOver(m) == fromRpc[m] > 0 \/ \E i \in Instances : fromQueue[i][m] > 0
=============================================================================
