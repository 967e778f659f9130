--------------------------- MODULE NotificationsAPI ---------------------------
(***************************************************************************)
(* The service as deployed: every instance runs the gRPC server, the queue *)
(* dispatcher and the deleter in one errgroup                              *)
(* (internal/cli/actions/grpc-api.go), all instances share one database,   *)
(* and an orchestrator starts a process again after it ended.              *)
(***************************************************************************)
EXTENDS Dispatcher, MailServer

vars == <<tableVars, serviceVars, dispatcherVars, rpcVars>>

Init == TableInit /\ ServiceInit /\ DispatcherInit /\ MailServerInit

-----------------------------------------------------------------------------
(* SIGTERM, or a member of the errgroup returned: the context is cancelled.*)
Shutdown(i) ==
  /\ life[i] = "up" /\ Disruption
  /\ life' = [life EXCEPT ![i] = "stopping"]
  /\ UNCHANGED <<tableVars, fromQueue, fromRpc, dispatcherVars, rpcVars>>

ServedBy(i) == {m \in Mails : server[m] = i /\ rpc[m] \in InFlight}

Reset(i) ==
  /\ life' = [life EXCEPT ![i] = "down"]
  /\ Return(i, "off")
  /\ deleter' = [deleter EXCEPT ![i] = "off"]

(* The goroutine that waits for ctx.Done beside the gRPC server gets its   *)
(* turn.                                                                   *)
GracefulStop(i) ==
  /\ life[i] = "stopping"
  /\ life' = [life EXCEPT ![i] = "draining"]
  /\ UNCHANGED <<tableVars, disruptions, fromQueue, fromRpc, dispatcherVars, rpcVars>>

(* eg.Wait returns: both loops have, and GracefulStop has seen the last    *)
(* handler return.                                                         *)
Stopped(i) ==
  /\ life[i] = "draining"
  /\ pc[i] \in {"exited", "off"} /\ deleter[i] \in {"exited", "off"}
  /\ ServedBy(i) = {}
  /\ Reset(i)
  /\ UNCHANGED <<tableVars, disruptions, fromQueue, fromRpc, rpcVars>>

Panicked(i) == pc[i] = "panicked" \/ \E m \in ServedBy(i) : rpc[m] = "panicked"

(* The process ends in the middle of everything and its callers see the    *)
(* connection drop.  A statement the database still committed is the step  *)
(* that commits it, taken before the crash.                                *)
End(i) ==
  /\ Reset(i)
  /\ rpc' = [m \in Mails |-> IF m \in ServedBy(i) THEN "error" ELSE rpc[m]]
  /\ UNCHANGED <<tableVars, fromQueue, fromRpc, method, server>>

Crash(i) == Running(i) /\ Disruption /\ End(i)

PanicExit(i) == Running(i) /\ Panicked(i) /\ End(i) /\ UNCHANGED disruptions

Start(i) ==
  /\ life[i] = "down"
  /\ life' = [life EXCEPT ![i] = "up"]
  /\ Return(i, DispatcherStart)
  /\ deleter' = [deleter EXCEPT ![i] = DeleterStart]
  /\ UNCHANGED <<tableVars, disruptions, fromQueue, fromRpc, rpcVars>>

-----------------------------------------------------------------------------
InstanceStep(i) ==
  \/ Shutdown(i) \/ GracefulStop(i) \/ Stopped(i) \/ Crash(i) \/ PanicExit(i) \/ Start(i)

QueueStep(i) ==
  /\ \/ DispatcherStep(i) \/ DispatcherFault(i)
     \/ DeleterStep(i) \/ DeleteError(i)
  /\ UNCHANGED rpcVars

HandlerStep(m) ==
  /\ Receive(m) \/ RpcStep(m) \/ RpcFault(m)
  /\ UNCHANGED dispatcherVars

ClockStep == Tick /\ UNCHANGED <<serviceVars, dispatcherVars, rpcVars>>

Next ==
  \/ \E i \in Instances : InstanceStep(i) \/ QueueStep(i)
  \/ \E m \in Mails : HandlerStep(m)
  \/ ClockStep

Spec == Init /\ [][Next]_vars

(***************************************************************************)
(* A goroutine that can run does, an instance that is down is started      *)
(* again, and what goes wrong goes wrong finitely often (MaxDisruptions).  *)
(* New requests and the passing of time are not forced.                    *)
(***************************************************************************)
Fairness ==
  /\ \A i \in Instances :
       /\ WF_vars(DispatcherProgress(i) /\ UNCHANGED rpcVars)
       /\ WF_vars(DeleterProgress(i) /\ UNCHANGED rpcVars)
       /\ WF_vars(GracefulStop(i))
       /\ WF_vars(Stopped(i))
       /\ WF_vars(PanicExit(i))
       /\ WF_vars(Start(i))
  /\ \A m \in Mails : WF_vars(RpcStep(m) /\ UNCHANGED dispatcherVars)

FairSpec == Spec /\ Fairness

-----------------------------------------------------------------------------
(* Every variable keeps its shape; the history counters are numbers.       *)
TypeOK ==
  /\ rows \in [Mails -> Row] /\ now \in Nat
  /\ life \in [Instances -> Life] /\ disruptions \in Nat
  /\ fromQueue \in [Instances -> [Mails -> Nat]]
  /\ fromRpc \in [Mails -> Nat]
  /\ pc \in [Instances -> DispatcherPc]
  /\ job \in [Instances -> Mails \cup {NoMail}]
  /\ popAt \in [Instances -> Nat]
  /\ outcome \in [Instances -> Outcome]
  /\ deleter \in [Instances -> DeleterPc]
  /\ rpc \in [Mails -> RpcPc]
  /\ method \in [Mails -> Method]
  /\ server \in [Mails -> Instances]

(* README.md:309: "endlessly sending the same mail over and over again" is *)
(* the worst case.  Through all crashes, restarts and lost status updates  *)
(* no dispatcher gives the backend the same mail twice, an RPC handler not *)
(* either, and a mail goes out by one of the two routes only.              *)
NeverResent ==
  \A m \in Mails :
    /\ \A i \in Instances : fromQueue[i][m] <= 1
    /\ fromRpc[m] <= 1
    /\ fromRpc[m] = 1 => \A i \in Instances : fromQueue[i][m] = 0

(* A row says `sent` only if the backend has the mail, whichever instance  *)
(* wrote the status last.                                                  *)
SentMeansHandedOver ==
  \A m \in Mails : rows[m].status = "sent" => HandedOver(m)

(* Success reported to a caller of QueueMail means the mail is in the      *)
(* table (README.md:52, "handle queued mails safely") or already out; for  *)
(* SendMail and SendDryRun it means that the mail is out.                  *)
OkIsKept ==
  \A m \in Mails :
    rpc[m] = "ok" /\ ~LoggingOnly =>
      \/ HandedOver(m)
      \/ method[m] = "QueueMail" /\ Present(m)

(* Nothing reaches the queue or the backend, by whatever route, for a      *)
(* request whose token lacks a role it needs or that is too large, unless  *)
(* the service runs unauthenticated.                                       *)
OnlyPermittedMails ==
  \A m \in Mails :
    (Present(m) \/ HandedOver(m)) /\ ~Unauthenticated =>
      Request[m].token /\ MayRequest(Request[m])

(* A row in `processing` that no dispatcher works on is there because      *)
(* something failed: no legal interleaving of instances abandons a mail.   *)
(* The deferred status update is what keeps this true when sending panics. *)
NoOrphanWithoutDisruption ==
  disruptions = 0 =>
    \A m \in Mails :
      rows[m].status = "processing" => \E i \in Instances : Handling(i, m)

(* Once in the table, a mail stays, and never becomes `submitted` again.   *)
NeverBackToQueue ==
  [][\A m \in Mails :
       Present(m) => rows'[m].status \notin {"absent", "submitted"}
                     \/ rows'[m] = rows[m]]_vars

(* Any number of instances together keep MailLifecycle.                    *)
Lifecycle == INSTANCE MailLifecycle WITH
  Dispatchers <- Instances,
  status <- [m \in Mails |-> rows[m].status],
  byQueue <- [m \in Mails |-> {i \in Instances : fromQueue[i][m] > 0}],
  byRpc <- {m \in Mails : fromRpc[m] > 0}

FollowsLifecycle == Lifecycle!Spec

-----------------------------------------------------------------------------
(* Every queued mail is eventually taken up, whatever crashes and errors   *)
(* happen to it or to the mails before it.                                 *)
QueueDrains ==
  \A m \in Mails : rows[m].status = "submitted" ~> rows[m].status # "submitted"

(* How many steps each goroutine has left at most once the context is      *)
(* cancelled.                                                              *)
DispatcherLeft ==
  [popping |-> 5, transmit |-> 4, setStatus |-> 3, poll |-> 2, wait |-> 1,
   exited |-> 0, off |-> 0, panicked |-> 0]
DeleterLeft == [delete |-> 2, wait |-> 1, exited |-> 0, off |-> 0]
HandlerLeft ==
  [transmit |-> 2, insert |-> 1, record |-> 1,
   none |-> 0, ok |-> 0, error |-> 0, panicked |-> 0]

(* With every step a goroutine of a cancelled instance takes it has fewer  *)
(* left: no loop starts another round, and a pop under way is the last, so *)
(* the mails in the queue cannot delay the end.  Calls are still let in    *)
(* until GracefulStop is called, and none after it.                        *)
WindsDown(i) ==
  /\ pc'[i] # pc[i] => DispatcherLeft[pc'[i]] < DispatcherLeft[pc[i]]
  /\ deleter'[i] # deleter[i] => DeleterLeft[deleter'[i]] < DeleterLeft[deleter[i]]
  /\ \A m \in Mails :
       server[m] = i /\ rpc'[m] # rpc[m] =>
         \/ HandlerLeft[rpc'[m]] < HandlerLeft[rpc[m]]
         \/ rpc[m] = "none" /\ life[i] = "stopping"

ShutdownWindsDown ==
  [][\A i \in Instances :
       Cancelled(i) /\ Cancelled(i)' => WindsDown(i)]_vars

(* After the context is cancelled the process ends: neither loop nor an    *)
(* RPC handler keeps GracefulStop and eg.Wait waiting forever.             *)
ShutdownCompletes ==
  \A i \in Instances : Cancelled(i) ~> life[i] = "down"

-----------------------------------------------------------------------------
(***************************************************************************)
(* The strengthening that makes the safety properties inductive.           *)
(***************************************************************************)

(* popAndHandleMail has a mail, and a result once it is done with it.      *)
Jobs ==
  \A i \in Instances :
    /\ pc[i] \in {"popping", "transmit", "setStatus"} => job[i] \in Mails
    /\ pc[i] = "setStatus" <=> outcome[i] # "none"

(* processed_at is never in the future.                                    *)
Clocks ==
  /\ \A m \in Mails : rows[m].processedAt <= now
  /\ \A i \in Instances : popAt[i] <= now

Holds(i, m) == pc[i] \in {"popping", "transmit", "setStatus"} /\ job[i] = m

(* Until a mail is popped no dispatcher has sent it, and each sends it     *)
(* only between its own pop and its own status update.                     *)
Attempts ==
  \A m \in Mails, i \in Instances :
    /\ rows[m].status = "absent" => ~Holds(i, m)
    /\ rows[m].status \in {"absent", "submitted"} =>
         fromQueue[i][m] = 0 /\ ~Handling(i, m)
    /\ Holds(i, m) /\ pc[i] # "setStatus" => fromQueue[i][m] = 0
    /\ Holds(i, m) /\ outcome[i] = "sent" => fromQueue[i][m] = 1
    /\ fromQueue[i][m] <= 1

(* A request has no row before its handler is done, and a mail a handler   *)
(* transmitted is nothing a dispatcher ever sees.                          *)
Routes ==
  \A m \in Mails :
    /\ rpc[m] \in {"none", "insert", "transmit", "record"} => ~Present(m)
    /\ rpc[m] \in {"none", "insert", "transmit"} => fromRpc[m] = 0
    /\ rpc[m] = "record" => fromRpc[m] = 1
    /\ fromRpc[m] <= 1
    /\ fromRpc[m] = 1 =>
         /\ rows[m].status \in {"absent", "sent"}
         /\ \A i \in Instances : fromQueue[i][m] = 0 /\ ~Holds(i, m)
    /\ rpc[m] = "insert" => method[m] = "QueueMail"

(* What was accepted passed the checks.                                    *)
Checked ==
  \A m \in Mails :
    rpc[m] \in {"insert", "transmit", "record"} \/ Present(m) \/ HandedOver(m)
      => Preprocessed(Request[m])

(* In logging-only mode there is no dispatcher, otherwise no handler        *)
(* panics, and only a disruption stops an instance: what ends without one  *)
(* has no mail in hand.                                                    *)
Undisturbed ==
  /\ LoggingOnly => \A i \in Instances : pc[i] = "off"
  /\ ~LoggingOnly => \A m \in Mails : rpc[m] # "panicked"
  /\ \A i \in Instances : life[i] = "down" => pc[i] = "off"
  /\ disruptions = 0 => \A i \in Instances : ~Cancelled(i)

IInv ==
  /\ TypeOK /\ Jobs
  /\ Clocks /\ Attempts /\ Routes
  /\ SentMeansHandedOver
  /\ OkIsKept

-----------------------------------------------------------------------------
(* mail.proto:25, "automatic retries": a mail that failed longer than the  *)
(* retry interval ago is taken up again.                                   *)
FailedIsRetried ==
  \A m \in Mails :
    (rows[m].status = "failed" /\ now - rows[m].processedAt > RetryInterval)
      ~> rows[m].status # "failed"

(* README.md:298: the sent messages are in the database "for a fixed,      *)
(* short period of time".                                                  *)
SentIsDeleted ==
  \A m \in Mails :
    (/\ rows[m].status = "sent" /\ rows[m].processedAt # Null
     /\ now - rows[m].processedAt > KeepInterval)
      ~> rows[m].status # "sent"

(* README.md:310, "only retries once per hour": two dispatchers never work *)
(* on one mail on account of pops less than the interval apart.            *)
OneAttemptPerInterval ==
  \A m \in Mails, i, j \in Instances :
    i # j /\ Handling(i, m) /\ Handling(j, m) =>
      \/ popAt[i] - popAt[j] > RetryInterval
      \/ popAt[j] - popAt[i] > RetryInterval
=============================================================================
