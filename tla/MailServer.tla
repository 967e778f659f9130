------------------------------ MODULE MailServer ------------------------------
(***************************************************************************)
(* internal/grpcservers/mail.go: the handlers QueueMail, SendMail and      *)
(* SendDryRun of the gRPC MailService.  grpc-go runs every call in a       *)
(* goroutine of its own, so a step of a handler interleaves with the other *)
(* handlers and with the dispatchers of all instances.                     *)
(*                                                                         *)
(* A request is named by the message id preprocessIncomingMailRequest      *)
(* gives it; a client that tries again makes a new request.                *)
(***************************************************************************)
EXTENDS Service

CONSTANTS
  Unauthenticated,   \* APIConfig.GrpcUnauthenticated
  Request            \* what the checks see of each request

(* What decides over a request.  roles are those of its token; a request   *)
(* without a valid token has none.  needs are the roles for mailing at     *)
(* all, for its sender (defaults filled in) and for its extra headers.     *)
RequestFields ==
  [receivers: BOOLEAN, content: BOOLEAN,   \* To/Cc/Bcc; subject and body
   valid: BOOLEAN,                         \* pbMailToValidatedMail succeeds
   small: BOOLEAN,                         \* encoded, at most MaxMailSizeBytes
   token: BOOLEAN, roles: SUBSET STRING, needs: SUBSET STRING]

ASSUME MailServerAssumption ==
  /\ Unauthenticated \in BOOLEAN
  /\ Request \in [Mails -> RequestFields]

VARIABLES
  rpc,      \* per request, where its handler is or how it ended
  method,   \* per request, the method called
  server    \* per request, the instance that serves it

Method == {"QueueMail", "SendMail", "SendDryRun"}
InFlight == {"insert", "transmit", "record", "panicked"}
RpcPc == {"none", "ok", "error"} \cup InFlight

rpcVars == <<rpc, method, server>>

MailServerInit ==
  /\ rpc = [m \in Mails |-> "none"]
  /\ method \in [Mails -> Method]
  /\ server \in [Mails -> Instances]

Goto(m, next) == rpc' = [rpc EXCEPT ![m] = next]

At(m, where) == rpc[m] = where /\ Running(server[m])

-----------------------------------------------------------------------------
(* checkSendPermission, for the claims of the token or for no claims.      *)
MayRequest(r) ==
  /\ r.needs \subseteq (IF r.token THEN r.roles ELSE {})
  /\ r.small

(* Mutant: the result of checkSendPermission is only logged.               *)
PreprocessedUnchecked(r) ==
  /\ r.receivers /\ r.content
  /\ r.token \/ Unauthenticated
  /\ r.valid

(* preprocessIncomingMailRequest returns a mail and not an error.          *)
Preprocessed(r) ==
  /\ r.receivers /\ r.content
  /\ r.token \/ Unauthenticated
  /\ r.valid
  /\ MayRequest(r) \/ Unauthenticated

Reject(m) ==
  /\ rpc[m] = "none" /\ Serving(server[m])
  /\ ~Preprocessed(Request[m])
  /\ Goto(m, "error")
  /\ UNCHANGED <<tableVars, serviceVars, method, server>>

(* SendDryRun does not look at loggingOnly.                                *)
OnlyLogged(m) == LoggingOnly /\ method[m] # "SendDryRun"

(* GetInternetMessageFormat, for the log, is all that can fail here.       *)
LogOnly(m) ==
  /\ rpc[m] = "none" /\ Serving(server[m])
  /\ Preprocessed(Request[m]) /\ OnlyLogged(m)
  /\ Goto(m, "ok") \/ Goto(m, "error")
  /\ UNCHANGED <<tableVars, serviceVars, method, server>>

Accept(m) ==
  /\ rpc[m] = "none" /\ Serving(server[m])
  /\ Preprocessed(Request[m]) /\ ~OnlyLogged(m)
  /\ Goto(m, IF method[m] = "QueueMail" THEN "insert" ELSE "transmit")
  /\ UNCHANGED <<tableVars, serviceVars, method, server>>

Receive(m) == Reject(m) \/ LogOnly(m) \/ Accept(m)

-----------------------------------------------------------------------------
QueueInsert(m) ==
  /\ At(m, "insert")
  /\ CreateMail(m, "submitted")
  /\ Goto(m, "ok")
  /\ UNCHANGED <<now, serviceVars, method, server>>

(* Mutant: the error of the insert is dropped, as SendMail does.           *)
QueueInsertErrorDropped(m) ==
  /\ At(m, "insert")
  /\ Disruption
  /\ UNCHANGED rows \/ CreateMail(m, "submitted")
  /\ Goto(m, "ok")
  /\ UNCHANGED <<now, life, fromQueue, fromRpc, method, server>>

(* The caller is told of a failure that may have come after the commit.    *)
QueueInsertError(m) ==
  /\ At(m, "insert")
  /\ Disruption
  /\ UNCHANGED rows \/ CreateMail(m, "submitted")
  /\ Goto(m, "error")
  /\ UNCHANGED <<now, life, fromQueue, fromRpc, method, server>>

(* SendMail and, by the same statements, SendDryRun.                       *)
SendTransmit(m) ==
  /\ At(m, "transmit")
  /\ AcceptFromRpc(m)
  /\ Goto(m, "record")
  /\ UNCHANGED <<tableVars, life, disruptions, fromQueue, method, server>>

SendTransmitError(m) ==
  /\ At(m, "transmit")
  /\ Disruption
  /\ UNCHANGED fromRpc \/ AcceptFromRpc(m)
  /\ Goto(m, "error")
  /\ UNCHANGED <<tableVars, life, fromQueue, method, server>>

(* Mutant: a mail that is out is stored the way QueueMail stores one.      *)
SendRecordSubmitted(m) ==
  /\ At(m, "record") /\ ~LoggingOnly
  /\ Goto(m, "ok") /\ CreateMail(m, "submitted")
  /\ UNCHANGED <<now, serviceVars, method, server>>

(* In logging-only mode there is no database pool behind the querier.      *)
SendRecord(m) ==
  /\ At(m, "record")
  /\ IF LoggingOnly
       THEN Goto(m, "panicked") /\ UNCHANGED rows
       ELSE Goto(m, "ok") /\ CreateMail(m, "sent")
  /\ UNCHANGED <<now, serviceVars, method, server>>

(* The mail is out: an error of the insert is logged and dropped.          *)
SendRecordError(m) ==
  /\ At(m, "record") /\ ~LoggingOnly
  /\ Disruption
  /\ UNCHANGED rows \/ CreateMail(m, "sent")
  /\ Goto(m, "ok")
  /\ UNCHANGED <<now, life, fromQueue, fromRpc, method, server>>

-----------------------------------------------------------------------------
RpcStep(m) == QueueInsert(m) \/ SendTransmit(m) \/ SendRecord(m)

RpcFault(m) == QueueInsertError(m) \/ SendTransmitError(m) \/ SendRecordError(m)
=============================================================================
