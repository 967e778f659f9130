------------------------------ MODULE SmtpProxy ------------------------------
(***************************************************************************)
(* internal/smtp-proxy/smtp-proxy.go: the proxy as a whole.  Its handler   *)
(* gets a token for the API in the way GrpcAuthMode says and calls         *)
(* QueueMail or SendMail, as UseQueuing says; the API accepts or refuses,  *)
(* and its reply may get lost.  HandleSMTPProxy never asks for the dry     *)
(* run that SMTPEnsureSender would put before.                             *)
(***************************************************************************)
EXTENDS SmtpSession

CONSTANT ProxyUser   \* the OIDC client the proxy itself is

ASSUME ProxyAssumption == ProxyUser \notin Users /\ ProxyUser # NoUser

VARIABLES
  token,      \* whose token goes with the gRPC call
  accepted,   \* history: how often the API accepted the mail of this DATA
  result      \* what handleMessage returned

handlerVars == <<token, accepted, result>>
vars == <<processVars, sessionVars, handlerVars>>

Init ==
  /\ ProcessInit /\ SessionInit
  /\ token = [c \in Conns |-> NoUser]
  /\ accepted = [c \in Conns |-> 0]
  /\ result = [c \in Conns |-> "none"]

-----------------------------------------------------------------------------
At(c, where) == main = "serving" /\ pc[c] = where

Return(c, r) ==
  /\ result' = [result EXCEPT ![c] = r]
  /\ pc' = [pc EXCEPT ![c] = "answer"]
  /\ UNCHANGED <<processVars, conn, session, mail, reply, login>>

(* Whose token the mode calls for.                                         *)
Principal(c) ==
  CASE config.grpcAuth = "none"        -> NoUser
    [] config.grpcAuth = "passthrough" -> session[c].provider
    [] config.grpcAuth = "oidc-inject" -> ProxyUser

(* In passthrough mode the context must have a provider; both providers    *)
(* may have to ask the OIDC server.  In logging-only mode the mail is      *)
(* formatted for the log, which may fail.                                  *)
GetToken(c) ==
  /\ At(c, "token")
  /\ config.grpcAuth = "passthrough" => session[c].provider # NoUser
  /\ token' = [token EXCEPT ![c] = Principal(c)]
  /\ \/ /\ config.loggingOnly
        /\ Return(c, "ok") \/ Return(c, "error")
     \/ /\ ~config.loggingOnly
        /\ pc' = [pc EXCEPT ![c] = "submit"]
        /\ UNCHANGED <<processVars, conn, session, mail, reply, login, result>>
  /\ UNCHANGED accepted

TokenError(c) ==
  /\ At(c, "token") /\ config.grpcAuth # "none"
  /\ Return(c, "error")
  /\ UNCHANGED <<token, accepted>>

Submit(c) ==
  /\ At(c, "submit")
  /\ accepted' = [accepted EXCEPT ![c] = @ + 1]
  /\ Return(c, "ok")
  /\ UNCHANGED token

(* Mutant: a call whose reply is lost is made again.                       *)
SubmitErrorResent(c) ==
  /\ At(c, "submit")
  /\ \/ UNCHANGED accepted
     \/ accepted' = [accepted EXCEPT ![c] = @ + 1]
  /\ UNCHANGED <<processVars, sessionVars, token, result>>

(* Mutant: a call that fails is made again, with a new token.              *)
SubmitErrorRetried(c) ==
  /\ At(c, "submit")
  /\ pc' = [pc EXCEPT ![c] = "token"]
  /\ UNCHANGED <<processVars, conn, session, mail, reply, login, handlerVars>>

(* The API refuses, or accepts and its reply gets lost.                    *)
SubmitError(c) ==
  /\ At(c, "submit")
  /\ \/ UNCHANGED accepted
     \/ accepted' = [accepted EXCEPT ![c] = @ + 1]
  /\ Return(c, "error")
  /\ UNCHANGED token

(* 250 or 554.                                                             *)
Reply(c) ==
  /\ At(c, "answer")
  /\ Answer(c, result[c])
  /\ token' = [token EXCEPT ![c] = NoUser]
  /\ result' = [result EXCEPT ![c] = "none"]
  /\ accepted' = [accepted EXCEPT ![c] = 0]
  /\ UNCHANGED processVars

(* The client is gone.                                                     *)
ReplyLost(c) ==
  /\ At(c, "answer")
  /\ Drop(c)
  /\ token' = [token EXCEPT ![c] = NoUser]
  /\ result' = [result EXCEPT ![c] = "none"]
  /\ accepted' = [accepted EXCEPT ![c] = 0]
  /\ UNCHANGED processVars

Handler(c) ==
  \/ GetToken(c) \/ TokenError(c)
  \/ Submit(c) \/ SubmitError(c)
  \/ Reply(c) \/ ReplyLost(c)

-----------------------------------------------------------------------------
(* The end of the process cuts off what its goroutines are doing.          *)
Stop ==
  /\ End
  /\ conn' = [c \in Conns |-> Closed]
  /\ session' = [c \in Conns |-> NewSession]
  /\ pc' = [c \in Conns |-> "ready"]
  /\ mail' = [c \in Conns |-> NoMail]
  /\ reply' = [c \in Conns |-> "none"]
  /\ login' = [c \in Conns |-> NoLogin]
  /\ token' = [c \in Conns |-> NoUser]
  /\ accepted' = [c \in Conns |-> 0]
  /\ result' = [c \in Conns |-> "none"]

Over == main \in {"refused", "panicked", "ended"} /\ UNCHANGED vars

ConnStep(c) == (Command(c) \/ AuthReply(c)) /\ UNCHANGED handlerVars

ProcessMove == ProcessStep /\ UNCHANGED <<sessionVars, handlerVars>>

Next ==
  \/ \E c \in Conns : ConnStep(c) \/ Handler(c)
  \/ ProcessMove \/ Stop
  \/ Over

Spec == Init /\ [][Next]_vars

(* Calls return, the members of the errgroup run, and a process that is    *)
(* done ends.  Clients need not do anything, and nothing need fail.        *)
Fairness ==
  /\ \A c \in Conns : WF_vars(Handler(c)) /\ WF_vars(AuthReply(c) /\ UNCHANGED handlerVars)
  /\ WF_vars(Member /\ UNCHANGED <<sessionVars, handlerVars>>)
  /\ WF_vars(Stop)

FairSpec == Spec /\ Fairness

-----------------------------------------------------------------------------
(* Every variable keeps its shape.                                         *)
TypeOK ==
  /\ ProcessTypeOK
  /\ conn \in [Conns -> ConnType]
  /\ session \in [Conns -> SessionType]
  /\ pc \in [Conns -> {"ready", "auth", "token", "submit", "answer"}]
  /\ mail \in [Conns -> Mailed]
  /\ reply \in [Conns -> {"none", "ok", "error"}]
  /\ login \in [Conns -> LoginType]
  /\ token \in [Conns -> Users \cup {NoUser, ProxyUser}]
  /\ accepted \in [Conns -> Nat]
  /\ result \in [Conns -> {"none", "ok", "error"}]

Submitting(c) == pc[c] = "submit" \/ accepted[c] > 0

(* smtp-proxy.go:92: what a client sends goes to the API under the name    *)
(* that this connection logged in with, whoever logs in on others, and     *)
(* under that of the proxy or no name in the other modes.                  *)
SubmitsAsItsUser ==
  \A c \in Conns : Submitting(c) =>
    token[c] = CASE config.grpcAuth = "passthrough" -> login[c].user
                 [] config.grpcAuth = "oidc-inject" -> ProxyUser
                 [] config.grpcAuth = "none"        -> NoUser

(* smtp-proxy.go:94: whatever the configuration and the commands before,   *)
(* the handler that passes credentials on finds some.                      *)
PassthroughHasUser ==
  \A c \in Conns :
    pc[c] = "token" /\ config.grpcAuth = "passthrough" => session[c].provider \in Users

(* server.go:169: a login is good for one mail, since each DATA resets     *)
(* it, and go-smtp lets the client log in again only on a new connection.  *)
OneMailPerLogin ==
  \A c \in Conns : RequireAuth => login[c].mails <= 1

(* server.go:229-333: a mail on its way has the sender of the envelope.    *)
(* Each recipient of the envelope is either named by a header, up to case, *)
(* and then hidden in no Bcc as well, or in Bcc as often as the client     *)
(* gave it; nobody else is in Bcc.                                         *)
AddressedAsEnvelope ==
  \A c \in Conns : pc[c] \in {"token", "submit"} =>
    LET m == mail[c]
        named == Folded(m.to \cup m.cc)
    IN  /\ m.from = session[c].from
        /\ \A r \in Addresses :
             IF Fold[r] \in named THEN m.bcc[r] = 0
                                  ELSE m.bcc[r] = session[c].recipients[r]

-----------------------------------------------------------------------------
InData(c) == pc[c] \in {"token", "submit", "answer"}

Transfer(c) ==
  CASE InData(c) -> IF accepted[c] > 0 THEN "accepted" ELSE "open"
    [] OTHER -> IF reply[c] = "error" THEN "failed" ELSE reply[c]

Life ==
  CASE main = "starting" -> "new"
    [] main = "serving" -> IF cancelled THEN "failing" ELSE "up"
    [] OTHER -> "over"

Promise == INSTANCE Relay WITH
  transfer <- [c \in Conns |-> Transfer(c)],
  copies <- accepted,
  proxy <- Life,
  logging <- config.loggingOnly

(* smtp-proxy.go:152-168: what a client is told is what the API did, the   *)
(* API takes no mail twice between DATA and its answer, and a connection   *)
(* that is lost takes no other with it while both servers run.             *)
KeepsPromise == Promise!Spec

(* What the members of the errgroup have left to do.                       *)
ServerLeft == [unset |-> 2, listening |-> 1, down |-> 0]
CloserLeft(closed) == IF closed THEN 0 ELSE 1
MembersLeft ==
  ServerLeft[http] + ServerLeft[smtp] + CloserLeft(httpCloser) + CloserLeft(smtpCloser)

(* actions/smtp-proxy.go:90-119: a server that is down has cancelled the   *)
(* other members, and from then on they start what they have not yet, or   *)
(* come to an end; no connection opens any more once SMTP is down.         *)
FailureWindsDown ==
  [][main = "serving" /\ (http = "down" \/ smtp = "down") =>
       /\ cancelled /\ cancelled'
       /\ \/ UNCHANGED processVars
          \/ MembersLeft' < MembersLeft
          \/ main' = "ended" /\ MembersLeft = 0
       /\ smtp = "down" => \A c \in Conns :
            conn[c].link = "closed" => conn'[c].link = "closed"]_vars

(* Every DATA is answered, or the connection ends.                         *)
TransferEnds ==
  \A c \in Conns : pc[c] = "token" ~> pc[c] = "ready"

(* actions/smtp-proxy.go:90-119: when one server is down the other is      *)
(* closed and the process ends for its orchestrator to start it again,     *)
(* unless the other was shut down before it listened: it then serves on.   *)
FailureEndsProxy ==
  http = "down" \/ smtp = "down" ~>
    \/ main = "ended"
    \/ httpCloser /\ http # "down"
    \/ smtpCloser /\ smtp # "down"
=============================================================================
