----------------------------- MODULE SmtpProofs -----------------------------
(***************************************************************************)
(* Theorems about the SMTP proxy of SmtpProxy, for every set of            *)
(* connections, users, addresses, messages and configurations.             *)
(***************************************************************************)
EXTENDS SmtpProxy, TLAPS

(* A connection waits for its next command unless the proxy serves it.     *)
Alive(c) ==
  /\ pc[c] # "ready" => main = "serving"
  /\ conn[c].link = "closed" => pc[c] = "ready"

(* Who is authenticated is the last who logged in, and has sent no mail    *)
(* but the one on its way.                                                 *)
LoggedIn(c) ==
  /\ session[c].isAuthenticated =>
       session[c].provider \in Users /\ session[c].provider = login[c].user
  /\ InData(c) => Authorized(c)
  /\ session[c].isAuthenticated /\ ~InData(c) => login[c].mails = 0
  /\ RequireAuth => login[c].mails <= 1

(* What the handler knows at each of its steps.                            *)
Handled(c) ==
  /\ Submitting(c) => token[c] = Principal(c)
  /\ accepted[c] > 0 => pc[c] = "answer"
  /\ pc[c] = "submit" => ~config.loggingOnly
  /\ pc[c] = "answer" => result[c] \in {"ok", "error"}
  /\ pc[c] = "answer" /\ result[c] = "ok" => (accepted[c] > 0 <=> ~config.loggingOnly)

(* The mail is that of the message and of the session it came in.          *)
Parsed(c) ==
  pc[c] \in {"token", "submit"} =>
    \E m \in Messages : mail[c] = ParsedMail(m, session[c])

(* No server runs before main serves, and none is down without having      *)
(* cancelled the group.                                                    *)
Tells ==
  /\ main = "starting" => http = "unset" /\ smtp = "unset" /\ ~cancelled
  /\ main = "serving" /\ (http = "down" \/ smtp = "down") => cancelled

ConnOK(c) == Alive(c) /\ LoggedIn(c) /\ Handled(c) /\ Parsed(c)

IInv ==
  /\ TypeOK
  /\ main = "serving" => Valid
  /\ Tells
  /\ \A c \in Conns : ConnOK(c)

Same(d) ==
  /\ conn'[d] = conn[d] /\ session'[d] = session[d] /\ pc'[d] = pc[d]
  /\ mail'[d] = mail[d] /\ reply'[d] = reply[d] /\ login'[d] = login[d]
  /\ token'[d] = token[d] /\ accepted'[d] = accepted[d] /\ result'[d] = result[d]

-----------------------------------------------------------------------------
LEMMA Fresh ==
  /\ Closed \in ConnType /\ NewSession \in SessionType
  /\ NoMail \in Mailed /\ NoLogin \in LoginType
  BY DEF Closed, ConnType, NewSession, SessionType, NoMail, Mailed, NoLogin, LoginType, Counts,
         NoOne

LEMMA Updates ==
  /\ \A k \in ConnType :
       /\ [k EXCEPT !.greeted = TRUE] \in ConnType
       /\ [k EXCEPT !.didAuth = TRUE] \in ConnType
       /\ [Closed EXCEPT !.link = "open"] \in ConnType
       /\ [Closed EXCEPT !.link = "open", !.tls = TRUE] \in ConnType
  /\ \A s \in SessionType :
       /\ \A a \in Addresses : /\ [s EXCEPT !.from = a] \in SessionType
                               /\ [s EXCEPT !.recipients[a] = @ + 1] \in SessionType
       /\ \A u \in Users :
            [s EXCEPT !.provider = u, !.isAuthenticated = TRUE] \in SessionType
  /\ \A l \in LoginType : /\ l.mails \in Nat
                          /\ [l EXCEPT !.mails = @ + 1] \in LoginType
                          /\ [l EXCEPT !.mails = @] \in LoginType
  /\ \A u \in Users : [user |-> u, mails |-> 0] \in LoginType
  <1>1. \A k \in ConnType : /\ [k EXCEPT !.greeted = TRUE] \in ConnType
                            /\ [k EXCEPT !.didAuth = TRUE] \in ConnType
    BY DEF ConnType
  <1>2. /\ [Closed EXCEPT !.link = "open"] \in ConnType
        /\ [Closed EXCEPT !.link = "open", !.tls = TRUE] \in ConnType
    BY DEF ConnType, Closed
  <1>3. ASSUME NEW s \in SessionType, NEW a \in Addresses
        PROVE  /\ [s EXCEPT !.from = a] \in SessionType
               /\ [s EXCEPT !.recipients[a] = @ + 1] \in SessionType
    <2>1. [s EXCEPT !.from = a] \in SessionType
      BY DEF SessionType
    <2>2. [s.recipients EXCEPT ![a] = @ + 1] \in Counts
      BY DEF SessionType, Counts
    <2>3. [s EXCEPT !.recipients[a] = @ + 1] \in SessionType
      BY <2>2 DEF SessionType
    <2> QED
      BY <2>1, <2>3
  <1>4. ASSUME NEW s \in SessionType, NEW u \in Users
        PROVE  [s EXCEPT !.provider = u, !.isAuthenticated = TRUE] \in SessionType
    BY DEF SessionType
  <1>5. \A l \in LoginType : /\ l.mails \in Nat
                             /\ [l EXCEPT !.mails = @ + 1] \in LoginType
                             /\ [l EXCEPT !.mails = @] \in LoginType
    BY DEF LoginType
  <1>6. \A u \in Users : [user |-> u, mails |-> 0] \in LoginType
    BY DEF LoginType
  <1> QED
    BY <1>1, <1>2, <1>3, <1>4, <1>5, <1>6

LEMMA TypeInit == Init => TypeOK
  <1> SUFFICES ASSUME Init PROVE TypeOK
    OBVIOUS
  <1>1. ProcessTypeOK
    BY DEF Init, ProcessInit, ProcessTypeOK, Main, Server
  <1>2. /\ conn \in [Conns -> ConnType] /\ session \in [Conns -> SessionType]
        /\ mail \in [Conns -> Mailed] /\ login \in [Conns -> LoginType]
    BY Fresh DEF Init, SessionInit
  <1>3. /\ pc \in [Conns -> {"ready", "auth", "token", "submit", "answer"}]
        /\ reply \in [Conns -> {"none", "ok", "error"}]
    BY DEF Init, SessionInit
  <1>4. /\ token \in [Conns -> Users \cup {NoUser, ProxyUser}]
        /\ accepted \in [Conns -> Nat] /\ result \in [Conns -> {"none", "ok", "error"}]
    BY DEF Init
  <1> QED
    BY <1>1, <1>2, <1>3, <1>4 DEF TypeOK

LEMMA ParsedType ==
  ASSUME NEW m \in Messages, NEW s \in SessionType
  PROVE  ParsedMail(m, s) \in Mailed
  <1>1. m.to.addrs \subseteq Addresses /\ m.cc.addrs \subseteq Addresses
    <2>1. \A l \in HeaderLists : l.addrs \subseteq Addresses
      BY DEF HeaderLists
    <2>2. m.to \in HeaderLists /\ m.cc \in HeaderLists
      BY SessionAssumption DEF MessageFields
    <2> QED
      BY <2>1, <2>2
  <1>2. s.from \in Addresses \cup {NoAddress} /\ s.recipients \in Counts
    BY DEF SessionType
  <1>3. Blind(m, s) \in Counts
    BY <1>2 DEF Blind, Counts
  <1> QED
    BY <1>1, <1>2, <1>3 DEF ParsedMail, Mailed

-----------------------------------------------------------------------------
(* A step of a connection keeps the shapes, leaves the process as it is    *)
(* and touches no other connection.                                        *)
Local(c) == TypeOK' /\ UNCHANGED processVars /\ \A d \in Conns \ {c} : Same(d)

LEMMA ConnLocal ==
  ASSUME TypeOK, NEW c \in Conns, ConnStep(c)
  PROVE  Local(c)
  <1> USE Fresh, Updates DEF Local, TypeOK, ProcessTypeOK, processVars, handlerVars, Same
  <1>0. UNCHANGED handlerVars
    BY DEF ConnStep
  <1>1. CASE Connect(c)
    BY <1>0, <1>1 DEF Connect
  <1>2. CASE Logout(c)
    BY <1>0, <1>2 DEF Logout, Drop
  <1>3. CASE Greet(c)
    BY <1>0, <1>3 DEF Greet, Reset
  <1>4. CASE Rset(c)
    BY <1>0, <1>4 DEF Rset, Reset
  <1>5. CASE StartTls(c)
    BY <1>0, <1>5 DEF StartTls, Reset
  <1>6. CASE Auth(c)
    BY <1>0, <1>6 DEF Auth
  <1>7. CASE AuthPanics(c)
    BY <1>0, <1>7 DEF AuthPanics, Drop
  <1>8. CASE Mail(c)
    <2>1. PICK a \in Addresses : session' = [session EXCEPT ![c] = [session[c] EXCEPT !.from = a]]
      BY <1>8 DEF Mail
    <2>2. [session[c] EXCEPT !.from = a] \in SessionType
      OBVIOUS
    <2> QED
      BY <1>0, <1>8, <2>1, <2>2 DEF Mail
  <1>9. CASE Rcpt(c)
    <2>1. PICK a \in Addresses :
            session' = [session EXCEPT ![c] = [session[c] EXCEPT !.recipients[a] = @ + 1]]
      BY <1>9 DEF Rcpt
    <2>2. [session[c] EXCEPT !.recipients[a] = @ + 1] \in SessionType
      OBVIOUS
    <2> QED
      BY <1>0, <1>9, <2>1, <2>2 DEF Rcpt
  <1>10. CASE AuthSucceeds(c)
    <2>1. PICK u \in Users :
            /\ session' = [session EXCEPT
                 ![c] = [session[c] EXCEPT !.provider = u, !.isAuthenticated = TRUE]]
            /\ login' = [login EXCEPT ![c] = [user |-> u, mails |-> 0]]
      BY <1>10 DEF AuthSucceeds
    <2>2. /\ [session[c] EXCEPT !.provider = u, !.isAuthenticated = TRUE] \in SessionType
          /\ [user |-> u, mails |-> 0] \in LoginType
      OBVIOUS
    <2> QED
      BY <1>0, <1>10, <2>1, <2>2 DEF AuthSucceeds
  <1>11. CASE AuthFails(c)
    BY <1>0, <1>11 DEF AuthFails
  <1>12. ASSUME NEW m \in Messages, Handle(c, m) \/ RefuseMail(c, m) \/ DataPanics(c, m)
         PROVE  Local(c)
    <2>1. ParsedMail(m, session[c]) \in Mailed
      BY ParsedType
    <2>2. CASE Handle(c, m)
      BY <1>0, <2>1, <2>2 DEF Handle
    <2>3. CASE RefuseMail(c, m)
      BY <1>0, <2>3 DEF RefuseMail, Reset
    <2>4. CASE DataPanics(c, m)
      BY <1>0, <2>4 DEF DataPanics, Drop
    <2> QED
      BY <1>12, <2>2, <2>3, <2>4
  <1>13. CASE Data(c)
    BY <1>12, <1>13 DEF Data
  <1>14. Command(c) \/ AuthReply(c)
    BY DEF ConnStep
  <1> HIDE DEF Local
  <1> QED
    BY <1>1, <1>2, <1>3, <1>4, <1>5, <1>6, <1>7, <1>8, <1>9, <1>10, <1>11, <1>13, <1>14
    DEF Command, AuthReply

LEMMA HandlerLocal ==
  ASSUME TypeOK, NEW c \in Conns, Handler(c)
  PROVE  Local(c)
  <1> USE Fresh DEF Local, TypeOK, ProcessTypeOK, processVars, Same
  <1>1. CASE GetToken(c)
    <2>1. Principal(c) \in Users \cup {NoUser, ProxyUser}
      BY ConfigAssumption DEF Principal, ConfigFields, SessionType
    <2>2. token' = [token EXCEPT ![c] = Principal(c)] /\ UNCHANGED accepted
      BY <1>1 DEF GetToken
    <2>3. /\ UNCHANGED <<processVars, conn, session, mail, reply, login>>
          /\ \/ UNCHANGED result /\ pc' = [pc EXCEPT ![c] = "submit"]
             \/ /\ \E r \in {"ok", "error"} : result' = [result EXCEPT ![c] = r]
                /\ pc' = [pc EXCEPT ![c] = "answer"]
      BY <1>1 DEF GetToken, Return
    <2> QED
      BY <2>1, <2>2, <2>3
  <1>2. CASE TokenError(c)
    BY <1>2 DEF TokenError, Return
  <1>3. CASE Submit(c)
    BY <1>3 DEF Submit, Return
  <1>4. CASE SubmitError(c)
    <2>1. accepted' = accepted \/ accepted' = [accepted EXCEPT ![c] = @ + 1]
      BY <1>4 DEF SubmitError
    <2>2. accepted' \in [Conns -> Nat] /\ \A d \in Conns \ {c} : accepted'[d] = accepted[d]
      BY <2>1
    <2> QED
      BY <1>4, <2>2 DEF SubmitError, Return
  <1>5. CASE Reply(c)
    <2>1. result[c] \in {"none", "ok", "error"}
      OBVIOUS
    <2> QED
      BY <1>5, <2>1 DEF Reply, Answer, Reset
  <1>6. CASE ReplyLost(c)
    BY <1>6 DEF ReplyLost, Drop
  <1> HIDE DEF Local
  <1> QED
    BY <1>1, <1>2, <1>3, <1>4, <1>5, <1>6 DEF Handler

LEMMA TypeNext == TypeOK /\ [Next]_vars => TypeOK'
  <1> SUFFICES ASSUME TypeOK, [Next]_vars PROVE TypeOK'
    OBVIOUS
  <1>1. CASE \E c \in Conns : ConnStep(c) \/ Handler(c)
    BY <1>1, ConnLocal, HandlerLocal DEF Local
  <1>2. CASE ProcessMove
    BY <1>2 DEF ProcessMove, ProcessStep, Member, Refuse, StartPanics, Serve, HttpListen,
                HttpClose, SmtpListen, SmtpClose, HttpFails, SmtpFails, TypeOK, ProcessTypeOK, Main,
                Server, sessionVars, handlerVars
  <1>3. CASE Stop
    BY <1>3, Fresh DEF Stop, End, TypeOK, ProcessTypeOK, Main
  <1>4. CASE UNCHANGED vars
    BY <1>4 DEF vars, processVars, sessionVars, handlerVars, TypeOK, ProcessTypeOK
  <1> QED
    BY <1>1, <1>2, <1>3, <1>4 DEF Next, Over

(* Every variable keeps its shape, in the process, its connections and its *)
(* handlers (actions/smtp-proxy.go, server.go and smtp-proxy.go).          *)
THEOREM TypeCorrect == Spec => []TypeOK
  BY TypeInit, TypeNext, PTL DEF Spec

-----------------------------------------------------------------------------
LEMMA OtherKeeps ==
  ASSUME NEW d \in Conns, Same(d), UNCHANGED processVars, ConnOK(d)
  PROVE  ConnOK(d)'
  <1> USE DEF Same, processVars
  <1>1. Alive(d)'
    BY DEF ConnOK, Alive
  <1>2. LoggedIn(d)'
    BY DEF ConnOK, LoggedIn, InData, Authorized, RequireAuth
  <1>3. Handled(d)'
    BY DEF ConnOK, Handled, Submitting, Principal
  <1>4. Parsed(d)'
    BY DEF ConnOK, Parsed
  <1> QED
    BY <1>1, <1>2, <1>3, <1>4 DEF ConnOK

(* While the client speaks the handler has nothing to remember.            *)
LEMMA Idle ==
  ASSUME TypeOK, NEW c \in Conns, ConnOK(c), pc[c] \in {"ready", "auth"},
         accepted'[c] = accepted[c], pc'[c] \in {"ready", "auth", "token"}
  PROVE  Handled(c)'
  BY DEF ConnOK, Handled, Submitting

LEMMA ConnKeeps ==
  ASSUME TypeOK, NEW c \in Conns, ConnOK(c), ConnStep(c)
  PROVE  ConnOK(c)'
  <1> USE DEF Alive, LoggedIn, Parsed, InData, Authorized, RequireAuth, processVars
  <1> DEFINE Keeps == Alive(c)' /\ LoggedIn(c)' /\ Parsed(c)'
  <1>0. /\ TypeOK' /\ UNCHANGED processVars /\ UNCHANGED handlerVars
        /\ Alive(c) /\ LoggedIn(c) /\ login[c].mails \in Nat
        /\ conn \in [Conns -> ConnType] /\ session \in [Conns -> SessionType]
        /\ login \in [Conns -> LoginType] /\ reply \in [Conns -> {"none", "ok", "error"}]
        /\ pc \in [Conns -> {"ready", "auth", "token", "submit", "answer"}]
        /\ mail \in [Conns -> Mailed]
    BY ConnLocal, Updates DEF Local, ConnStep, ConnOK, TypeOK
  <1> HIDE DEF Keeps
  <1>1. ASSUME Connect(c)
        PROVE  Keeps
    <2>1. session'[c] = NewSession /\ pc'[c] = pc[c] /\ pc[c] = "ready" /\ login'[c] = NoLogin
      BY <1>0, <1>1 DEF Connect
    <2>2. main = "serving"
      BY <1>1 DEF Connect
    <2> QED
      BY <2>1, <2>2, <1>0 DEF Keeps, NewSession, NoLogin
  <1>2. ASSUME pc[c] \in {"ready", "auth"}, Drop(c)
        PROVE  Keeps
    <2>1. session'[c] = NewSession /\ pc'[c] = "ready" /\ login'[c] = NoLogin
      BY <1>0, <1>2 DEF Drop
    <2> QED
      BY <2>1, <1>0 DEF Keeps, NewSession, NoLogin
  <1>3. ASSUME pc'[c] = "ready", pc[c] = "ready", login' = login, main = "serving", Reset(c)
        PROVE  Keeps
    <2>1. session'[c] = NewSession
      BY <1>0, <1>3 DEF Reset
    <2> QED
      BY <2>1, <1>0, <1>3 DEF Keeps, NewSession
  <1>4. ASSUME session'[c].isAuthenticated = session[c].isAuthenticated,
               session'[c].provider = session[c].provider,
               UNCHANGED <<conn, pc, login>>, pc[c] = "ready", main = "serving"
        PROVE  Keeps
    BY <1>0, <1>4 DEF Keeps
  <1>5. ASSUME Auth(c)
        PROVE  Keeps
    <2>1. UNCHANGED <<conn, session, login>> /\ pc'[c] = "auth" /\ pc[c] = "ready"
      BY <1>0, <1>5 DEF Auth, MayAuth, Ready
    <2>2. main = "serving" /\ conn[c].link = "open"
      BY <1>5 DEF Auth, MayAuth, Ready
    <2> QED
      BY <2>1, <2>2, <1>0 DEF Keeps
  <1>6. ASSUME AuthSucceeds(c)
        PROVE  Keeps
    <2>1. PICK u \in Users :
            /\ session'[c] = [session[c] EXCEPT !.provider = u, !.isAuthenticated = TRUE]
            /\ login'[c] = [user |-> u, mails |-> 0]
      BY <1>0, <1>6 DEF AuthSucceeds
    <2>2. /\ session'[c].provider = u /\ session'[c].isAuthenticated
          /\ login'[c].user = u /\ login'[c].mails = 0
      BY <2>1, <1>0 DEF SessionType
    <2>3. pc'[c] = "ready" /\ main = "serving"
      BY <1>0, <1>6 DEF AuthSucceeds
    <2> QED
      BY <2>2, <2>3, <1>0 DEF Keeps
  <1>7. ASSUME AuthFails(c)
        PROVE  Keeps
    <2>1. /\ UNCHANGED <<conn, session, login>>
          /\ pc'[c] = "ready" /\ pc[c] = "auth" /\ main = "serving"
      BY <1>0, <1>7 DEF AuthFails
    <2> QED
      BY <2>1, <1>0 DEF Keeps
  <1>8. ASSUME NEW m \in Messages, Handle(c, m), Ready(c), Authorized(c)
        PROVE  Keeps
    <2>1. UNCHANGED <<conn, session>> /\ pc'[c] = "token" /\ mail'[c] = ParsedMail(m, session[c])
      BY <1>0, <1>8 DEF Handle
    <2>2. pc[c] = "ready" /\ conn[c].link = "open" /\ main = "serving"
      BY <1>8 DEF Ready
    <2>3. /\ login'[c].user = login[c].user
          /\ login'[c].mails = IF RequireAuth THEN login[c].mails + 1 ELSE login[c].mails
      BY <1>0, <1>8 DEF Handle, LoginType
    <2>4. Alive(c)' /\ Parsed(c)'
      BY <2>1, <2>2, <1>0
    <2>5. LoggedIn(c)'
      BY <2>1, <2>2, <2>3, <1>0, <1>8
    <2> QED
      BY <2>4, <2>5 DEF Keeps
  <1>9. Keeps /\ pc[c] \in {"ready", "auth"} /\ pc'[c] \in {"ready", "auth", "token"}
    <2>1. CASE Connect(c)
      BY <1>0, <1>1, <2>1 DEF Connect
    <2>2. CASE Logout(c) \/ AuthPanics(c) \/ \E m \in Messages : Ready(c) /\ DataPanics(c, m)
      BY <1>0, <1>2, <2>2 DEF Logout, AuthPanics, MayAuth, DataPanics, Drop, Ready
    <2>3. CASE Greet(c) \/ Rset(c) \/ StartTls(c)
      BY <1>0, <1>3, <2>3 DEF Greet, Rset, StartTls, Ready
    <2>4. CASE \E m \in Messages : Ready(c) /\ RefuseMail(c, m)
      BY <1>0, <1>3, <2>4 DEF RefuseMail, Ready
    <2>5. CASE Auth(c)
      BY <1>0, <1>5, <2>5 DEF Auth, MayAuth, Ready
    <2>6. CASE AuthSucceeds(c)
      BY <1>0, <1>6, <2>6 DEF AuthSucceeds
    <2>7. CASE AuthFails(c)
      BY <1>0, <1>7, <2>7 DEF AuthFails
    <2>8. CASE Mail(c)
      <3>1. PICK a \in Addresses : session'[c] = [session[c] EXCEPT !.from = a]
        BY <1>0, <2>8 DEF Mail
      <3>2. /\ session'[c].isAuthenticated = session[c].isAuthenticated
            /\ session'[c].provider = session[c].provider
        BY <1>0, <3>1 DEF SessionType
      <3> QED
        BY <1>0, <1>4, <2>8, <3>2 DEF Mail, Ready
    <2>9. CASE Rcpt(c)
      <3>1. PICK a \in Addresses : session'[c] = [session[c] EXCEPT !.recipients[a] = @ + 1]
        BY <1>0, <2>9 DEF Rcpt
      <3>2. /\ session'[c].isAuthenticated = session[c].isAuthenticated
            /\ session'[c].provider = session[c].provider
        BY <1>0, <3>1 DEF SessionType
      <3> QED
        BY <1>0, <1>4, <2>9, <3>2 DEF Rcpt, Ready
    <2>10. CASE \E m \in Messages : Ready(c) /\ Authorized(c) /\ Handle(c, m)
      BY <1>0, <1>8, <2>10 DEF Handle, Ready
    <2> QED
      BY <2>1, <2>2, <2>3, <2>4, <2>5, <2>6, <2>7, <2>8, <2>9, <2>10
      DEF ConnStep, Command, AuthReply, Data
  <1>10. Handled(c)'
    BY <1>0, <1>9, Idle DEF handlerVars
  <1> QED
    BY <1>9, <1>10 DEF ConnOK, Keeps

LEMMA HandlerKeeps ==
  ASSUME TypeOK, NEW c \in Conns, ConnOK(c), Handler(c)
  PROVE  ConnOK(c)'
  <1> DEFINE Facts == Alive(c)' /\ LoggedIn(c)' /\ Parsed(c)'
  <1>0. /\ TypeOK' /\ UNCHANGED processVars
        /\ Alive(c) /\ LoggedIn(c) /\ Parsed(c) /\ Handled(c)
        /\ accepted \in [Conns -> Nat] /\ token \in [Conns -> Users \cup {NoUser, ProxyUser}]
        /\ conn \in [Conns -> ConnType] /\ session \in [Conns -> SessionType]
        /\ login \in [Conns -> LoginType] /\ result \in [Conns -> {"none", "ok", "error"}]
        /\ pc \in [Conns -> {"ready", "auth", "token", "submit", "answer"}]
    BY HandlerLocal DEF Local, ConnOK, TypeOK
  <1>1. ASSUME pc[c] \in {"token", "submit"}, pc'[c] \in {"submit", "answer"},
               conn' = conn, session' = session, mail' = mail, login' = login,
               conn[c].link # "closed", main = "serving"
        PROVE  Facts
    <2>1. Alive(c)'
      BY <1>0, <1>1 DEF Alive, processVars
    <2>2. LoggedIn(c)'
      <3>1. InData(c) /\ InData(c)' /\ config' = config
        BY <1>0, <1>1 DEF InData, processVars
      <3>2. RequireAuth' = RequireAuth /\ Authorized(c)' = Authorized(c)
        BY <1>1, <3>1 DEF RequireAuth, Authorized
      <3> QED
        BY <1>0, <1>1, <3>1, <3>2 DEF LoggedIn
    <2>3. Parsed(c)'
      BY <1>0, <1>1 DEF Parsed
    <2> QED
      BY <2>1, <2>2, <2>3
  <1>2. ASSUME InData(c), session'[c] = NewSession, pc'[c] = "ready",
               login'[c] = login[c] \/ login'[c] = NoLogin
        PROVE  Facts
    <2>1. Alive(c)'
      BY <1>2 DEF Alive
    <2>2. ~session'[c].isAuthenticated /\ ~InData(c)'
      BY <1>2 DEF NewSession, InData
    <2>3. RequireAuth' => login'[c].mails <= 1
      BY <1>0, <1>2 DEF LoggedIn, RequireAuth, processVars, NoLogin
    <2>4. LoggedIn(c)'
      BY <2>2, <2>3 DEF LoggedIn
    <2>5. Parsed(c)'
      BY <1>2 DEF Parsed
    <2> QED
      BY <2>1, <2>4, <2>5
  <1> HIDE DEF Facts
  <1>3. CASE GetToken(c)
    <2>1. /\ pc[c] = "token" /\ main = "serving" /\ UNCHANGED <<conn, session, mail, login>>
          /\ \/ config.loggingOnly /\ pc'[c] = "answer" /\ result'[c] \in {"ok", "error"}
             \/ ~config.loggingOnly /\ pc'[c] = "submit"
      BY <1>0, <1>3 DEF GetToken, At, Return
    <2>2. token'[c] = Principal(c) /\ ~(accepted'[c] > 0)
      BY <1>0, <1>3, <2>1 DEF GetToken, Handled
    <2>3. Facts
      BY <1>0, <1>1, <2>1 DEF InData, Alive
    <2>4. Handled(c)'
      BY <1>0, <2>1, <2>2 DEF Handled, Submitting, Principal, processVars
    <2> QED
      BY <2>3, <2>4 DEF Facts, ConnOK
  <1>4. CASE TokenError(c)
    <2>1. /\ pc[c] = "token" /\ main = "serving" /\ UNCHANGED <<conn, session, mail, login>>
          /\ pc'[c] = "answer" /\ result'[c] = "error" /\ ~(accepted'[c] > 0)
      BY <1>0, <1>4 DEF TokenError, At, Return, Handled
    <2>2. Facts
      BY <1>0, <1>1, <2>1 DEF InData, Alive
    <2>3. Handled(c)'
      BY <1>0, <2>1 DEF Handled, Submitting, processVars
    <2> QED
      BY <2>2, <2>3 DEF Facts, ConnOK
  <1>5. CASE Submit(c) \/ SubmitError(c)
    <2>1. /\ pc[c] = "submit" /\ main = "serving"
          /\ UNCHANGED <<conn, session, mail, login, token>> /\ pc'[c] = "answer"
          /\ \/ result'[c] = "ok" /\ accepted'[c] = accepted[c] + 1
             \/ result'[c] = "error"
      BY <1>0, <1>5 DEF Submit, SubmitError, At, Return
    <2>2. Facts
      BY <1>0, <1>1, <2>1 DEF InData, Alive
    <2>3. token'[c] = Principal(c)'
      BY <1>0, <2>1 DEF Handled, Submitting, Principal, processVars
    <2>4. result'[c] = "ok" => accepted'[c] > 0 /\ ~config'.loggingOnly
      BY <1>0, <2>1 DEF Handled, processVars
    <2>5. result'[c] \in {"ok", "error"}
      BY <2>1
    <2>6. Handled(c)'
      BY <2>1, <2>3, <2>4, <2>5 DEF Handled
    <2> QED
      BY <2>2, <2>6 DEF Facts, ConnOK
  <1>6. CASE Reply(c) \/ ReplyLost(c)
    <2>1. /\ pc[c] = "answer" /\ pc'[c] = "ready" /\ session'[c] = NewSession
          /\ accepted'[c] = 0
          /\ (login'[c] = login[c] \/ login'[c] = NoLogin)
      BY <1>0, <1>6 DEF Reply, ReplyLost, Answer, Reset, Drop, At
    <2>2. Facts
      BY <1>2, <2>1 DEF InData
    <2>3. Handled(c)'
      BY <2>1 DEF Handled, Submitting
    <2> QED
      BY <2>2, <2>3 DEF Facts, ConnOK
  <1> QED
    BY <1>3, <1>4, <1>5, <1>6 DEF Handler

LEMMA Invariance == Spec => []IInv
  <1>1. Init => IInv
    <2> SUFFICES ASSUME Init PROVE IInv
      OBVIOUS
    <2>1. ASSUME NEW c \in Conns PROVE ConnOK(c)
      BY DEF Init, ProcessInit, SessionInit, ConnOK, Alive, LoggedIn, Handled, Parsed, InData,
             Submitting, NewSession, NoLogin
    <2> QED
      BY <2>1, TypeInit DEF IInv, Init, ProcessInit, Tells
  <1>2. IInv /\ [Next]_vars => IInv'
    <2> SUFFICES ASSUME IInv, [Next]_vars PROVE IInv'
      OBVIOUS
    <2>1. TypeOK'
      BY TypeNext DEF IInv
    <2>2. ASSUME NEW c \in Conns, ConnStep(c) \/ Handler(c)
          PROVE  IInv'
      <3>1. Local(c)
        BY <2>2, ConnLocal, HandlerLocal DEF IInv
      <3>2. ASSUME NEW d \in Conns PROVE ConnOK(d)'
        <4>1. CASE d = c
          BY <2>2, <4>1, ConnKeeps, HandlerKeeps DEF IInv
        <4>2. CASE d # c
          BY <3>1, <4>2, OtherKeeps DEF IInv, Local
        <4> QED
          BY <4>1, <4>2
      <3>3. (main = "serving" => Valid)' /\ Tells'
        BY <3>1 DEF IInv, Local, processVars, Valid, Tells
      <3> QED
        BY <2>1, <3>2, <3>3 DEF IInv
    <2>3. CASE ProcessMove
      <3>1. UNCHANGED <<conn, session, pc, mail, reply, login, token, accepted, result, config>>
        BY <2>3 DEF ProcessMove, sessionVars, handlerVars, ProcessStep, Member, Refuse,
                    StartPanics, Serve, HttpListen, HttpClose, SmtpListen, SmtpClose, HttpFails, SmtpFails
      <3>2. main = "serving" => main' = "serving"
        BY <2>3 DEF ProcessMove, ProcessStep, Member, Refuse, StartPanics, Serve, HttpListen,
                    HttpClose, SmtpListen, SmtpClose, HttpFails, SmtpFails
      <3>3. (main = "serving" => Valid)'
        <4>1. main' = "serving" => Valid
          BY <2>3 DEF IInv, ProcessMove, ProcessStep, Member, Refuse, StartPanics, Serve,
                      HttpListen, HttpClose, SmtpListen, SmtpClose, HttpFails, SmtpFails
        <4> QED
          BY <3>1, <4>1 DEF Valid
      <3>4. ASSUME NEW c \in Conns PROVE ConnOK(c)'
        <4>1. ConnOK(c)
          BY DEF IInv
        <4>2. Alive(c)'
          BY <3>1, <3>2, <4>1 DEF ConnOK, Alive
        <4>3. LoggedIn(c)' /\ Parsed(c)'
          BY <3>1, <4>1 DEF ConnOK, LoggedIn, InData, Authorized, RequireAuth, Parsed
        <4>4. Handled(c)'
          BY <3>1, <4>1 DEF ConnOK, Handled, Submitting, Principal
        <4> QED
          BY <4>2, <4>3, <4>4 DEF ConnOK
      <3>5. Tells'
        BY <2>3 DEF IInv, Tells, ProcessMove, ProcessStep, Member, Refuse, StartPanics, Serve,
                    HttpListen, HttpClose, SmtpListen, SmtpClose, HttpFails, SmtpFails
      <3> QED
        BY <2>1, <3>3, <3>4, <3>5 DEF IInv
    <2>4. CASE Stop
      <3>1. main' = "ended"
        BY <2>4 DEF Stop, End
      <3>2. ASSUME NEW c \in Conns PROVE ConnOK(c)'
        BY <2>4 DEF Stop, ConnOK, Alive, LoggedIn, Handled, Parsed, InData, Submitting,
                    NewSession, NoLogin
      <3> QED
        BY <2>1, <3>1, <3>2 DEF IInv, Tells
    <2>5. CASE UNCHANGED vars
      <3>1. UNCHANGED <<processVars, conn, session, pc, mail, reply, login, token, accepted, result>>
        BY <2>5 DEF vars, sessionVars, handlerVars
      <3>2. ASSUME NEW c \in Conns PROVE ConnOK(c)'
        BY <3>1, OtherKeeps DEF IInv, Same
      <3>3. (main = "serving" => Valid)' /\ Tells'
        BY <3>1 DEF IInv, processVars, Valid, Tells
      <3> QED
        BY <2>1, <3>2, <3>3 DEF IInv
    <2> QED
      BY <2>2, <2>3, <2>4, <2>5 DEF Next, Over
  <1> QED
    BY <1>1, <1>2, PTL DEF Spec

-----------------------------------------------------------------------------
LEMMA Passthrough ==
  ASSUME IInv, NEW c \in Conns, InData(c), config.grpcAuth = "passthrough"
  PROVE  session[c].provider \in Users /\ session[c].provider = login[c].user
  <1>1. Valid /\ config \in ConfigFields
    BY ConfigAssumption DEF IInv, ConnOK, Alive, InData, TypeOK, ProcessTypeOK
  <1>2. RequireAuth
    BY <1>1 DEF Valid, ConfigFields, RequireAuth
  <1> QED
    BY <1>2 DEF IInv, ConnOK, LoggedIn, Authorized

(* smtp-proxy.go:92: a mail goes to the API under the name that its        *)
(* connection logged in with, whatever happens on the others.              *)
THEOREM SubmitsAsItsUserHolds == Spec => []SubmitsAsItsUser
  <1>1. IInv => SubmitsAsItsUser
    <2> SUFFICES ASSUME IInv, NEW c \in Conns, Submitting(c)
                 PROVE  token[c] = CASE config.grpcAuth = "passthrough" -> login[c].user
                                     [] config.grpcAuth = "oidc-inject" -> ProxyUser
                                     [] config.grpcAuth = "none"        -> NoUser
      BY DEF SubmitsAsItsUser
    <2>1. token[c] = Principal(c) /\ InData(c)
      BY DEF IInv, ConnOK, Handled, Submitting, InData
    <2>2. config.grpcAuth \in {"none", "passthrough", "oidc-inject"}
      BY ConfigAssumption DEF IInv, TypeOK, ProcessTypeOK, ConfigFields
    <2>3. config.grpcAuth = "passthrough" => session[c].provider = login[c].user
      BY <2>1, Passthrough
    <2> QED
      BY <2>1, <2>2, <2>3 DEF Principal
  <1> QED
    BY <1>1, Invariance, PTL

(* smtp-proxy.go:94: the handler that passes credentials on finds some.    *)
THEOREM PassthroughHasUserHolds == Spec => []PassthroughHasUser
  <1>1. IInv => PassthroughHasUser
    BY Passthrough DEF PassthroughHasUser, InData
  <1> QED
    BY <1>1, Invariance, PTL

(* server.go:169: a login is good for one mail.                            *)
THEOREM OneMailPerLoginHolds == Spec => []OneMailPerLogin
  <1>1. IInv => OneMailPerLogin
    BY DEF IInv, ConnOK, LoggedIn, OneMailPerLogin
  <1> QED
    BY <1>1, Invariance, PTL

(* server.go:229-333: a mail is addressed as its envelope: to every        *)
(* recipient by a header or blind, and blind to nobody else.               *)
THEOREM AddressedAsEnvelopeHolds == Spec => []AddressedAsEnvelope
  <1>1. IInv => AddressedAsEnvelope
    <2> SUFFICES ASSUME IInv, NEW c \in Conns, pc[c] \in {"token", "submit"}
                 PROVE  LET m == mail[c]
                            named == Folded(m.to \cup m.cc)
                        IN  /\ m.from = session[c].from
                            /\ \A r \in Addresses :
                                 IF Fold[r] \in named THEN m.bcc[r] = 0
                                                      ELSE m.bcc[r] = session[c].recipients[r]
      BY DEF AddressedAsEnvelope
    <2>1. PICK m \in Messages : mail[c] = ParsedMail(m, session[c])
      BY DEF IInv, ConnOK, Parsed
    <2>2. /\ mail[c].from = session[c].from /\ mail[c].bcc = Blind(m, session[c])
          /\ mail[c].to = m.to.addrs /\ mail[c].cc = m.cc.addrs
      BY <2>1 DEF ParsedMail
    <2> QED
      BY <2>2 DEF Blind
  <1> QED
    BY <1>1, Invariance, PTL

-----------------------------------------------------------------------------
(* A step of the proxy is a step of Relay, or a stutter.                   *)
RelayStep == [Promise!Next]_(Promise!vars)

LEMMA Stutters ==
  ASSUME NEW c \in Conns, TypeOK, Local(c), Transfer(c)' = Transfer(c), accepted'[c] = accepted[c]
  PROVE  RelayStep
  <1>1. ASSUME NEW d \in Conns PROVE Transfer(d)' = Transfer(d) /\ accepted'[d] = accepted[d]
    BY <1>1 DEF Local, Same, Transfer, InData
  <1>2. UNCHANGED [d \in Conns |-> Transfer(d)]
    BY <1>1
  <1>3. UNCHANGED accepted
    BY <1>1 DEF Local, TypeOK
  <1>4. UNCHANGED <<Life, config.loggingOnly>>
    BY DEF Local, processVars, Life
  <1> QED
    BY <1>2, <1>3, <1>4 DEF RelayStep, Promise!vars

LEMMA Moves ==
  ASSUME NEW c \in Conns, TypeOK, Local(c), main = "serving", NEW from, Transfer(c) \in from
  PROVE  Promise!Move(c, from, Transfer(c)', accepted'[c])
  <1>1. ASSUME NEW d \in Conns, d # c PROVE Transfer(d)' = Transfer(d) /\ accepted'[d] = accepted[d]
    BY <1>1 DEF Local, Same, Transfer, InData
  <1>2. [d \in Conns |-> Transfer(d)]'
          = [[d \in Conns |-> Transfer(d)] EXCEPT ![c] = Transfer(c)']
    BY <1>1
  <1>3. accepted' = [accepted EXCEPT ![c] = accepted'[c]]
    BY <1>1 DEF Local, TypeOK
  <1>4. Life \in {"up", "failing"} /\ UNCHANGED <<Life, config.loggingOnly>>
    BY DEF Local, processVars, Life
  <1> QED
    BY <1>2, <1>3, <1>4 DEF Promise!Move

LEMMA ConnRelays ==
  ASSUME IInv, NEW c \in Conns, ConnStep(c)
  PROVE  RelayStep
  <1>0. /\ TypeOK /\ Local(c) /\ Handled(c)
        /\ conn[c].link = "closed" => pc[c] = "ready"
        /\ reply \in [Conns -> {"none", "ok", "error"}]
        /\ pc \in [Conns -> {"ready", "auth", "token", "submit", "answer"}]
    BY ConnLocal DEF IInv, TypeOK, ConnOK, Alive
  <1>1. pc[c] \in {"ready", "auth"} /\ main = "serving"
    BY <1>0 DEF ConnStep, Command, AuthReply, Connect, Logout, Greet, Rset, StartTls, Auth,
                AuthPanics, MayAuth, Mail, Rcpt, Data, Ready, AuthSucceeds, AuthFails
  <1>2. \/ pc'[c] \in {"ready", "auth"} /\ reply'[c] \in {reply[c], "none", "error"}
        \/ pc'[c] = "token"
    <2>1. CASE Connect(c) \/ Greet(c) \/ Rset(c) \/ StartTls(c)
      BY <1>0, <1>1, <2>1 DEF Connect, Greet, Rset, StartTls
    <2>2. CASE Logout(c) \/ AuthPanics(c)
      BY <1>0, <2>2 DEF Logout, AuthPanics, Drop
    <2>3. CASE Auth(c) \/ AuthSucceeds(c) \/ AuthFails(c)
      BY <1>0, <2>3 DEF Auth, AuthSucceeds, AuthFails
    <2>4. CASE Mail(c) \/ Rcpt(c)
      BY <1>0, <1>1, <2>4 DEF Mail, Rcpt
    <2>5. CASE Data(c)
      BY <1>0, <1>1, <2>5 DEF Data, Handle, RefuseMail, DataPanics, Drop
    <2> QED
      BY <2>1, <2>2, <2>3, <2>4, <2>5 DEF ConnStep, Command, AuthReply
  <1>3. Transfer(c) \in Promise!Rest
    BY <1>0, <1>1 DEF Transfer, InData, Promise!Rest
  <1>9. accepted[c] = 0 /\ accepted'[c] = 0
    BY <1>0, <1>1 DEF Handled, TypeOK, ConnStep, handlerVars
  <1>4. Transfer(c)' \in {Transfer(c), "none", "failed", "open"}
    BY <1>1, <1>2, <1>9 DEF Transfer, InData
  <1>5. CASE Transfer(c)' = Transfer(c)
    BY <1>0, <1>5, <1>9, Stutters
  <1>6. CASE Transfer(c)' = "none"
    <2>1. Promise!Disconnect(c)
      BY <1>0, <1>1, <1>3, <1>6, <1>9, Moves DEF Promise!Disconnect, Promise!Stage
    <2> QED
      BY <2>1 DEF RelayStep, Promise!Next
  <1>7. CASE Transfer(c)' = "failed"
    <2>1. Promise!Refuse(c)
      BY <1>0, <1>1, <1>3, <1>7, <1>9, Moves DEF Promise!Refuse
    <2> QED
      BY <2>1 DEF RelayStep, Promise!Next
  <1>8. CASE Transfer(c)' = "open"
    <2>1. Promise!Begin(c)
      BY <1>0, <1>1, <1>3, <1>8, <1>9, Moves DEF Promise!Begin
    <2> QED
      BY <2>1 DEF RelayStep, Promise!Next
  <1> QED
    BY <1>4, <1>5, <1>6, <1>7, <1>8

LEMMA HandlerRelays ==
  ASSUME IInv, NEW c \in Conns, Handler(c)
  PROVE  RelayStep
  <1>0. /\ TypeOK /\ Local(c) /\ Handled(c) /\ accepted[c] \in Nat /\ main = "serving"
        /\ reply \in [Conns -> {"none", "ok", "error"}] /\ accepted \in [Conns -> Nat]
        /\ pc \in [Conns -> {"ready", "auth", "token", "submit", "answer"}]
    BY HandlerLocal DEF IInv, TypeOK, ConnOK, Handler, GetToken, TokenError, Submit,
       SubmitError, Reply, ReplyLost, At
  <1>1. CASE GetToken(c) \/ TokenError(c)
    <2>1. pc[c] = "token" /\ pc'[c] \in {"submit", "answer"} /\ UNCHANGED accepted
      BY <1>0, <1>1 DEF GetToken, TokenError, At, Return
    <2>2. Transfer(c)' = Transfer(c)
      BY <2>1 DEF Transfer, InData
    <2> QED
      BY <1>0, <2>1, <2>2, Stutters
  <1>2. CASE Submit(c) \/ SubmitError(c)
    <2>1. pc[c] = "submit" /\ pc'[c] = "answer" /\ accepted[c] = 0 /\ accepted'[c] \in {0, 1}
      BY <1>0, <1>2 DEF Submit, SubmitError, At, Return, Handled
    <2>2. Transfer(c) = "open"
      BY <2>1 DEF Transfer, InData
    <2>3. CASE accepted'[c] = 0
      <3>1. Transfer(c)' = "open"
        BY <2>1, <2>3 DEF Transfer, InData
      <3> QED
        BY <1>0, <2>1, <2>2, <2>3, <3>1, Stutters
    <2>4. CASE accepted'[c] = 1
      <3>1. Transfer(c)' = "accepted"
        BY <2>1, <2>4 DEF Transfer, InData
      <3>2. Promise!Accept(c)
        BY <1>0, <2>1, <2>2, <2>4, <3>1, Moves DEF Promise!Accept
      <3> QED
        BY <3>2 DEF RelayStep, Promise!Next
    <2> QED
      BY <2>1, <2>3, <2>4
  <1>3. CASE Reply(c)
    <2>1. /\ pc[c] = "answer" /\ pc'[c] = "ready" /\ reply'[c] = result[c]
          /\ accepted'[c] = 0
      BY <1>0, <1>3 DEF Reply, Answer, At
    <2>2. result[c] \in {"ok", "error"}
      BY <1>0, <2>1 DEF Handled
    <2>3. Transfer(c) = IF accepted[c] > 0 THEN "accepted" ELSE "open"
      BY <2>1 DEF Transfer, InData
    <2>4. CASE result[c] = "ok"
      <3>1. Transfer(c)' = "ok"
        BY <2>1, <2>4 DEF Transfer, InData
      <3>2. Transfer(c) \in IF config.loggingOnly THEN {"open"} ELSE {"accepted"}
        BY <1>0, <2>1, <2>3, <2>4 DEF Handled
      <3>3. Promise!Confirm(c)
        BY <1>0, <2>1, <3>1, <3>2, Moves DEF Promise!Confirm
      <3> QED
        BY <3>3 DEF RelayStep, Promise!Next
    <2>5. CASE result[c] = "error"
      <3>1. Transfer(c)' = "failed"
        BY <2>1, <2>5 DEF Transfer, InData
      <3>2. Promise!Fail(c)
        BY <1>0, <2>1, <2>3, <3>1, Moves DEF Promise!Fail
      <3> QED
        BY <3>2 DEF RelayStep, Promise!Next
    <2> QED
      BY <2>2, <2>4, <2>5
  <1>4. CASE ReplyLost(c)
    <2>1. /\ pc[c] = "answer" /\ pc'[c] = "ready" /\ reply'[c] = "none"
          /\ accepted'[c] = 0
      BY <1>0, <1>4 DEF ReplyLost, Drop, At
    <2>2. Transfer(c) \in Promise!Stage /\ Transfer(c)' = "none"
      BY <2>1 DEF Transfer, InData, Promise!Stage
    <2>3. Promise!Disconnect(c)
      BY <1>0, <2>1, <2>2, Moves DEF Promise!Disconnect
    <2> QED
      BY <2>3 DEF RelayStep, Promise!Next
  <1> QED
    BY <1>1, <1>2, <1>3, <1>4 DEF Handler

(* A step of the process leaves the transfers as they are.                 *)
LEMMA ProcessRelays ==
  ASSUME IInv, UNCHANGED <<pc, reply, accepted, config>>, ProcessStep \/ UNCHANGED processVars
  PROVE  RelayStep
  <1>1. ASSUME NEW d \in Conns PROVE Transfer(d)' = Transfer(d)
    BY DEF Transfer, InData
  <1>2. UNCHANGED [d \in Conns |-> Transfer(d)]
    BY <1>1
  <1>3. CASE Refuse \/ StartPanics
    <2>1. Life = "new" /\ Life' = "over"
      BY <1>3 DEF Refuse, StartPanics, Life
    <2>2. Promise!GiveUp
      BY <1>2, <2>1 DEF Promise!GiveUp, Promise!Become
    <2> QED
      BY <2>2 DEF RelayStep, Promise!Next
  <1>4. CASE Serve
    <2>1. Life = "new" /\ Life' = "up"
      BY <1>4 DEF Serve, Life, IInv, Tells
    <2>2. Promise!Start
      BY <1>2, <2>1 DEF Promise!Start, Promise!Become
    <2> QED
      BY <2>2 DEF RelayStep, Promise!Next
  <1>5. CASE Life' = Life
    BY <1>2, <1>5 DEF RelayStep, Promise!vars
  <1>6. CASE (HttpFails \/ SmtpFails) /\ Life' # Life
    <2>1. Life = "up" /\ Life' = "failing"
      BY <1>6 DEF HttpFails, SmtpFails, Life
    <2>2. Promise!Break
      BY <1>2, <2>1 DEF Promise!Break, Promise!Become
    <2> QED
      BY <2>2 DEF RelayStep, Promise!Next
  <1>7. CASE Member \/ UNCHANGED processVars
    <2>1. Life' = Life
      BY <1>7 DEF Member, HttpListen, HttpClose, SmtpListen, SmtpClose, processVars, Life
    <2> QED
      BY <2>1, <1>5
  <1> QED
    BY <1>3, <1>4, <1>5, <1>6, <1>7 DEF ProcessStep

(* smtp-proxy.go:152-168: the proxy implements Relay: a client is told of  *)
(* success only for a mail the API accepted, the API is never given a mail *)
(* again that it took, and connections are only lost one by one before a   *)
(* server fails.                                                           *)
THEOREM KeepsPromiseHolds == Spec => KeepsPromise
  <1>1. Init => Promise!Init
    <2> SUFFICES ASSUME Init PROVE Promise!Init
      OBVIOUS
    <2>1. (\A c \in Conns : Transfer(c) = "none") /\ Life = "new"
      BY DEF Init, SessionInit, ProcessInit, Transfer, InData, Life
    <2>2. config.loggingOnly \in BOOLEAN
      BY ConfigAssumption DEF Init, ProcessInit, ConfigFields
    <2>3. accepted = [c \in Conns |-> 0]
      BY DEF Init
    <2> QED
      BY <2>1, <2>2, <2>3 DEF Promise!Init
  <1>2. IInv /\ [Next]_vars => RelayStep
    <2> SUFFICES ASSUME IInv, [Next]_vars PROVE RelayStep
      OBVIOUS
    <2>1. CASE \E c \in Conns : ConnStep(c) \/ Handler(c)
      BY <2>1, ConnRelays, HandlerRelays
    <2>2. CASE ProcessMove
      <3>1. UNCHANGED <<pc, reply, accepted, config>>
        BY <2>2 DEF ProcessMove, sessionVars, handlerVars, ProcessStep, Member, Refuse,
                    StartPanics, Serve, HttpListen, HttpClose, SmtpListen, SmtpClose,
                    HttpFails, SmtpFails
      <3> QED
        BY <2>2, <3>1, ProcessRelays DEF ProcessMove
    <2>3. CASE Stop
      <3>1. \A c \in Conns : Transfer(c)' = "none"
        BY <2>3 DEF Stop, Transfer, InData
      <3>2. UNCHANGED config.loggingOnly /\ Life = "failing" /\ Life' = "over"
        BY <2>3 DEF Stop, End, IInv, Tells, Life
      <3>3. accepted' = [c \in Conns |-> 0]
        BY <2>3 DEF Stop
      <3>4. Promise!End
        BY <3>1, <3>2, <3>3 DEF Promise!End, Promise!Become
      <3> QED
        BY <3>4 DEF RelayStep, Promise!Next
    <2>4. CASE UNCHANGED vars
      BY <2>4, ProcessRelays DEF vars, processVars, sessionVars, handlerVars
    <2> QED
      BY <2>1, <2>2, <2>3, <2>4 DEF Next, Over
  <1> QED
    BY <1>1, <1>2, Invariance, PTL DEF Spec, Promise!Spec, KeepsPromise, RelayStep
-----------------------------------------------------------------------------
(* What a step of the process does once a server is down.                  *)
Down == main = "serving" /\ (http = "down" \/ smtp = "down")

WindsDown ==
  /\ cancelled /\ cancelled'
  /\ \/ UNCHANGED processVars
     \/ MembersLeft' < MembersLeft
     \/ main' = "ended" /\ MembersLeft = 0

(* Connections that are closed stay so without a server to accept them.    *)
StaysClosed(c) ==
  smtp = "down" /\ conn[c].link = "closed" => conn'[c].link = "closed"

LEMMA MembersWindDown ==
  ASSUME IInv, ProcessStep, Down
  PROVE  WindsDown
  <1>1. cancelled /\ http \in Server /\ smtp \in Server /\ main = "serving"
    BY DEF IInv, TypeOK, ProcessTypeOK, Tells, Down
  <1> USE <1>1 DEF Server, ServerLeft, CloserLeft, MembersLeft, WindsDown
  <1>2. CASE HttpListen
    BY <1>2 DEF HttpListen
  <1>3. CASE HttpFails
    BY <1>3 DEF HttpFails
  <1>4. CASE SmtpFails
    BY <1>4 DEF SmtpFails
  <1>5. CASE HttpClose
    BY <1>5 DEF HttpClose
  <1>6. CASE SmtpClose
    BY <1>6 DEF SmtpClose
  <1>7. CASE SmtpListen
    BY <1>7 DEF SmtpListen
  <1> QED
    BY <1>2, <1>3, <1>4, <1>5, <1>6, <1>7
    DEF ProcessStep, Member, Refuse, StartPanics, Serve

LEMMA StepStaysClosed ==
  ASSUME IInv, [Next]_vars, main = "serving", NEW c \in Conns
  PROVE  StaysClosed(c)
  <1> SUFFICES ASSUME smtp = "down", conn[c].link = "closed"
               PROVE  conn'[c].link = "closed"
    BY DEF StaysClosed
  <1>1. conn \in [Conns -> ConnType] /\ pc[c] = "ready" /\ Closed.link = "closed"
    BY DEF IInv, TypeOK, ConnOK, Alive, Closed
  <1>2. ASSUME NEW d \in Conns, d # c, ConnStep(d) \/ Handler(d)
        PROVE  conn'[c] = conn[c]
    BY <1>2, ConnLocal, HandlerLocal DEF IInv, Local, Same
  <1>3. ~Handler(c)
    BY <1>1 DEF Handler, GetToken, TokenError, Submit, SubmitError, Reply, ReplyLost, At
  <1>4. ~ConnStep(c)
    BY <1>1 DEF ConnStep, Command, AuthReply, Connect, Logout, Greet, Rset, StartTls, Auth,
                AuthPanics, MayAuth, Mail, Rcpt, Data, Ready, AuthSucceeds, AuthFails
  <1>5. CASE Stop
    BY <1>1, <1>5 DEF Stop
  <1>6. CASE ProcessMove \/ UNCHANGED vars
    BY <1>6 DEF ProcessMove, sessionVars, vars
  <1> QED
    BY <1>2, <1>3, <1>4, <1>5, <1>6 DEF Next, Over

(* actions/smtp-proxy.go:90-119: once a server is down the group is        *)
(* cancelled, every step of a member leaves less to do, the process ends   *)
(* when nothing is left, and no connection opens when SMTP is the one.     *)
THEOREM FailureWindsDownHolds == Spec => FailureWindsDown
  <1> DEFINE Step ==
        main = "serving" /\ (http = "down" \/ smtp = "down") =>
          /\ cancelled /\ cancelled'
          /\ \/ UNCHANGED processVars
             \/ MembersLeft' < MembersLeft
             \/ main' = "ended" /\ MembersLeft = 0
          /\ smtp = "down" => \A c \in Conns :
               conn[c].link = "closed" => conn'[c].link = "closed"
  <1>1. IInv /\ [Next]_vars => [Step]_vars
    <2> SUFFICES ASSUME IInv, [Next]_vars, Down
                 PROVE  WindsDown /\ \A c \in Conns : StaysClosed(c)
      BY DEF Down, WindsDown, StaysClosed
    <2>1. \A c \in Conns : StaysClosed(c)
      BY StepStaysClosed DEF Down
    <2>2. cancelled
      BY DEF IInv, Tells, Down
    <2>3. ASSUME UNCHANGED processVars PROVE WindsDown
      BY <2>2, <2>3 DEF WindsDown, processVars
    <2>4. ASSUME ProcessMove PROVE WindsDown
      BY <2>4, MembersWindDown DEF ProcessMove
    <2>5. ASSUME Stop PROVE WindsDown
      BY <2>2, <2>5 DEF Stop, End, WindsDown, MembersLeft, ServerLeft, CloserLeft
    <2>6. UNCHANGED processVars \/ ProcessMove \/ Stop
      BY ConnLocal, HandlerLocal DEF IInv, Local, Next, Over, vars
    <2> QED
      BY <2>1, <2>3, <2>4, <2>5, <2>6
  <1> QED
    BY <1>1, Invariance, PTL DEF Spec, FailureWindsDown
=============================================================================
