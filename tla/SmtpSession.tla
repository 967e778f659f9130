----------------------------- MODULE SmtpSession -----------------------------
(***************************************************************************)
(* pkg/smtpserver/server.go: the session of each connection to the SMTP    *)
(* proxy, driven by the library go-smtp, which keeps a state of its own    *)
(* (conn) beside it and calls the session with the commands it lets        *)
(* through.  A command that is refused changes nothing and is no step.     *)
(***************************************************************************)
EXTENDS ProxyProcess, Integers

CONSTANTS
  Conns,        \* connections, each handled by a goroutine
  Addresses,    \* mail addresses, as they are spelled
  Fold,         \* an address in lower case
  MaxCopies,    \* bound: how often the RCPTs of a mail name one address
  Users,        \* who can authenticate
  Messages,     \* what clients may send as DATA
  NoUser, NoAddress

(* The addresses of a header: there is none, it does not parse, or it      *)
(* names some.                                                             *)
Kind == {"absent", "malformed", "list"}
HeaderLists == {l \in [kind: Kind, addrs: SUBSET Addresses] :
                  l.kind # "list" => l.addrs = {}}

MessageFields ==
  [from: HeaderLists, replyTo: Kind, to: HeaderLists, cc: HeaderLists,
   messageID: {"fine", "short", "bad"},   \* in brackets or absent; one byte; neither
   date: BOOLEAN, body: BOOLEAN]          \* parse, and pass ValidateMail

ASSUME SessionAssumption ==
  /\ Fold \in [Addresses -> Addresses]
  /\ MaxCopies \in Nat
  /\ Messages \subseteq MessageFields
  /\ NoUser \notin Users /\ NoAddress \notin Addresses

VARIABLES
  conn,      \* go-smtp's state of the connection
  session,   \* the session
  pc,        \* where its goroutine is: "ready" waits for the next command
  mail,      \* parsedMail
  reply,     \* the answer to the last DATA, "none" after the next MAIL
  login      \* history: the last successful AUTH of the connection, mails since;
             \* not counted where no AUTH is required

sessionVars == <<conn, session, pc, mail, reply, login>>

(* How often each address is in a list of recipients.  The code keeps them *)
(* in the order they come, on which nothing depends.                       *)
Counts == [Addresses -> Nat]
NoOne == [a \in Addresses |-> 0]

ConnType == [link: {"closed", "open"}, greeted: BOOLEAN, tls: BOOLEAN, didAuth: BOOLEAN]
SessionType == [from: Addresses \cup {NoAddress}, recipients: Counts,
                isAuthenticated: BOOLEAN, provider: Users \cup {NoUser}]
Mailed == [from: Addresses \cup {NoAddress}, to: SUBSET Addresses, cc: SUBSET Addresses,
           bcc: Counts]
LoginType == [user: Users \cup {NoUser}, mails: Nat]

Closed == [link |-> "closed", greeted |-> FALSE, tls |-> FALSE, didAuth |-> FALSE]

NewSession == [from |-> NoAddress, recipients |-> NoOne, isAuthenticated |-> FALSE,
               provider |-> NoUser]   \* in ctx

NoMail == [from |-> NoAddress, to |-> {}, cc |-> {}, bcc |-> NoOne]
NoLogin == [user |-> NoUser, mails |-> 0]

SessionInit ==
  /\ conn = [c \in Conns |-> Closed]
  /\ session = [c \in Conns |-> NewSession]
  /\ pc = [c \in Conns |-> "ready"]
  /\ mail = [c \in Conns |-> NoMail]
  /\ reply = [c \in Conns |-> "none"]
  /\ login = [c \in Conns |-> NoLogin]

-----------------------------------------------------------------------------
Ready(c) == main = "serving" /\ conn[c].link = "open" /\ pc[c] = "ready"

(* Mutant: the authentication survives.                                    *)
ResetKeepsAuth(c) ==
  session' = [session EXCEPT ![c].from = NoAddress, ![c].recipients = NoOne]

Reset(c) == session' = [session EXCEPT ![c] = NewSession]

Connect(c) ==
  /\ main = "serving" /\ smtp = "listening" /\ conn[c].link = "closed"
  /\ conn' = [conn EXCEPT ![c] = [Closed EXCEPT !.link = "open"]]
  /\ session' = [session EXCEPT ![c] = NewSession]
  /\ login' = [login EXCEPT ![c] = NoLogin]
  /\ UNCHANGED <<processVars, pc, mail, reply>>

Drop(c) ==
  /\ conn' = [conn EXCEPT ![c] = Closed]
  /\ session' = [session EXCEPT ![c] = NewSession]
  /\ pc' = [pc EXCEPT ![c] = "ready"]
  /\ mail' = [mail EXCEPT ![c] = NoMail]
  /\ reply' = [reply EXCEPT ![c] = "none"]
  /\ login' = [login EXCEPT ![c] = NoLogin]

(* QUIT, or the client goes away between two commands.                     *)
Logout(c) == Ready(c) /\ Drop(c) /\ UNCHANGED processVars

(* HELO or EHLO: the first makes the session, another resets it.           *)
Greet(c) ==
  /\ Ready(c)
  /\ conn' = [conn EXCEPT ![c].greeted = TRUE]
  /\ Reset(c)
  /\ UNCHANGED <<processVars, pc, mail, reply, login>>

Rset(c) ==
  /\ Ready(c) /\ conn[c].greeted
  /\ Reset(c)
  /\ UNCHANGED <<processVars, conn, pc, mail, reply, login>>

(* go-smtp drops the session and forgets that the client authenticated.    *)
StartTls(c) ==
  /\ Ready(c) /\ config.tls /\ ~conn[c].tls
  /\ conn' = [conn EXCEPT ![c] = [Closed EXCEPT !.link = "open", !.tls = TRUE]]
  /\ Reset(c)
  /\ UNCHANGED <<processVars, pc, mail, reply, login>>

-----------------------------------------------------------------------------
(* AUTH, once on a connection, and without TLS only if that is allowed.    *)
MayAuth(c) ==
  /\ Ready(c) /\ conn[c].greeted /\ ~conn[c].didAuth
  /\ conn[c].tls \/ config.insecureAuth

(* The authHandler asks the OIDC server for a first token.                 *)
Auth(c) ==
  /\ MayAuth(c) /\ RequireAuth
  /\ pc' = [pc EXCEPT ![c] = "auth"]
  /\ UNCHANGED <<processVars, conn, session, mail, reply, login>>

(* Auth does not look at requireAuth as AuthPlain does: without a handler  *)
(* it calls nil, and go-smtp closes the connection.                        *)
AuthPanics(c) ==
  /\ MayAuth(c) /\ ~RequireAuth
  /\ Drop(c)
  /\ UNCHANGED processVars

(* Mutant: the provider is kept where all sessions see it.                 *)
AuthSucceedsShared(c) ==
  /\ main = "serving" /\ pc[c] = "auth"
  /\ \E u \in Users :
       /\ session' = [d \in Conns |->
            [session[d] EXCEPT !.provider = u,
                               !.isAuthenticated = @ \/ d = c]]
       /\ login' = [login EXCEPT ![c] = [user |-> u, mails |-> 0]]
  /\ conn' = [conn EXCEPT ![c].didAuth = TRUE]
  /\ pc' = [pc EXCEPT ![c] = "ready"]
  /\ UNCHANGED <<processVars, mail, reply>>

AuthSucceeds(c) ==
  /\ main = "serving" /\ pc[c] = "auth"
  /\ \E u \in Users :
       /\ session' = [session EXCEPT ![c] =
                         [@ EXCEPT !.provider = u, !.isAuthenticated = TRUE]]
       /\ login' = [login EXCEPT ![c] = [user |-> u, mails |-> 0]]
  /\ conn' = [conn EXCEPT ![c].didAuth = TRUE]
  /\ pc' = [pc EXCEPT ![c] = "ready"]
  /\ UNCHANGED <<processVars, mail, reply>>

AuthFails(c) ==
  /\ main = "serving" /\ pc[c] = "auth"
  /\ pc' = [pc EXCEPT ![c] = "ready"]
  /\ UNCHANGED <<processVars, conn, session, mail, reply, login>>

-----------------------------------------------------------------------------
(* Mutant: what go-smtp remembers is taken for the state of the session.   *)
AuthorizedOnce(c) == RequireAuth => conn[c].didAuth

Authorized(c) == RequireAuth => session[c].isAuthenticated

(* A second MAIL replaces the sender and keeps the recipients.             *)
Mail(c) ==
  /\ Ready(c) /\ conn[c].greeted /\ Authorized(c)
  /\ \E a \in Addresses : session' = [session EXCEPT ![c].from = a]
  /\ reply' = [reply EXCEPT ![c] = "none"]
  /\ UNCHANGED <<processVars, conn, pc, mail, login>>

(* go-smtp passes RCPT on only after MAIL.  A repeated one is kept.        *)
Rcpt(c) ==
  /\ Ready(c) /\ session[c].from # NoAddress /\ Authorized(c)
  /\ \E a \in Addresses :
       /\ session[c].recipients[a] < MaxCopies
       /\ session' = [session EXCEPT ![c].recipients[a] = @ + 1]
  /\ UNCHANGED <<processVars, conn, pc, mail, reply, login>>

-----------------------------------------------------------------------------
(* The checks of Data.  Addresses are compared as they are spelled.        *)
Names(list, rcpts) == \E a \in list.addrs : rcpts[a] > 0

Parses(m, s) ==
  /\ m.from.addrs = {s.from}
  /\ m.replyTo # "malformed"
  \* err is still that of Reply-To, and To's own is not looked at
  /\ m.replyTo = "absent" \/ Names(m.to, s.recipients)
  /\ m.cc.kind = "absent" \/ Names(m.cc, s.recipients)
  /\ m.messageID = "fine" /\ m.date /\ m.body

(* messageId[1 : len(messageId)-1] of one byte.  The checks before it pass. *)
Panics(m, s) == m.messageID = "short" /\ Parses([m EXCEPT !.messageID = "fine",
                                                          !.date = TRUE, !.body = TRUE], s)

Folded(addrs) == {Fold[a] : a \in addrs}

(* Mutant: the addresses of Cc are not among those already seen.           *)
BlindToOnly(m, s) ==
  [r \in Addresses |-> IF Fold[r] \in Folded(m.to.addrs) THEN 0 ELSE s.recipients[r]]

(* Recipients that no header names become Bcc, as often as they came.      *)
Blind(m, s) ==
  [r \in Addresses |->
    IF Fold[r] \in Folded(m.to.addrs \cup m.cc.addrs) THEN 0 ELSE s.recipients[r]]

ParsedMail(m, s) ==
  [from |-> s.from, to |-> m.to.addrs, cc |-> m.cc.addrs, bcc |-> Blind(m, s)]

(* DATA ends with a reset in every case; with an accepted mail, only when  *)
(* handleMessage is through.                                               *)
Handle(c, m) ==
  /\ Parses(m, session[c])
  /\ mail' = [mail EXCEPT ![c] = ParsedMail(m, session[c])]
  /\ pc' = [pc EXCEPT ![c] = "token"]
  /\ reply' = [reply EXCEPT ![c] = "none"]
  /\ login' = [login EXCEPT ![c].mails = IF RequireAuth THEN @ + 1 ELSE @]
  /\ UNCHANGED <<processVars, conn, session>>

RefuseMail(c, m) ==
  /\ ~Parses(m, session[c]) /\ ~Panics(m, session[c])
  /\ reply' = [reply EXCEPT ![c] = "error"]
  /\ Reset(c)
  /\ UNCHANGED <<processVars, conn, pc, mail, login>>

DataPanics(c, m) ==
  /\ Panics(m, session[c])
  /\ Drop(c)
  /\ UNCHANGED processVars

Data(c) ==
  /\ Ready(c) /\ session[c].from # NoAddress /\ session[c].recipients # NoOne
  /\ Authorized(c)
  /\ \E m \in Messages : Handle(c, m) \/ RefuseMail(c, m) \/ DataPanics(c, m)

(* Data returns: go-smtp answers and resets, or finds the client gone.     *)
Answer(c, r) ==
  /\ reply' = [reply EXCEPT ![c] = r]
  /\ pc' = [pc EXCEPT ![c] = "ready"]
  /\ mail' = [mail EXCEPT ![c] = NoMail]
  /\ Reset(c)
  /\ UNCHANGED <<conn, login>>

Command(c) ==
  \/ Connect(c) \/ Logout(c) \/ Greet(c) \/ Rset(c) \/ StartTls(c)
  \/ Auth(c) \/ AuthPanics(c) \/ Mail(c) \/ Rcpt(c) \/ Data(c)

AuthReply(c) == AuthSucceeds(c) \/ AuthFails(c)
=============================================================================
