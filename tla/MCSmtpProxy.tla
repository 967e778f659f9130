---------------------------- MODULE MCSmtpProxy ----------------------------
(* Small instances of SmtpProxy for TLC.                                   *)
EXTENDS SmtpProxy, TLC

CONSTANTS c1, c2, alice, bob, a, A, b

TwoConns == {c1, c2}
OneConn == {c1}
TwoUsers == {alice, bob}
OneUser == {alice}

(* A is a, spelled in upper case.                                          *)
ThreeAddresses == {a, A, b}
LowerCase == (a :> a) @@ (A :> a) @@ (b :> b)

TwoAddresses == {a, b}
AsSpelled == (a :> a) @@ (b :> b)

Absent == [kind |-> "absent", addrs |-> {}]
Malformed == [kind |-> "malformed", addrs |-> {}]
List(addrs) == [kind |-> "list", addrs |-> addrs]

Plain == [from |-> List({a}), replyTo |-> "absent", to |-> List({a}), cc |-> Absent,
          messageID |-> "fine", date |-> TRUE, body |-> TRUE]

(* To is looked at only beside a Reply-To; a one-byte message id, above a   *)
(* body that does not parse.                                               *)
SomeMessages ==
  {[Plain EXCEPT !.replyTo = "list"],
   [Plain EXCEPT !.messageID = "short", !.body = FALSE]}

(* From, Reply-To, To and Cc in every form they can have.                  *)
Envelopes ==
  {[Plain EXCEPT !.from = f, !.replyTo = k, !.to = t, !.cc = l] :
     f \in {Malformed, List({a}), List({b})}, k \in Kind, t \in HeaderLists, l \in HeaderLists}

Good == [smtpAuth |-> "plain", grpcAuth |-> "passthrough", tls |-> TRUE,
         certificate |-> TRUE, insecureAuth |-> FALSE, clientID |-> TRUE,
         clientSecret |-> TRUE, endpoint |-> TRUE, loggingOnly |-> FALSE]

GoodConfig == {Good}

SomeConfigs ==
  {Good,
   [Good EXCEPT !.smtpAuth = "none"],
   [Good EXCEPT !.smtpAuth = "none", !.grpcAuth = "none", !.insecureAuth = TRUE,
                !.tls = FALSE, !.loggingOnly = TRUE],
   [Good EXCEPT !.smtpAuth = "none", !.grpcAuth = "oidc-inject", !.tls = FALSE],
   [Good EXCEPT !.certificate = FALSE]}
=============================================================================
