---------------------------- MODULE ProxyProcess ----------------------------
(***************************************************************************)
(* internal/cli/actions/smtp-proxy.go: the process of the SMTP proxy, from *)
(* the checks of its configuration to the end of its errgroup.             *)
(*                                                                         *)
(* The errgroup has four members.  Two serve (metrics over HTTP, and SMTP) *)
(* and return only errors; two wait for the group's context and then close *)
(* a server each.  The context has no parent that a signal would cancel,   *)
(* and commands.go keeps signals from ending the process: a signal is no   *)
(* step of this module.                                                    *)
(***************************************************************************)
CONSTANT Configs   \* the configurations the process may be started with

ConfigFields ==
  [smtpAuth: {"none", "plain"},
   grpcAuth: {"none", "passthrough", "oidc-inject"},
   tls: BOOLEAN, certificate: BOOLEAN,     \* SMTPServerTLS; its files can be loaded
   insecureAuth: BOOLEAN,                  \* SMTPServerAllowInsecureAuth
   clientID: BOOLEAN, clientSecret: BOOLEAN, endpoint: BOOLEAN,   \* not empty
   loggingOnly: BOOLEAN]

ASSUME ConfigAssumption == Configs \subseteq ConfigFields

VARIABLES
  config,
  main,        \* where HandleSMTPProxy is
  cancelled,   \* the context of the errgroup
  http,        \* the variable httpServer and the member that serves it
  httpCloser,  \* the member that shuts it down has returned
  smtp,        \* the SMTP server
  smtpCloser

processVars == <<config, main, cancelled, http, httpCloser, smtp, smtpCloser>>

Main == {"starting", "serving", "refused", "panicked", "ended"}
Server == {"unset", "listening", "down"}

ProcessInit ==
  /\ config \in Configs
  /\ main = "starting" /\ cancelled = FALSE
  /\ http = "unset" /\ httpCloser = FALSE
  /\ smtp = "unset" /\ smtpCloser = FALSE

RequireAuth == config.smtpAuth = "plain"

-----------------------------------------------------------------------------
(* Mutant: the check of passthrough is left out.                           *)
ValidUnpaired ==
  /\ config.grpcAuth = "oidc-inject" => config.clientID
  /\ config.clientSecret
  /\ config.grpcAuth # "none" => config.endpoint
  /\ config.smtpAuth # "none" => config.tls \/ config.insecureAuth

(* The checks in their order.  && binds closer than ||: the client secret  *)
(* is asked for in every mode.                                             *)
Valid ==
  /\ config.grpcAuth = "oidc-inject" => config.clientID
  /\ config.clientSecret
  /\ config.grpcAuth # "none" => config.endpoint
  /\ config.grpcAuth = "passthrough" => config.smtpAuth # "none"
  /\ config.smtpAuth # "none" => config.tls \/ config.insecureAuth

Refuse ==
  /\ main = "starting"
  /\ ~Valid \/ (config.tls /\ ~config.certificate)
  /\ main' = "refused"
  /\ UNCHANGED <<config, cancelled, http, httpCloser, smtp, smtpCloser>>

(* GetSMTPServer returns no server if it gets no first token, and its      *)
(* error is looked at only after the server is written to.                 *)
StartPanics ==
  /\ main = "starting" /\ Valid /\ config.grpcAuth = "oidc-inject"
  /\ main' = "panicked"
  /\ UNCHANGED <<config, cancelled, http, httpCloser, smtp, smtpCloser>>

Serve ==
  /\ main = "starting" /\ Valid /\ (config.tls => config.certificate)
  /\ main' = "serving"
  /\ UNCHANGED <<config, cancelled, http, httpCloser, smtp, smtpCloser>>

-----------------------------------------------------------------------------
(* The member assigns httpServer, over whatever was there, and listens.    *)
HttpListen ==
  /\ main = "serving" /\ http = "unset"
  /\ http' = "listening"
  /\ UNCHANGED <<config, main, cancelled, httpCloser, smtp, smtpCloser>>

(* Mutant: the member returns no error.                                    *)
HttpFailsQuietly ==
  /\ main = "serving" /\ http = "listening"
  /\ http' = "down"
  /\ UNCHANGED <<config, main, cancelled, httpCloser, smtp, smtpCloser>>

HttpFails ==
  /\ main = "serving" /\ http = "listening"
  /\ http' = "down" /\ cancelled' = TRUE
  /\ UNCHANGED <<config, main, httpCloser, smtp, smtpCloser>>

(* Shutdown of the value that httpServer has now: of the zero value, if    *)
(* the member above has not come to its assignment.                        *)
HttpClose ==
  /\ main = "serving" /\ cancelled /\ ~httpCloser
  /\ httpCloser' = TRUE
  /\ http' = IF http = "listening" THEN "down" ELSE http
  /\ UNCHANGED <<config, main, cancelled, smtp, smtpCloser>>

(* The member binds the address and go-smtp registers the listener.        *)
SmtpListen ==
  /\ main = "serving" /\ smtp = "unset"
  /\ smtp' = "listening"
  /\ UNCHANGED <<config, main, cancelled, http, httpCloser, smtpCloser>>

SmtpFails ==
  /\ main = "serving" /\ smtp \in {"unset", "listening"}
  /\ smtp' = "down" /\ cancelled' = TRUE
  /\ UNCHANGED <<config, main, http, httpCloser, smtpCloser>>

(* The context is cancelled already, so Shutdown closes the listeners it   *)
(* knows and waits for no connection.  One that is registered after it     *)
(* accepts connections like any other.                                     *)
SmtpClose ==
  /\ main = "serving" /\ cancelled /\ ~smtpCloser
  /\ smtpCloser' = TRUE
  /\ smtp' = IF smtp = "listening" THEN "down" ELSE smtp
  /\ UNCHANGED <<config, main, cancelled, http, httpCloser>>

(* eg.Wait returns, and with it main.                                      *)
End ==
  /\ main = "serving"
  /\ http = "down" /\ httpCloser /\ smtp = "down" /\ smtpCloser
  /\ main' = "ended"
  /\ UNCHANGED <<config, cancelled, http, httpCloser, smtp, smtpCloser>>

-----------------------------------------------------------------------------
Member == HttpListen \/ HttpClose \/ SmtpListen \/ SmtpClose

ProcessStep == Refuse \/ StartPanics \/ Serve \/ Member \/ HttpFails \/ SmtpFails

ProcessTypeOK ==
  /\ config \in Configs
  /\ main \in Main
  /\ cancelled \in BOOLEAN /\ httpCloser \in BOOLEAN /\ smtpCloser \in BOOLEAN
  /\ http \in Server /\ smtp \in Server
=============================================================================
