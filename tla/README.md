# A verification development for the Notifications API

The Notifications API sends mails for other services. A client calls a gRPC
method (or speaks SMTP to a proxy that does); the service checks the request,
hands the mail to a mail backend, or queues it in PostgreSQL for a dispatcher
that hands it over later. Several instances may share one database. This
directory models that machinery in TLA+, checks it with TLC on small instances
and proves its main invariants with TLAPS for instances of any size.

All paths below are relative to the repository (`src/` in the mapping of
`PROJECT.json`).

## 1. Inventory

| Component | State | Operations | Interacts with |
|---|---|---|---|
| mails table (`sql/`) | rows: status, processed_at, content | PopMailForProcessing, SetMailStatus, CreateMail, DeleteOldMails | every instance |
| queue dispatcher (`internal/dispatcher/queuehandler.go`) | the loop's position, the mail of popAndHandleMail, its `status` | pop, convert, transmit, deferred status update, wait a minute | table, backend |
| deleter (same file) | position | delete old rows every hour | table |
| gRPC mail server (`internal/grpcservers/mail.go`, `mailer.go`) | one goroutine per call | QueueMail, SendMail, SendDryRun; checks and permissions | table, backend, claims |
| API process (`internal/cli/actions/grpc-api.go`, `internal/cli/commands.go`) | errgroup, context, server | start, SIGTERM, GracefulStop, end | all of the above |
| mail backends (`pkg/mailer/smtp.go`, `graphapi.go`) | SMTP endpoint; Graph token | TransmitMail, GetSender | external mail servers, token provider |
| row conversion (`internal/database/mail.go`) | none | mail to row and back | table |
| MIME (`pkg/mailer/{mail,imf,part,encoding}.go`) | none | validate, encode | backends, mail server |
| Slack client (`pkg/slack`) | cached user-name map and its expiry | rate-limited calls, SendToUsername | Slack |
| gRPC Slack server (`internal/grpcservers/slack.go`) | none | SendSlackMessage | Slack client |
| SMTP session (`pkg/smtpserver/server.go`) | authentication, sender, recipients | AUTH, MAIL, RCPT, DATA, RSET, QUIT | SMTP proxy |
| SMTP proxy (`internal/smtp-proxy`, `internal/cli/actions/smtp-proxy.go`) | configuration, errgroup of four, the token of a call | check and start, mailHandler, authHandler, end | gRPC mail server, token provider |
| token provider (`internal/auth/service_account.go`) | cached token and expiry | GetAccessToken | OIDC server |
| claims (`internal/auth/{interceptor,token}.go`) | none | parse token, roles | mail server |
| configuration, observability, migrations, commands, mocks | read once, write-only or test-only | | |

What is hard in this system, and where the properties aim:

* **Concurrency.** Instances race for a row between the subquery and the UPDATE
  of the pop; RPC handlers run beside the dispatcher; goroutines share a token
  and a table of user maps without locks.
* **Failure.** A call can fail after it took effect; the deferred status update
  can fail without anyone noticing; a process can die, or panic on a mail it
  accepted, between sending and recording.
* **Time.** A mail is retried an hour after a failure and deleted after 120 days:
  conditions on two timestamps no test waits for.
* **Shutdown.** One cancelled context must end four kinds of goroutines, some of
  which are in the middle of calls that ignore it, while calls are still let in; and a
  server may be told to shut down before it listens.
* **Two state machines for one session.** go-smtp and the session each remember
  who authenticated, and a reset means different things to them.
* **Six forms of one mail.** SMTP message, parsed mail, request, mail, row and
  outgoing message are converted into each other by code that shares little, and
  what one step accepts the next should.

Correct means: a mail whose caller was told "ok" is stored or sent (OkIsKept);
a row says sent only if the mail is (SentMeansHandedOver); one attempt sends at
most once and never by both routes (NeverResent); what is queued is taken up
(QueueDrains), and a row under way has somebody at work on it
(NoOrphanWithoutDisruption); nothing without permission goes out
(OnlyPermittedMails); the process winds down and ends when it is told to
(ShutdownWindsDown, ShutdownCompletes); a token that is handed out
is no nil and not stale (NeverReturnsNil, FreshUnlessOverlapped); a Slack message
goes out at most once, to whom Slack says it belongs, and success is reported only
for one that is out (PostedAtMostOnce, ResolvesTruly, OkUnlessExhausted), however
long the rate is limited (CallGetsOn, CallReturns); what a
client sends through the proxy goes out under its own login, whoever else logs in
(SubmitsAsItsUser, PassthroughHasUser, OneMailPerLogin), to the recipients of its
envelope (AddressedAsEnvelope), and the client is told what the API did
(KeepsPromise), and a proxy one of whose servers failed winds down and ends
(FailureWindsDown, FailureEndsProxy); a body comes out of all conversions as it went in (ContentKept), in
an encoding its type, its parts and the mail server allow (CompositeUnencoded,
WireFits), and
what one check let through the later ones do, too (AcceptedIsSendable,
ApiAcceptsParsed).

`PROJECT.json` lists every hazard at its line with the properties that cover it.

## 2. Modules

| Module | Models | Extends |
|---|---|---|
| `MailTable` | the table, the four statements, the database clock | |
| `Service` | instances, failure budget, acceptance of mails by the backend | `MailTable` |
| `Dispatcher` | HandleMailQueue, popAndHandleMail, DeleteOldMails | `Service` |
| `MailServer` | QueueMail, SendMail, SendDryRun | `Service` |
| `NotificationsAPI` | the deployed service: composition, process life, fairness, properties | `Dispatcher`, `MailServer` |
| `MailLifecycle` | abstract: the life of one mail seen from outside, shared by any number of dispatchers | |
| `TokenProvider` | GetAccessToken, shared by goroutines | |
| `SlackSender` | SendSlackMessage, SendToUsername, UpdateUsernameMap, slackCallWrapper | |
| `ProxyProcess` | `internal/cli/actions/smtp-proxy.go`: configuration, start, errgroup | |
| `SmtpSession` | the sessions of `pkg/smtpserver/server.go` and what go-smtp adds | `ProxyProcess` |
| `SmtpProxy` | the handlers of `internal/smtp-proxy`; the proxy as a whole, fairness, properties | `SmtpSession` |
| `Relay` | abstract: what the proxy promises of the mails on a connection | |
| `Mime` | validation and transfer encoding of trees of parts (`pkg/mailer`) | |
| `MimeParse` | from the SMTP message to a tree (`pkg/smtpserver/server.go`) | `Mime` |
| `MailRequest` | to the request of the API and back (`internal/smtp-proxy/grpc.go`, `internal/grpcservers/mailer.go`) | `Mime` |
| `MailRow` | to the row and back (`internal/database/mail.go`) | `Mime` |
| `MailBody` | a mail on its way through all of these; properties | `MimeParse`, `MailRequest`, `MailRow` |
| `MCNotificationsAPI`, `MCTokenProvider`, `MCSlackSender`, `MCSmtpProxy`, `MCMailBody` | values of the constants for TLC | the module named |
| `NotificationsAPIProofs` | the inductive invariant and four theorems | `NotificationsAPI`, TLAPS |
| `LifecycleProofs` | what rows go through, permissions, orphans, shutdown, the refinement | `NotificationsAPIProofs` |
| `TokenProviderProofs` | the two fields of the provider | `TokenProvider`, TLAPS |
| `SlackSenderProofs` | posts, maps and results of Slack calls | `SlackSender`, TLAPS |
| `SmtpProofs` | sessions, logins, the refinement of `Relay`, the end of the process | `SmtpProxy`, TLAPS |
| `MailBodyProofs` | trees through all forms: valid, encodable, loadable | `MailBody`, TLAPS |
| `ContentProofs` | trees through all forms: nothing is lost | `MailBodyProofs`, FiniteSetTheorems |

How state corresponds to code:

* `rows[m]` is the row of message `m`: `status` and `processed_at`. Every request
  gets a fresh UUID (`mail.go:200`) and inserts at most one row, so the message
  names the row; a client that retries makes a new message. `Null` is SQL NULL,
  and a comparison with it is not true.
* `life[i]`: "up", "stopping" (the errgroup's context is cancelled, but the goroutine
  that waits for it has not called GracefulStop yet: the gRPC server lets calls in),
  "draining" (it has) or "down".
* `pc[i]`, `job[i]`, `outcome[i]`, `popAt[i]` are the locals of HandleMailQueue
  and popAndHandleMail; `deleter[i]` is the position of DeleteOldMails.
* `rpc[m]`, `method[m]`, `server[m]` are the handler goroutine of a request.
* `fromQueue[i][m]`, `fromRpc[m]` are history: how often the backend took a mail.

How actions correspond to code. A statement or a call is a step, because other
goroutines and instances run in between; a statement that reads and then writes
under READ COMMITTED is two (PopRead, PopUpdate), as PostgreSQL evaluates the
subquery on a snapshot and re-checks only the join on the id for a row another
transaction changed. Every call has its error (`PopError`, `TransmitError`,
`SetStatusError`, `DeleteError`, `QueueInsertError`, ...), which may come before
or after the effect. With the context cancelled, database calls fail by
themselves (`CallFails`), while an SMTP transmission goes on, since `smtp.SendMail`
gets no context. The deferred function of popAndHandleMail is `SetStatus`: it runs
after an error and after a panic too.

A mail with an empty body (`EmptyBodies`) is accepted, sent by SendMail, but its
row reads back as a nil part (`internal/database/mail.go:92`), on which
`ValidateMail` panics: in the dispatcher that ends the process (`TransmitPanic`,
`PanicExit`), after the deferred update marked the row failed.

In `TokenProvider` each read and write of the fields `accessToken` and `expiry` is
a step, since no lock guards them; `fetched[c]` is the token that `c`'s own
refresh got. In `SlackSender` a map of user names is reduced to who has the one
name the calls ask for, a `UsernameMap` is named by the call that allocated it,
and `workspaceUsers` holds these names as the code holds pointers. It is a Go map
without a lock: an access beside a write may end the process
(`ConcurrentMapAccess`), and of two writes one may get lost (`Write`). For the rest
of the service that end of the process is the `Crash` of `NotificationsAPI`, and a
failed or endless token request its `TransmitError`.

In `SmtpProxy`, `session[c]` is the Session of connection `c` (sender, recipients,
isAuthenticated, and the token provider in its context, named by its user) and
`conn[c]` what go-smtp keeps beside it: only go-smtp knows that a client has
greeted, uses TLS and has authenticated, and it resets that at other moments than
the session. A command go-smtp refuses changes nothing and is no step. `pc[c]` is
where the goroutine is: waiting for a command, in a token request of AUTH, or, after
DATA, before the token request, before the API call or before the answer. In
logging-only mode the mail is formatted for the log after the token request, which may
fail. DATA itself, from its check of the login over the headers in their order to the parsed
mail, reads nothing another goroutine writes and is one step with three outcomes
(accepted, refused, panic). `login[c]` and
`accepted[c]`, which counts how often the API took the mail of a DATA, are history.
`main`, `cancelled`, `http`, `smtp` and the two closers
are HandleSMTPProxy, its errgroup's context and its four members. Both servers are
"unset" until the goroutine that serves them comes to it (`HttpListen`, `SmtpListen`),
and a Shutdown before that closes nothing. The lists of a header are sets, while
recipients and Bcc are counted, since an address may be given twice; order and display
names are abstracted, and `Fold` is the lower case the code compares in.

In `MailBody` a body is a tree: a function from paths (the i-th child of `p` is
`Append(p, i)`) to nodes. Every conversion of the code goes through the tree node
by node, so it is a function of a node, mapped over the tree. Of a content the
model keeps what the code tells apart: ASCII or not, control characters, the length
of lines, which of the two encodings is shorter, character set, line ends; of a type
its major type, how it is spelled, charset, boundary, and whether a parameter of it is
ASCII, escaped, UTF-8, other bytes or has a NUL; of the headers of a part, and of the
subject and the extra headers of the mail, one each, by the same kinds. Parsing,
validation and
encoding are operators on these, and an action of `MailBody` is one form made from
the one before: entity, mail, request, mail, row, mail, wire. The extra headers of an
SMTP message end where `server.go:290-318` leaves them, in a local variable. A request
whose strings are not UTF-8 cannot be marshalled (`AskFails`, phase "unmarshalled"). The
phase "unloadable" is a row whose addresses do not read back, "panicked" a part that
reads back as nil.

The models meet in these places; none of them shares a variable with another.

* The API call of `SmtpProxy` (`Submit`, `SubmitError`) is QueueMail or SendMail of
  `MailServer`: accepted, refused, or accepted and the reply lost.
* `MailServer`'s Booleans (`EmptyBodies`, which requests are valid) and the field
  `body` of `SmtpProxy`'s messages summarise `MailBody`, where they are computed.
* A token that `SmtpProxy` or a backend asks for comes from `TokenProvider`; that
  call's failure is `TokenError` and `AuthReply`, and `TransmitError`.
* The Slack handlers use neither the database nor the mail backend; they share the
  process of `NotificationsAPI`, as said above.

## 3. Runs

| Run | Instance | Question |
|---|---|---|
| `single` | 1 instance, 2 permitted mails and a refused one, 2 disruptions, 2 clock values, fairness | Does a single instance keep the life without races of `MailLifecycle`? Is "ok" true? Does anything refused get into queue or backend? Is every queued mail taken up? Does a shutdown only wind down, and end? |
| `pair` | 2 instances (symmetric), 2 mails, 1 disruption, 3 clock values | What survives the race for a row, and is it the shared life of `MailLifecycle`? |
| `token` | 2 callers, tokens that live 1 or 3 ticks, 3 tokens | Is the token nil or stale for some order of reads and writes? |
| `slack` | 2 calls, 2 workspaces, 2 tries, 1 renaming, fairness | Is the right user written to, once, does every step get a call on, and does every call end? |
| `smtp` | 2 connections, 2 users, 2 addresses, 2 messages, 5 configurations, fairness | As whom does the proxy send, what does the client hear, does the API take a mail twice, does the process wind down and end after a failure? |
| `envelope` | 1 connection, 3 addresses (two the same but for case), each given up to twice, all combinations of the header lists | Is every recipient named or blind, and blind as often as it was given? |
| `body` | about 2,800 messages and requests with trees of at most 4 parts | Does a body survive its six forms, do labels fit what is in them, and is what is accepted sendable? |
| `retry`, `retention`, `race`, `slack_ok` | smallest that shows it | four promises of documentation the code does not keep |
| `proto` | that of `body` | Is there a mail of which none of five promises of `mail.proto` is kept? |

Results of the violation runs (details and quotes in `PROJECT.json`, findings):

1. `retry`: `processed_at - NOW() > '1 hour'` (`sql/queries/mail.sql:10`) has the
   sign reversed. A failed or abandoned mail is never taken up again.
2. `retention`: the same in DeleteOldMails (`:48`); rows of SendMail have no
   processed_at at all. Nothing is ever deleted.
3. `race`: two instances send one mail at the same time (`:3`, no row lock).
4. `slack_ok`: when the last try of a post is rate limited, too, the call reports
   success (`pkg/slack/calls.go:78`).
5. `proto`: of the promises `mail.proto` makes for a mail in parts, AnyPromiseKept asks
   for a single one, and TLC finds a request that gives cause for all of them and is sent
   with none kept. Each disjunct is one finding: a string is sent in UTF-8 whatever
   charset its type names (CharsetAdjusted, `mail.proto:65`, `:129`); a string need not
   have a text type (StringsAreText, `:70`, `:128`); headers of parts are not escaped
   (HeadersEscaped, `:147`); extra headers are checked and dropped (ExtraHeadersSent,
   `:52`); bytes that do not need base64 change their line ends (BytesKept, `:102`,
   `:131`).

These stay without a run, as the code says plainly that it does not do what
`mail.proto` says: SendDryRun transmits the mail (`internal/grpcservers/mail.go:167`,
"does not send a mail" in `mail.proto:31`), and in logging-only mode then panics on the
missing database; the type of an attachment is not guessed from its name (`:99`), and
its name, content id and disposition are not used (`:98`, `:105-114`; a TODO in
`internal/grpcservers/mailer.go:124`). ContentKept asserts nothing of these.

FreshUnlessOverlapped needs its condition: two overlapping refreshes can leave the
later expiry beside the earlier token (`internal/auth/service_account.go:137`), and
that token is then returned after it has expired.

The first finding is also why NeverResent holds: a retry after an ambiguous
failure would send a mail twice. The mutants of NeverResent and FollowsLifecycle
put the sign right and TLC then finds the second sending, so whoever repairs the
query has to decide about lost replies, too.

Several properties of `smtp` and `body` hold only with the exceptions their
definitions name. Each exception is something the code does and a reader might not
expect:

* Of the login: RSET, a second EHLO and the end of DATA clear the session's login,
  while go-smtp refuses a second AUTH, so a login is good for one mail
  (OneMailPerLogin; `pkg/smtpserver/server.go:169`).
* Of the panics: AUTH where no login is required calls a nil handler (`:122`) and a
  Message-ID of one byte is sliced `[1:0]` (`:283-286`); go-smtp recovers both and
  closes the connection. `To` is checked with the error of `Reply-To` (`:246`), so
  without a Reply-To nothing asks that To names a recipient, and a To that does not
  parse counts as an empty one. Addresses that To or Cc name outside the envelope get
  the mail as well.
* Of the process: the error of GetSMTPServer is overwritten unseen, so the proxy
  panics if it gets no first token (`internal/cli/actions/smtp-proxy.go:73`); the
  client secret is required in every mode (`:34`, `&&` binds closer than `||`); no
  signal ends it. If SMTP fails before the metrics goroutine has assigned
  httpServer, Shutdown acts on the zero value and the process lives on without SMTP
  (`:97`, `:107`); if the metrics server fails before go-smtp has a listener, Shutdown
  closes nothing and SMTP is served on (`:111`, `:116`). These are the exceptions in
  FailureEndsProxy.
* Of the headers: the extra headers of an SMTP message are collected and left behind
  (`pkg/smtpserver/server.go:290-318`); Message-ID and Date do not get into the
  proxy's request; headers of parts and types of leaves go out as they come
  (`pkg/mailer/part.go:159-166`), in UTF-8 or in other bytes also under a 7bit label (the
  exception in WireFits); the type of the mail itself is escaped, so that one with a raw
  parameter goes out as an encoded word, which is no type; a subject or header in bytes
  that are not UTF-8 passes the proxy's checks and then makes the call fail
  (ApiAcceptsParsed).
* Of the types: text that says Latin-1 goes out in UTF-8 and still says Latin-1
  (`pkg/smtpserver/server.go:424`); the content type of a plain text is not checked
  to be a text; a mail without MIME-Version becomes application/octet-stream; a
  part without Content-Type is refused by validation; multipart and message are
  recognised in lower case only (`pkg/mailer/encoding.go:49`).
* Of the row: a part that holds nothing loads as nil and panics
  (`internal/database/mail.go:92`); a text or a type with a NUL cannot be stored in the
  JSONB column; an address that does not read back as printed is taken by the proxy and
  refused by the API (`internal/grpcservers/mailer.go:289`).

Bounds. Two mails let a failing or panicking one delay the other, and a refused
one run beside a permitted one; two instances are all a race for one row needs;
the disruption budget allows a failure and the crash or shutdown after it; in `single`
the intervals are 0 and the clock has two values, in the others the clock passes an
interval of 1, so that comparisons with an interval go both ways. MaxTime and MaxDisruptions are the
only bounds of these runs, both guards of their own actions. Two goroutines
are all it takes to race for the token or a map; three tokens allow the two of a
race and the refresh after it; Lifetimes of 1 and 3 make the token stored last
the one that expires first. In `slack` one clock value is as wide as the update
period (UpdatePeriod = 0: a map is good until the clock moves), one renaming
makes a map outdated, and two tries are a limited one and a last one. MaxTokens,
MaxTime and MaxChanges are guards of Request, Tick and Rename. In `smtp` two
connections and two users are what it takes to confuse logins; two addresses, given once,
leave one named and one blind; the two messages are one that is accepted when it names a
recipient and refused otherwise, and one whose Message-ID panics; the five configurations
are each mode of both authentications, one that only logs and one that is
refused for its certificate. What the headers say has no part in the races of `smtp`, and
so has a run of its own: in `envelope`, `a` and `A` are one
address for Fold and two for everything else, `b` is another, MaxCopies = 2 lets each be
given twice, and From, Reply-To, To and Cc take every form: absent, malformed, and each
list. MaxCopies, the guard of Rcpt, is the only
bound: `accepted` and `login[c].mails` end with the mail and the
connection. In `body` the trees have a root with two children and a grandchild,
enough for each place a node can have (root, inner, leaf), and all
conversions are per node; contents, types, encodings and headers take every
value that some condition of the code tells apart, and contents every type. The proofs need none of
these bounds.
Deadlock is checked everywhere: a budget used up or a clock at its bound still
leaves the loops running or a caller to call.

Fairness (`Fairness` in `NotificationsAPI`): weak fairness of the dispatcher, the
deleter and the handlers of each instance (the Go scheduler runs what can run,
the minute timer fires, a call returns), of the goroutine that calls GracefulStop
once the context is cancelled, of the end of a process that is done or
has panicked, and of starting it again (the orchestrator). Failures are not
fair and only finitely many; new requests and the clock are not forced. With the
context cancelled, a database call that can only fail does fail.
`SlackSender` has weak fairness of each call at work: a request gets some answer,
be it a refusal, and a goroutine goes on. New calls, renamings and the clock are
not forced; a request that never returns (the HTTP clients have no timeout) is
outside this assumption.
`SmtpProxy` has weak fairness of what the proxy's own goroutines do once DATA or AUTH
began (calls and token requests return something), of the members of the errgroup
and of the end of a process whose members are done. Clients need not send
anything, servers need not fail, and the start may never come to its end: of
TransferEnds and FailureEndsProxy neither says that a mail is sent or a server
fails, only what follows.
`MailBody` is one mail's way and asks no liveness question.
In `smtp` and `body` the process, or the mail, may be at its end for good: the
explicit step `Over` says so, and any other stop would be a deadlock.

## 4. Proofs

`NotificationsAPIProofs` proves the inductive invariant `IInv` (lemma
`Invariance`) from `IntervalAssumption`, `ServiceAssumption`,
`DispatcherAssumption` and `MailServerAssumption` only: any set of mails and
instances, any intervals and any number of disruptions. From it follow

* `TypeCorrect`, `NoResend`, `SentIsTrue`, `OkIsTrue` (`Spec => []...`),
* in `LifecycleProofs`, `RowsStay` and `WindingDown` (action properties), `NoRetry`,
  `NoExpiry`, `Permitted`, `NoOrphan`, and the refinement `ImplementsLifecycle`
  (`Spec => Lifecycle!Spec`), for any number of instances.

`NoRetry` and `NoExpiry` are findings 1 and 2 for every interval: `retry` and
`retention` show that a promise breaks, the theorems say that the two alternatives of
`mail.sql` are never true, because no processed_at lies in the future.

`NoOrphan` needs more than `IInv`: that a row in processing has a dispatcher is true
of an end of a process only if whoever ended had nothing in hand. `Undisturbed` says so:
without a disruption no instance stops, what is down has no dispatcher, and a handler
panics only where there is no dispatcher at all (logging only). A panic of the
dispatcher itself comes after the deferred update, so it leaves no orphan either.

`WindingDown` gives each place of a dispatcher, a deleter and a handler the number of
steps it has left once the context is cancelled, and shows that each step decreases
it, whatever other instances do. Only a call that is let in between the cancellation and
GracefulStop adds to it, and after GracefulStop none is. It is the safety half of ShutdownCompletes: what
remains for fairness is that a goroutine that can move does.

`ImplementsLifecycle` looks at a behaviour through the status of the rows and at whom
the backend took a mail from. In `MailLifecycle` a dispatcher alone leads a mail once
from submitted to its end; several may claim, send and mark the same one again, but
each sends it once and nobody marks as sent what nobody sent. For one instance the proof needs
`Exclusive` (the row of a mail in a dispatcher's hands is processing), which is false
with two: that is finding 3.

`TokenProviderProofs` proves `TokenNeverNil` and `TokenFresh` from
`TokenAssumption`, for any callers, lifetimes and margin. FreshUnlessOverlapped is
not inductive: that a token is fresh when it is returned depends on the expiry
checked earlier, so `InStep` says that the two fields belong together except
between the two writes of the one refresh under way (`FieldsAgree`), that nobody
can find the cache good meanwhile (`NotGoodYet`), and that whoever is about to
return holds a token good for its check, also if that refresh replaces it
(`AboutToReturn`).

`SlackSenderProofs` proves `SlackPostsOnce`, `SlackResolves` and `SlackOk` from
`SlackAssumption`, for any number of calls, workspaces and tries. Calls share maps,
so the invariant dates the contents of a map (`Contents`: its data was Slack's
answer one period before it expires), keeps maps and workspaces together
(`Shared`, `HasMap`) and says that between the check and Get a map only gets
newer (`GoodMap`). The argument looks at a step from one call: it stays where it
is, is killed, or moves itself (`Moves`, `Arrival`). `SlackGetsOn` is the safety half of
CallReturns: places are numbered in the order of the code, tries are bounded
(`Bounded`), and each step raises one or the other, so a call has finitely many
steps under any rate limit.

`SmtpProofs` proves `TypeCorrect`, `SubmitsAsItsUserHolds`, `PassthroughHasUserHolds`,
`OneMailPerLoginHolds`, `AddressedAsEnvelopeHolds` and the refinement
`KeepsPromiseHolds` (`Spec => Promise!Spec`) from `ConfigAssumption`,
`SessionAssumption` and `ProxyAssumption`, for any connections, users, addresses,
messages and configurations. The invariant says that a process that serves has
passed the checks (so passthrough implies that a login is required), and of each
connection that it exists only while the process serves (`Alive`), that the session's provider is
the one who logged in and go-smtp knows of it (`LoggedIn`: without that, RSET and a
second login would be a second mail), that token and answer belong to the same mail
(`Handled`), and that the mail on its way is addressed as the session is (`Parsed`). The
refinement maps `accepted` to the copies `Relay` counts: a second acceptance before the
answer would be no step of it, and a connection that ends takes no other with it, but
with the process.
`FailureWindsDownHolds` adds that a server is down only with the group cancelled (`Tells`);
from then on each step of a member leaves fewer, a connection that closes stays closed
once SMTP is down, and the process ends only when its members have. It is the safety
half of FailureEndsProxy, whose exceptions (a server that comes to listen after its
Shutdown) are the ways for steps to run out before the end.

`MailBodyProofs` proves `CompositeUnencodedHolds`, `WireFitsHolds`,
`AcceptedIsSendableHolds` and `ApiAcceptsParsedHolds` from `MailBodyAssumption`, for
trees of any size and shape. The invariant (`Pending`, `Accepted`, `Ended`) says of
each phase which function of the earlier form the current one is. The lemmas then are
about these functions: what parsing and the conversion of a request yield is valid
(`ParsedSound`, `BuildSound`, `SimpleTreeSound`, `AcceptedSound`), a row reads back
as it was stored but for root headers and parts that hold nothing
(`NodeRoundTrip`, `RowRoundTrip`), so validation succeeds again (`ReloadedValid`),
and what may be sent as 7bit or 8bit still is after its line ends changed
(`Encoded7or8`). WireFits also asks what a label says of the parts below: contents
are 8bit only where the server takes it, so that no 7bit multipart holds any
(`ContentFits`), and a head is raw only if it is one of those that the code does not
escape (`HeadFits`). Since the trees are functions on paths no induction is needed.

`ContentProofs` proves `ContentKeptHolds` on top of these. Each conversion has a lemma on
what it leaves of a node: `ParseKeeps`, `ProxyKeeps` and `TransformKeeps` up to the
mail the server accepted (`PartKept`), `AcceptedKept` and `EncodeKeeps` from there
to the wire, through the row or past it (`NodeKept`); `KeptThroughout` puts the two
together. A simple mail has no tree when it is sent, so the theorem says that each of its texts
and attachments is a leaf of what goes out, and, by counting, that nothing else is: the
leaves are the paths of the texts and those of the attachments (`TreeLeaves`), two
finite sets whose sizes are those of the mail (`TextsCount`, `AttachedCount`).

Why the strengthening of the first is needed. NeverResent does not follow from its own
preservation: what keeps a mail from being sent twice by a dispatcher is that it
pops a mail only while the row is submitted, and that the row never is again.
`Clocks` (no processed_at lies in the future) makes the second half of `Poppable`
false; `Attempts` ties the counters to the position of each dispatcher (not yet
sent while it holds the mail before setStatus, sent exactly once when the outcome
is "sent", never before the row left submitted); `Routes` separates handlers from
dispatchers (a row appears only when its handler is done; a mail a handler sent
is absent or sent); `Jobs` says when `job` and `outcome` are meaningful.

Only model-checked: the liveness properties QueueDrains, ShutdownCompletes,
CallReturns, TransferEnds and FailureEndsProxy, since liveness under fairness and
ENABLED are out of the prover's reach; and the violated properties, which are false.
For three of the five the step-by-step half is proved, as said above. Every
invariant and every action property of a passing run is a theorem.

## 5. Limits of the model

* Row locks held by a statement are not modelled: a waiting UPDATE is an UPDATE
  that comes later. A statement that a dead client left behind in the server
  commits before the crash.
* The clock is monotone. `LIMIT 1` without ORDER BY may return any candidate, so
  no fairness between queued mails is assumed.
* Contents of parts are what the code tells apart of them (see `Mime`), not bytes:
  base64 and quoted-printable are taken to be right, and a length is one of four.
* Of the header block of a message subject, extra headers and content type are there by
  whether they are raw or escaped; their assembly and folding, dates, and the names
  beside addresses are left out.
* Of an attachment type and bytes are kept: nothing reads its other fields.
* go-smtp is modelled from the order in which it calls a session; limits on sizes,
  recipients and time are not set by the proxy and not modelled.
* Of the mail backends TransmitMail is modelled, not GetSender nor the login to a
  mail server; of the checks of a JWT only their outcome.
* An administrator's edits of the table (README, "Handling failed queued
  messages") are not actions.
* Stores of one goroutine are seen in program order by others, as on the
  processors the service runs on; the Go memory model promises less.
* Local steps of a Slack call take no time on the scale of the update period, so
  the clock waits for them.
* The metrics HTTP server is left out: if it fails, the errgroup is cancelled,
  which is `Shutdown`.

Not modelled: configuration parsing (flags and variables are read once, before
anything runs; what the proxy checks of them is `Valid`), observability (written and
never read), migrations (a library, before the service starts), the protocol
definitions (their fields are those of `MailRequest`), the commands, the mocks and
the test helpers, which keep no state the rest reads.

## 6. Plan

1. Done: `MailTable`, `Service`, `Dispatcher`, `MailServer`, `NotificationsAPI`
   with the abstract `MailLifecycle`, and the proofs above.
2. Done: `TokenProvider` with its proofs.
3. Done: `SlackSender` with its proofs.
4. Done: `ProxyProcess`, `SmtpSession`, `SmtpProxy` with the abstract `Relay` and
   its proofs.
5. Done: `Mime`, `MimeParse`, `MailRequest`, `MailRow`, `MailBody` with its proofs.
6. Done: proofs of NoOrphanWithoutDisruption, of the winding down of instances, calls and
   the proxy, of the refinement for several instances, and of ContentKept.
7. Left: the defaults and roles of a sender in `MailServer` in place of their
   Booleans, with Permitted for them; for QueueDrains and TransferEnds a step-by-step
   half like those of the other liveness properties.
