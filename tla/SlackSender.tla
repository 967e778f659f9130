----------------------------- MODULE SlackSender -----------------------------
(***************************************************************************)
(* pkg/slack and internal/grpcservers/slack.go: RPC handlers that post a   *)
(* message to a user of a Slack workspace.  Slack knows users by id; the   *)
(* handlers share a table of user names per workspace, filled on demand    *)
(* and good for twelve hours, and try each request to Slack up to twenty   *)
(* times while it is rate limited.                                         *)
(*                                                                         *)
(* All calls are for one user name, so a directory is the id that has the  *)
(* name, or NoUser.  Only requests to Slack take time worth counting.      *)
(***************************************************************************)
EXTENDS Integers

CONSTANTS
  Calls,        \* RPCs, each handled by a goroutine
  Workspaces,   \* Slack workspaces, named by their URL
  Ids,          \* ids of Slack users
  NoUser, NoMap, NoWorkspace,
  MaxRetries,   \* maxRetries
  UpdatePeriod, \* updatePeriod
  MaxChanges,   \* bound: renamings in the directories
  MaxTime       \* bound: the clock stops here

ASSUME SlackAssumption ==
  /\ NoUser \notin Ids /\ NoMap \notin Calls /\ NoWorkspace \notin Workspaces
  /\ MaxRetries \in Nat \ {0} /\ UpdatePeriod \in Nat
  /\ MaxChanges \in Nat /\ MaxTime \in Nat

VARIABLES
  now,
  directory,        \* Slack: who has the name in a workspace
  changes,
  heldUntil,        \* history: when an id last had the name
  loggingOnly,      \* the process only logs
  workspaceUsers,   \* the map of a workspace, named by the call that made it
  maps,             \* the contents of these UsernameMaps
  pc,               \* where each call is
  workspace,        \* the workspace its token is for; NoWorkspace without one
  tries,            \* requests of the slackCallWrapper at work
  fetched,          \* newMap of UpdateUsernameMap
  usernameMap,      \* the map the call uses
  userID,           \* what the map said
  result,           \* what the caller was told
  checkedAt,        \* history: time.Now() of the check of the map
  posts,            \* history: messages of the call that Slack posted
  exhausted         \* history: the requests of the call that ran out of tries

slackVars == <<directory, changes, heldUntil>>
env == <<now, slackVars, loggingOnly, workspace>>
cacheVars == <<workspaceUsers, maps>>
lookupVars == <<fetched, usernameMap, userID, checkedAt>>
outcomeVars == <<result, posts, exhausted>>
callVars == <<pc, tries, lookupVars, outcomeVars>>
vars == <<env, cacheVars, callVars>>

Entry == Ids \cup {NoUser}
Never == -1

Requests == {"authTest", "getUsers", "postMessage"}
Local == {"lookup", "install", "write", "replace", "get"}
CallPc == {"idle", "done"} \cup Requests \cup Local
Result == {"none", "ok", "error", "notFound", "lost"}

EmptyMap == [expiresAt |-> Never, data |-> NoUser]

Init ==
  /\ now = 0 /\ changes = 0
  /\ directory \in [Workspaces -> Entry]
  /\ heldUntil = [w \in Workspaces |-> [x \in Entry |-> Never]]
  /\ loggingOnly \in BOOLEAN
  /\ workspaceUsers = [w \in Workspaces |-> NoMap]
  /\ maps = [c \in Calls |-> EmptyMap]
  /\ pc = [c \in Calls |-> "idle"]
  /\ workspace \in [Calls -> Workspaces \cup {NoWorkspace}]
  /\ tries = [c \in Calls |-> 0]
  /\ fetched = [c \in Calls |-> NoUser]
  /\ usernameMap = [c \in Calls |-> NoMap]
  /\ userID = [c \in Calls |-> NoUser]
  /\ result = [c \in Calls |-> "none"]
  /\ checkedAt = [c \in Calls |-> 0]
  /\ posts = [c \in Calls |-> 0]
  /\ exhausted = [c \in Calls |-> {}]

-----------------------------------------------------------------------------
(* Steps of the control of c.                                              *)

Goto(c, place) == pc' = [pc EXCEPT ![c] = place]

(* c enters the slackCallWrapper around a request.                         *)
Enter(c, request) ==
  /\ Goto(c, request)
  /\ tries' = [tries EXCEPT ![c] = 0]

Return(c, r) ==
  /\ Goto(c, "done")
  /\ result' = [result EXCEPT ![c] = r]

OutOfTries(c) == tries[c] + 1 = MaxRetries

Exhaust(c) ==
  /\ OutOfTries(c)
  /\ exhausted' = [exhausted EXCEPT ![c] = @ \cup {pc[c]}]

-----------------------------------------------------------------------------
(* SendSlackMessage.                                                       *)

LogOnly(c) ==
  /\ pc[c] = "idle" /\ loggingOnly
  /\ Return(c, "ok")
  /\ UNCHANGED <<env, cacheVars, tries, lookupVars, posts, exhausted>>

(* No X-Slack-Token, or more than one.                                     *)
Refuse(c) ==
  /\ pc[c] = "idle" /\ ~loggingOnly /\ workspace[c] = NoWorkspace
  /\ Return(c, "error")
  /\ UNCHANGED <<env, cacheVars, tries, lookupVars, posts, exhausted>>

Receive(c) ==
  /\ pc[c] = "idle" /\ ~loggingOnly /\ workspace[c] # NoWorkspace
  /\ Enter(c, "authTest")
  /\ UNCHANGED <<env, cacheVars, lookupVars, outcomeVars>>

-----------------------------------------------------------------------------
(* slackCallWrapper: a rate-limited request waits and is made again, any   *)
(* other error ends the call.  When the tries run out it returns what the  *)
(* last request left, and no error: see the Exhausted actions.             *)

(* Mutant: the loop has no bound.                                          *)
RateLimitedForever(c) ==
  /\ pc[c] \in Requests
  /\ tries' = [tries EXCEPT ![c] = (@ + 1) % MaxRetries]
  /\ UNCHANGED <<env, cacheVars, pc, lookupVars, outcomeVars>>

RateLimited(c) ==
  /\ pc[c] \in Requests /\ ~OutOfTries(c)
  /\ tries' = [tries EXCEPT ![c] = @ + 1]
  /\ UNCHANGED <<env, cacheVars, pc, lookupVars, outcomeVars>>

(* Mutant: the error of the post is only logged.                           *)
RequestErrorLogged(c) ==
  /\ pc[c] \in Requests
  /\ Return(c, IF pc[c] = "postMessage" THEN "ok" ELSE "error")
  /\ UNCHANGED <<env, cacheVars, tries, lookupVars, posts, exhausted>>

RequestError(c) ==
  /\ pc[c] \in Requests
  /\ Return(c, "error")
  /\ UNCHANGED <<env, cacheVars, tries, lookupVars, posts, exhausted>>

-----------------------------------------------------------------------------
(* SendToUsername up to the check of the map.                              *)

AuthTest(c) ==
  /\ pc[c] = "authTest"
  /\ Goto(c, "lookup")
  /\ UNCHANGED <<env, cacheVars, tries, lookupVars, outcomeVars>>

(* Without an answer there is no URL, which is noticed.                    *)
AuthTestExhausted(c) ==
  /\ pc[c] = "authTest" /\ Exhaust(c)
  /\ Return(c, "error")
  /\ UNCHANGED <<env, cacheVars, tries, lookupVars, posts>>

(* The blocks are not the JSON they should be.                             *)
InvalidBlocks(c) ==
  /\ pc[c] = "lookup"
  /\ Return(c, "error")
  /\ UNCHANGED <<env, cacheVars, tries, lookupVars, posts, exhausted>>

(* Mutant: a map is good for ever.                                         *)
OutdatedNever(m) == maps[m].expiresAt = Never

Outdated(m) == now > maps[m].expiresAt

Lookup(c) ==
  /\ pc[c] = "lookup"
  /\ checkedAt' = [checkedAt EXCEPT ![c] = now]
  /\ LET m == workspaceUsers[workspace[c]]
         good == m # NoMap /\ ~Outdated(m)
     IN  \/ /\ ~good
            /\ Enter(c, "getUsers")
            /\ UNCHANGED usernameMap
         \/ /\ good
            /\ Goto(c, "get")
            /\ usernameMap' = [usernameMap EXCEPT ![c] = m]
            /\ UNCHANGED tries
  /\ UNCHANGED <<env, cacheVars, fetched, userID, outcomeVars>>

-----------------------------------------------------------------------------
(* UpdateUsernameMap.                                                      *)

GetUsers(c) ==
  /\ pc[c] = "getUsers"
  /\ fetched' = [fetched EXCEPT ![c] = directory[workspace[c]]]
  /\ Goto(c, "install")
  /\ UNCHANGED <<env, cacheVars, tries, usernameMap, userID, outcomeVars, checkedAt>>

(* The new map is made from a nil list: nobody is in it.                   *)
GetUsersExhausted(c) ==
  /\ pc[c] = "getUsers" /\ Exhaust(c)
  /\ fetched' = [fetched EXCEPT ![c] = NoUser]
  /\ Goto(c, "install")
  /\ UNCHANGED <<env, cacheVars, tries, usernameMap, userID, result, checkedAt, posts>>

(* Looks the workspace up again, and makes a map if there is none.         *)
Install(c) ==
  /\ pc[c] = "install"
  /\ LET m == workspaceUsers[workspace[c]]
     IN  \/ /\ m = NoMap
            /\ usernameMap' = [usernameMap EXCEPT ![c] = c]
            /\ Goto(c, "write")
         \/ /\ m # NoMap
            /\ usernameMap' = [usernameMap EXCEPT ![c] = m]
            /\ Goto(c, "replace")
  /\ UNCHANGED <<env, cacheVars, tries, fetched, userID, outcomeVars, checkedAt>>

(* workspaceUsers is a Go map without a lock: of two writes at once one    *)
(* may get lost.                                                           *)
Write(c) ==
  /\ pc[c] = "write"
  /\ \/ workspaceUsers' = [workspaceUsers EXCEPT ![workspace[c]] = c]
     \/ /\ \E d \in Calls \ {c} : pc[d] = "write"
        /\ UNCHANGED workspaceUsers
  /\ Goto(c, "replace")
  /\ UNCHANGED <<env, maps, tries, lookupVars, outcomeVars>>

(* UsernameMap.Replace, under the lock of the map.                         *)
Replace(c) ==
  /\ pc[c] = "replace"
  /\ maps' = [maps EXCEPT ![usernameMap[c]] =
                [expiresAt |-> now + UpdatePeriod, data |-> fetched[c]]]
  /\ Goto(c, "get")
  /\ UNCHANGED <<env, workspaceUsers, tries, lookupVars, outcomeVars>>

(* An access beside a write: the Go runtime may notice and end the         *)
(* process, which starts again with nothing.                               *)
ConcurrentMapAccess(c) ==
  /\ pc[c] \in {"lookup", "install", "write"}
  /\ \E d \in Calls \ {c} : pc[d] = "write"
  /\ LET hit == {d \in Calls : pc[d] \notin {"idle", "done"}}
     IN  /\ pc' = [d \in Calls |-> IF d \in hit THEN "done" ELSE pc[d]]
         /\ result' = [d \in Calls |-> IF d \in hit THEN "lost" ELSE result[d]]
  /\ workspaceUsers' = [w \in Workspaces |-> NoMap]
  /\ UNCHANGED <<env, maps, tries, lookupVars, posts, exhausted>>

-----------------------------------------------------------------------------
(* SendToUsername from UsernameMap.Get on.                                 *)

Get(c) ==
  /\ pc[c] = "get"
  /\ LET id == maps[usernameMap[c]].data
     IN  /\ userID' = [userID EXCEPT ![c] = id]
         /\ \/ /\ id = NoUser
               /\ Return(c, "notFound")
               /\ UNCHANGED tries
            \/ /\ id # NoUser
               /\ Enter(c, "postMessage")
               /\ UNCHANGED result
  /\ UNCHANGED <<env, cacheVars, fetched, usernameMap, checkedAt, posts, exhausted>>

PostMessage(c) ==
  /\ pc[c] = "postMessage"
  /\ posts' = [posts EXCEPT ![c] = @ + 1]
  /\ Return(c, "ok")
  /\ UNCHANGED <<env, cacheVars, tries, lookupVars, exhausted>>

(* Mutant: every error is tried again.                                     *)
PostMessageLostRetried(c) ==
  /\ pc[c] = "postMessage" /\ ~OutOfTries(c)
  /\ posts' = [posts EXCEPT ![c] = @ + 1]
  /\ tries' = [tries EXCEPT ![c] = @ + 1]
  /\ UNCHANGED <<env, cacheVars, pc, lookupVars, result, exhausted>>

(* Slack posts the message, and the answer does not arrive.                *)
PostMessageLost(c) ==
  /\ pc[c] = "postMessage"
  /\ posts' = [posts EXCEPT ![c] = @ + 1]
  /\ Return(c, "error")
  /\ UNCHANGED <<env, cacheVars, tries, lookupVars, exhausted>>

PostMessageExhausted(c) ==
  /\ pc[c] = "postMessage" /\ Exhaust(c)
  /\ Return(c, "ok")
  /\ UNCHANGED <<env, cacheVars, tries, lookupVars, posts>>

-----------------------------------------------------------------------------
(* A user is renamed, joins or leaves.                                     *)
Rename(w) ==
  /\ changes < MaxChanges
  /\ \E x \in Entry \ {directory[w]} : directory' = [directory EXCEPT ![w] = x]
  /\ heldUntil' = [heldUntil EXCEPT ![w][directory[w]] = now]
  /\ changes' = changes + 1
  /\ UNCHANGED <<now, loggingOnly, cacheVars, workspace, callVars>>

Tick ==
  /\ now < MaxTime
  /\ \A c \in Calls : pc[c] \notin Local
  /\ now' = now + 1
  /\ UNCHANGED <<slackVars, loggingOnly, cacheVars, workspace, callVars>>

(* All calls are answered, and the server waits for more.                  *)
AllAnswered ==
  /\ \A c \in Calls : pc[c] = "done"
  /\ UNCHANGED vars

CallStep(c) ==
  \/ RateLimited(c) \/ RequestError(c)
  \/ AuthTest(c) \/ AuthTestExhausted(c) \/ InvalidBlocks(c) \/ Lookup(c)
  \/ GetUsers(c) \/ GetUsersExhausted(c)
  \/ Install(c) \/ Write(c) \/ Replace(c) \/ ConcurrentMapAccess(c)
  \/ Get(c) \/ PostMessage(c) \/ PostMessageLost(c) \/ PostMessageExhausted(c)

Next ==
  \/ \E c \in Calls : LogOnly(c) \/ Refuse(c) \/ Receive(c) \/ CallStep(c)
  \/ \E w \in Workspaces : Rename(w)
  \/ Tick
  \/ AllAnswered

Spec == Init /\ [][Next]_vars

(* A goroutine goes on, and every request gets some answer.                *)
Fairness == \A c \in Calls : WF_vars(CallStep(c))

FairSpec == Spec /\ Fairness

-----------------------------------------------------------------------------
TypeOK ==
  /\ now \in Nat /\ changes \in Nat /\ loggingOnly \in BOOLEAN
  /\ directory \in [Workspaces -> Entry]
  /\ heldUntil \in [Workspaces -> [Entry -> Nat \cup {Never}]]
  /\ workspaceUsers \in [Workspaces -> Calls \cup {NoMap}]
  /\ maps \in [Calls -> [expiresAt : Nat \cup {Never}, data : Entry]]
  /\ pc \in [Calls -> CallPc]
  /\ workspace \in [Calls -> Workspaces \cup {NoWorkspace}]
  /\ tries \in [Calls -> Nat]
  /\ fetched \in [Calls -> Entry] /\ userID \in [Calls -> Entry]
  /\ usernameMap \in [Calls -> Calls \cup {NoMap}]
  /\ result \in [Calls -> Result]
  /\ checkedAt \in [Calls -> Nat] /\ posts \in [Calls -> Nat]
  /\ exhausted \in [Calls -> SUBSET Requests]

(* calls.go:58-72: what is tried again was refused.  No call posts its     *)
(* message twice, and none that only logs or has no token posts at all.    *)
PostedAtMostOnce ==
  \A c \in Calls :
    posts[c] <= IF loggingOnly \/ workspace[c] = NoWorkspace THEN 0 ELSE 1

(* x was the answer for the name in w at t or later.                       *)
Held(w, x, t) == directory[w] = x \/ heldUntil[w][x] >= t

(* client.go:12-15: handlers share maps, make them at the same time, read  *)
(* expiries that others replace; yet what a call acts on is what Slack     *)
(* said of this workspace at most one period before the check.  Only the   *)
(* empty answer of an exhausted request can hide a user.                   *)
ResolvesTruly ==
  \A c \in Calls :
    (pc[c] = "postMessage" \/ posts[c] > 0 \/ result[c] = "notFound") =>
      \/ Held(workspace[c], userID[c], checkedAt[c] - UpdatePeriod)
      \/ userID[c] = NoUser /\ \E d \in Calls : "getUsers" \in exhausted[d]

(* A call reports success for a message that is not out only after all     *)
(* tries of the post were rate limited.                                    *)
OkUnlessExhausted ==
  \A c \in Calls : result[c] = "ok" =>
    posts[c] = 1 \/ loggingOnly \/ "postMessage" \in exhausted[c]

(* The places of a call, in the order in which it goes through them.       *)
Place ==
  [idle |-> 0, authTest |-> 1, lookup |-> 2, getUsers |-> 3, install |-> 4, write |-> 5,
   replace |-> 6, get |-> 7, postMessage |-> 8, done |-> 9]

(* calls.go:28-80, sender.go:17: a call is at no place twice, and makes    *)
(* no request more often than MaxRetries times, whatever Slack and other   *)
(* calls do: what makes the next property true.                            *)
GetsOn(c) ==
  \/ Place[pc[c]] < Place[pc'[c]]
  \/ pc'[c] = pc[c] /\ tries[c] < tries'[c] /\ tries'[c] < MaxRetries

CallGetsOn ==
  [][\A c \in Calls :
       CallStep(c) \/ pc'[c] # pc[c] \/ tries'[c] # tries[c] => GetsOn(c)]_vars

(* However long Slack limits the rate, the handler comes to an end.        *)
CallReturns == \A c \in Calls : pc[c] = "authTest" ~> pc[c] = "done"

(* servis/sip/notifications/slack.proto:16: "SendSlackMessage send a       *)
(* message via Slack".                                                     *)
OkMeansPosted == \A c \in Calls : result[c] = "ok" /\ ~loggingOnly => posts[c] = 1
=============================================================================
