-------------------------- MODULE SlackSenderProofs --------------------------
(***************************************************************************)
(* For any number of calls, workspaces, ids, tries and any period: no call *)
(* posts twice, success without a post needs an exhausted request, and     *)
(* what a call resolves the name to is no older than the period.           *)
(***************************************************************************)
EXTENDS SlackSender, TLAPS

Emptied == \E d \in Calls : "getUsers" \in exhausted[d]

(* x is what Slack answered for w at t or later, or the empty answer.      *)
Truthful(w, x, t) == Held(w, x, t) \/ (x = NoUser /\ Emptied)

(* The maps: which workspace one is for, and how old its data is.          *)
Shared ==
  \A w \in Workspaces :
    workspaceUsers[w] # NoMap => workspace[workspaceUsers[w]] = w

Contents ==
  \A m \in Calls : maps[m].expiresAt # Never =>
    /\ workspace[m] \in Workspaces
    /\ maps[m].expiresAt <= now + UpdatePeriod
    /\ Truthful(workspace[m], maps[m].data, maps[m].expiresAt - UpdatePeriod)

(* The calls: what each has by the place it has reached.                   *)
Under(c) ==
  pc[c] # "done" =>
    /\ posts[c] = 0 /\ result[c] = "none"
    /\ pc[c] # "idle" => workspace[c] \in Workspaces /\ ~loggingOnly

Fetched(c) ==
  pc[c] \in {"install", "write", "replace"} => Truthful(workspace[c], fetched[c], now)

HasMap(c) ==
  pc[c] \in {"write", "replace", "get"} =>
    usernameMap[c] \in Calls /\ workspace[usernameMap[c]] = workspace[c]

(* Nothing waits between the check or the update and Get.                  *)
GoodMap(c) == pc[c] = "get" => maps[usernameMap[c]].expiresAt >= now

Resolved(c) ==
  (pc[c] = "postMessage" \/ posts[c] > 0 \/ result[c] = "notFound") =>
    /\ workspace[c] \in Workspaces
    /\ Truthful(workspace[c], userID[c], checkedAt[c] - UpdatePeriod)

Places ==
  \A c \in Calls :
    /\ checkedAt[c] <= now
    /\ Under(c) /\ Fetched(c) /\ HasMap(c) /\ GoodMap(c) /\ Resolved(c)

IInv ==
  /\ TypeOK /\ Shared /\ Contents /\ Places
  /\ PostedAtMostOnce /\ OkUnlessExhausted

-----------------------------------------------------------------------------
USE DEF slackVars, env, cacheVars, lookupVars, outcomeVars, callVars, Entry, Never

(* What the steps of the control do to the types.                          *)
LEMMA ControlType ==
  ASSUME TypeOK, NEW c \in Calls
  PROVE  /\ \A place \in CallPc : Goto(c, place) => pc' \in [Calls -> CallPc]
         /\ \A r \in Result : Return(c, r) =>
              pc' \in [Calls -> CallPc] /\ result' \in [Calls -> Result]
         /\ \A q \in Requests : Enter(c, q) =>
              pc' \in [Calls -> CallPc] /\ tries' \in [Calls -> Nat]
         /\ pc[c] \in Requests /\ Exhaust(c) => exhausted' \in [Calls -> SUBSET Requests]
<1>1. "done" \in CallPc /\ Requests \subseteq CallPc
  BY DEF CallPc
<1>2. \A place \in CallPc : Goto(c, place) => pc' \in [Calls -> CallPc]
  BY DEF TypeOK, Goto
<1>3. \A r \in Result : Return(c, r) => result' \in [Calls -> Result]
  BY DEF TypeOK, Return
<1>4. \A q \in Requests : Enter(c, q) => tries' \in [Calls -> Nat]
  BY DEF TypeOK, Enter
<1>5. pc[c] \in Requests /\ Exhaust(c) => exhausted' \in [Calls -> SUBSET Requests]
  BY DEF TypeOK, Exhaust
<1> QED BY <1>1, <1>2, <1>3, <1>4, <1>5 DEF Return, Enter

(* Steps change no variable's shape.                                       *)
LEMMA TypeStep ==
  ASSUME TypeOK, Places, [Next]_vars
  PROVE  TypeOK'
<1> USE SlackAssumption, ControlType DEF TypeOK, CallPc, Requests, Local, Result
<1>1. ASSUME NEW c \in Calls, LogOnly(c) PROVE TypeOK'
  BY <1>1 DEF LogOnly
<1>2. ASSUME NEW c \in Calls, Refuse(c) PROVE TypeOK'
  BY <1>2 DEF Refuse
<1>3. ASSUME NEW c \in Calls, Receive(c) PROVE TypeOK'
  BY <1>3 DEF Receive
<1>4. ASSUME NEW c \in Calls, RateLimited(c) PROVE TypeOK'
  <2>1. tries' \in [Calls -> Nat]
    BY <1>4 DEF RateLimited
  <2> QED BY <1>4, <2>1 DEF RateLimited
<1>5. ASSUME NEW c \in Calls, RequestError(c) PROVE TypeOK'
  BY <1>5 DEF RequestError
<1>6. ASSUME NEW c \in Calls, AuthTest(c) PROVE TypeOK'
  BY <1>6 DEF AuthTest
<1>7. ASSUME NEW c \in Calls, AuthTestExhausted(c) PROVE TypeOK'
  BY <1>7 DEF AuthTestExhausted
<1>8. ASSUME NEW c \in Calls, InvalidBlocks(c) PROVE TypeOK'
  BY <1>8 DEF InvalidBlocks
<1>9. ASSUME NEW c \in Calls, Lookup(c) PROVE TypeOK'
  <2>1. workspace[c] \in Workspaces
    BY <1>9 DEF Lookup, Places, Under
  <2>2. checkedAt' \in [Calls -> Nat]
    BY <1>9 DEF Lookup
  <2>3. pc' \in [Calls -> CallPc] /\ tries' \in [Calls -> Nat]
    BY <1>9 DEF Lookup
  <2>4. usernameMap' \in [Calls -> Calls \cup {NoMap}]
    <3>1. \/ usernameMap' = usernameMap
          \/ usernameMap' = [usernameMap EXCEPT ![c] = workspaceUsers[workspace[c]]]
      BY <1>9 DEF Lookup
    <3>2. workspaceUsers[workspace[c]] \in Calls \cup {NoMap}
      BY <2>1
    <3> QED BY <3>1, <3>2
  <2> QED BY <1>9, <2>2, <2>3, <2>4 DEF Lookup
<1>10. ASSUME NEW c \in Calls, GetUsers(c) PROVE TypeOK'
  <2>1. workspace[c] \in Workspaces
    BY <1>10 DEF GetUsers, Places, Under
  <2> QED BY <1>10, <2>1 DEF GetUsers
<1>11. ASSUME NEW c \in Calls, GetUsersExhausted(c) PROVE TypeOK'
  BY <1>11 DEF GetUsersExhausted
<1>12. ASSUME NEW c \in Calls, Install(c) PROVE TypeOK'
  <2>1. workspace[c] \in Workspaces
    BY <1>12 DEF Install, Places, Under
  <2>2. pc' \in [Calls -> CallPc]
    BY <1>12 DEF Install
  <2>3. usernameMap' \in [Calls -> Calls \cup {NoMap}]
    BY <1>12, <2>1 DEF Install
  <2> QED BY <1>12, <2>2, <2>3 DEF Install
<1>13. ASSUME NEW c \in Calls, Write(c) PROVE TypeOK'
  <2>1. workspaceUsers' \in [Workspaces -> Calls \cup {NoMap}]
    <3>1. \/ workspaceUsers' = [workspaceUsers EXCEPT ![workspace[c]] = c]
          \/ workspaceUsers' = workspaceUsers
      BY <1>13 DEF Write
    <3> QED BY <3>1
  <2>2. pc' \in [Calls -> CallPc]
    BY <1>13 DEF Write
  <2> QED BY <1>13, <2>1, <2>2 DEF Write
<1>14. ASSUME NEW c \in Calls, Replace(c) PROVE TypeOK'
  <2>1. usernameMap[c] \in Calls
    BY <1>14 DEF Replace, Places, HasMap
  <2>2. maps' \in [Calls -> [expiresAt : Nat \cup {Never}, data : Entry]]
    BY <1>14, <2>1 DEF Replace
  <2> QED BY <1>14, <2>2 DEF Replace
<1>15. ASSUME NEW c \in Calls, ConcurrentMapAccess(c) PROVE TypeOK'
  BY <1>15 DEF ConcurrentMapAccess
<1>16. ASSUME NEW c \in Calls, Get(c) PROVE TypeOK'
  <2>1. usernameMap[c] \in Calls
    BY <1>16 DEF Get, Places, HasMap
  <2>2. pc' \in [Calls -> CallPc] /\ tries' \in [Calls -> Nat] /\ result' \in [Calls -> Result]
    BY <1>16 DEF Get
  <2>3. userID' \in [Calls -> Entry]
    BY <1>16, <2>1 DEF Get
  <2> QED BY <1>16, <2>2, <2>3 DEF Get
<1>17. ASSUME NEW c \in Calls, PostMessage(c) PROVE TypeOK'
  <2>1. posts' \in [Calls -> Nat]
    BY <1>17 DEF PostMessage
  <2> QED BY <1>17, <2>1 DEF PostMessage
<1>18. ASSUME NEW c \in Calls, PostMessageLost(c) PROVE TypeOK'
  <2>1. posts' \in [Calls -> Nat]
    BY <1>18 DEF PostMessageLost
  <2> QED BY <1>18, <2>1 DEF PostMessageLost
<1>19. ASSUME NEW c \in Calls, PostMessageExhausted(c) PROVE TypeOK'
  BY <1>19 DEF PostMessageExhausted
<1>20. ASSUME NEW w \in Workspaces, Rename(w) PROVE TypeOK'
  <2>1. changes' \in Nat
    BY <1>20 DEF Rename
  <2>2. heldUntil' \in [Workspaces -> [Entry -> Nat \cup {Never}]]
    BY <1>20 DEF Rename
  <2>3. directory' \in [Workspaces -> Entry]
    BY <1>20 DEF Rename
  <2> QED BY <1>20, <2>1, <2>2, <2>3 DEF Rename
<1>21. CASE Tick
  <2>1. now' \in Nat
    BY <1>21 DEF Tick
  <2> QED BY <1>21, <2>1 DEF Tick
<1>22. CASE AllAnswered
  BY <1>22 DEF AllAnswered, vars
<1>23. CASE UNCHANGED vars
  BY <1>23 DEF vars
<1> QED BY <1>1, <1>2, <1>3, <1>4, <1>5, <1>6, <1>7, <1>8, <1>9, <1>10, <1>11, <1>12,
           <1>13, <1>14, <1>15, <1>16, <1>17, <1>18, <1>19, <1>20, <1>21, <1>22, <1>23
           DEF Next, CallStep

(* An answer of Slack that was true at t or later stays one.               *)
LEMMA HeldStable ==
  ASSUME TypeOK, [Next]_vars, NEW w \in Workspaces, NEW x \in Entry,
         NEW t \in Int, t <= now, directory[w] = x \/ heldUntil[w][x] >= t
  PROVE  directory'[w] = x \/ heldUntil'[w][x] >= t
<1>1. CASE UNCHANGED slackVars
  BY <1>1
<1>2. ASSUME NEW v \in Workspaces, Rename(v)
      PROVE  directory'[w] = x \/ heldUntil'[w][x] >= t
  BY <1>2 DEF Rename, TypeOK
<1> QED BY <1>1, <1>2 DEF Next, CallStep, vars, LogOnly, Refuse, Receive, RateLimited,
           RequestError, AuthTest, AuthTestExhausted, InvalidBlocks, Lookup, GetUsers,
           GetUsersExhausted, Install, Write, Replace, ConcurrentMapAccess, Get, PostMessage,
           PostMessageLost, PostMessageExhausted, Tick, AllAnswered

(* An exhausted request for users is not forgotten.                        *)
LEMMA EmptiedStable ==
  ASSUME TypeOK, [Next]_vars, Emptied
  PROVE  Emptied'
<1>1. CASE UNCHANGED exhausted
  BY <1>1 DEF Emptied
<1>2. ASSUME NEW c \in Calls, Exhaust(c) PROVE Emptied'
  BY <1>2 DEF Exhaust, Emptied, TypeOK
<1> QED BY <1>1, <1>2 DEF Next, CallStep, vars, LogOnly, Refuse, Receive, RateLimited,
           RequestError, AuthTest, AuthTestExhausted, InvalidBlocks, Lookup, GetUsers,
           GetUsersExhausted, Install, Write, Replace, ConcurrentMapAccess, Get, PostMessage,
           PostMessageLost, PostMessageExhausted, Rename, Tick, AllAnswered

(* The workspaces of the tokens do not change.                             *)
LEMMA WorkspaceStays ==
  ASSUME [Next]_vars
  PROVE  workspace' = workspace /\ loggingOnly' = loggingOnly
BY DEF Next, CallStep, vars, LogOnly, Refuse, Receive, RateLimited,
   RequestError, AuthTest, AuthTestExhausted, InvalidBlocks, Lookup, GetUsers,
   GetUsersExhausted, Install, Write, Replace, ConcurrentMapAccess, Get, PostMessage,
   PostMessageLost, PostMessageExhausted, Rename, Tick, AllAnswered

(* What Slack answered, or the empty answer, stays that.                   *)
LEMMA TruthfulStable ==
  ASSUME TypeOK, [Next]_vars, NEW w \in Workspaces, NEW x \in Entry,
         NEW t \in Int, t <= now, Truthful(w, x, t)
  PROVE  Truthful(w, x, t)'
<1>1. CASE Held(w, x, t)
  BY <1>1, HeldStable DEF Held, Truthful
<1>2. CASE x = NoUser /\ Emptied
  BY <1>2, EmptiedStable DEF Truthful
<1> QED BY <1>1, <1>2 DEF Truthful

-----------------------------------------------------------------------------
(* A step seen from one call d: another's, its own, or the end of the      *)
(* process.                                                                *)
Still(d) ==
  /\ pc'[d] = pc[d] /\ fetched'[d] = fetched[d] /\ usernameMap'[d] = usernameMap[d]
  /\ userID'[d] = userID[d] /\ result'[d] = result[d] /\ checkedAt'[d] = checkedAt[d]
  /\ posts'[d] = posts[d] /\ exhausted'[d] = exhausted[d] /\ tries'[d] = tries[d]

Killed(d) ==
  /\ pc[d] # "idle" /\ pc[d] # "done" /\ pc'[d] = "done" /\ result'[d] = "lost"
  /\ userID'[d] = userID[d] /\ checkedAt'[d] = checkedAt[d]
  /\ posts'[d] = posts[d] /\ exhausted'[d] = exhausted[d]

Step(d) ==
  \/ LogOnly(d) \/ Refuse(d) \/ Receive(d) \/ RateLimited(d) \/ RequestError(d)
  \/ AuthTest(d) \/ AuthTestExhausted(d) \/ InvalidBlocks(d) \/ Lookup(d)
  \/ GetUsers(d) \/ GetUsersExhausted(d) \/ Install(d) \/ Write(d) \/ Replace(d)
  \/ Get(d) \/ PostMessage(d) \/ PostMessageLost(d) \/ PostMessageExhausted(d)

LEMMA Moves ==
  ASSUME TypeOK, [Next]_vars, NEW d \in Calls
  PROVE  Still(d) \/ Killed(d) \/ Step(d)
<1> USE DEF TypeOK, Still

<1>1. ASSUME NEW c \in Calls, LogOnly(c) PROVE Still(d) \/ Killed(d) \/ Step(d)
  BY <1>1 DEF LogOnly, Return, Goto, Step
<1>2. ASSUME NEW c \in Calls, Refuse(c) PROVE Still(d) \/ Killed(d) \/ Step(d)
  BY <1>2 DEF Refuse, Return, Goto, Step
<1>3. ASSUME NEW c \in Calls, Receive(c) PROVE Still(d) \/ Killed(d) \/ Step(d)
  BY <1>3 DEF Receive, Enter, Goto, Step
<1>4. ASSUME NEW c \in Calls, RateLimited(c) PROVE Still(d) \/ Killed(d) \/ Step(d)
  BY <1>4 DEF RateLimited, Step
<1>5. ASSUME NEW c \in Calls, RequestError(c) PROVE Still(d) \/ Killed(d) \/ Step(d)
  BY <1>5 DEF RequestError, Return, Goto, Step
<1>6. ASSUME NEW c \in Calls, AuthTest(c) PROVE Still(d) \/ Killed(d) \/ Step(d)
  BY <1>6 DEF AuthTest, Goto, Step
<1>7. ASSUME NEW c \in Calls, AuthTestExhausted(c) PROVE Still(d) \/ Killed(d) \/ Step(d)
  BY <1>7 DEF AuthTestExhausted, Exhaust, Return, Goto, Step
<1>8. ASSUME NEW c \in Calls, InvalidBlocks(c) PROVE Still(d) \/ Killed(d) \/ Step(d)
  BY <1>8 DEF InvalidBlocks, Return, Goto, Step
<1>9. ASSUME NEW c \in Calls, Lookup(c) PROVE Still(d) \/ Killed(d) \/ Step(d)
  BY <1>9 DEF Lookup, Enter, Goto, Step
<1>10. ASSUME NEW c \in Calls, GetUsers(c) PROVE Still(d) \/ Killed(d) \/ Step(d)
  BY <1>10 DEF GetUsers, Goto, Step
<1>11. ASSUME NEW c \in Calls, GetUsersExhausted(c) PROVE Still(d) \/ Killed(d) \/ Step(d)
  BY <1>11 DEF GetUsersExhausted, Exhaust, Goto, Step
<1>12. ASSUME NEW c \in Calls, Install(c) PROVE Still(d) \/ Killed(d) \/ Step(d)
  BY <1>12 DEF Install, Goto, Step
<1>13. ASSUME NEW c \in Calls, Write(c) PROVE Still(d) \/ Killed(d) \/ Step(d)
  BY <1>13 DEF Write, Goto, Step
<1>14. ASSUME NEW c \in Calls, Replace(c) PROVE Still(d) \/ Killed(d) \/ Step(d)
  BY <1>14 DEF Replace, Goto, Step
<1>15. ASSUME NEW c \in Calls, ConcurrentMapAccess(c) PROVE Still(d) \/ Killed(d) \/ Step(d)
  BY <1>15 DEF ConcurrentMapAccess, Killed
<1>16. ASSUME NEW c \in Calls, Get(c) PROVE Still(d) \/ Killed(d) \/ Step(d)
  BY <1>16 DEF Get, Enter, Return, Goto, Step
<1>17. ASSUME NEW c \in Calls, PostMessage(c) PROVE Still(d) \/ Killed(d) \/ Step(d)
  BY <1>17 DEF PostMessage, Return, Goto, Step
<1>18. ASSUME NEW c \in Calls, PostMessageLost(c) PROVE Still(d) \/ Killed(d) \/ Step(d)
  BY <1>18 DEF PostMessageLost, Return, Goto, Step
<1>19. ASSUME NEW c \in Calls, PostMessageExhausted(c) PROVE Still(d) \/ Killed(d) \/ Step(d)
  BY <1>19 DEF PostMessageExhausted, Exhaust, Return, Goto, Step
<1>20. ASSUME NEW w \in Workspaces, Rename(w) PROVE Still(d) \/ Killed(d) \/ Step(d)
  BY <1>20 DEF Rename
<1>21. CASE Tick
  BY <1>21 DEF Tick
<1>22. CASE AllAnswered
  BY <1>22 DEF AllAnswered, vars
<1>23. CASE UNCHANGED vars
  BY <1>23 DEF vars
<1> QED BY <1>1, <1>2, <1>3, <1>4, <1>5, <1>6, <1>7, <1>8, <1>9, <1>10, <1>11, <1>12,
           <1>13, <1>14, <1>15, <1>16, <1>17, <1>18, <1>19, <1>20, <1>21, <1>22, <1>23
           DEF Next, CallStep

(* Where d comes from when it gets somewhere.                              *)
LEMMA Arrival ==
  ASSUME TypeOK, NEW d \in Calls, Step(d)
  PROVE  /\ pc'[d] = "install" => GetUsers(d) \/ GetUsersExhausted(d)
         /\ pc'[d] = "write" => Install(d)
         /\ pc'[d] = "replace" => Install(d) \/ Write(d)
         /\ pc'[d] = "get" => Lookup(d) \/ Replace(d)
         /\ pc'[d] = "postMessage" => Get(d) \/ RateLimited(d)
         /\ posts'[d] # posts[d] => PostMessage(d) \/ PostMessageLost(d)
         /\ userID'[d] # userID[d] => Get(d)
         /\ checkedAt'[d] # checkedAt[d] => Lookup(d)
         /\ result'[d] = "notFound" => Get(d) \/ result[d] = "notFound"
         /\ pc[d] # "done" /\ now' = now
BY DEF TypeOK, Step, LogOnly, Refuse, Receive, RateLimited, RequestError, AuthTest,
   AuthTestExhausted, InvalidBlocks, Lookup, GetUsers, GetUsersExhausted, Install, Write,
   Replace, Get, PostMessage, PostMessageLost, PostMessageExhausted, Enter, Return, Goto,
   Exhaust, Requests

(* The clock stands still while a call has something to do.                *)
LEMMA Clock ==
  ASSUME TypeOK, [Next]_vars
  PROVE  /\ now' \in Nat /\ now <= now'
         /\ now' # now => \A d \in Calls : pc[d] \notin Local /\ Still(d)
<1>1. CASE Tick
  BY <1>1 DEF Tick, TypeOK, Still
<1>2. CASE UNCHANGED now
  BY <1>2 DEF TypeOK
<1> QED BY <1>1, <1>2 DEF Next, CallStep, vars, LogOnly, Refuse, Receive, RateLimited,
           RequestError, AuthTest, AuthTestExhausted, InvalidBlocks, Lookup, GetUsers,
           GetUsersExhausted, Install, Write, Replace, ConcurrentMapAccess, Get, PostMessage,
           PostMessageLost, PostMessageExhausted, Rename, AllAnswered

(* A map changes by a Replace only.                                        *)
LEMMA MapMoves ==
  ASSUME TypeOK, [Next]_vars, NEW m \in Calls, maps'[m] # maps[m]
  PROVE  \E c \in Calls : Replace(c) /\ m = usernameMap[c]
<1>1. CASE UNCHANGED maps
  BY <1>1
<1>2. ASSUME NEW c \in Calls, Replace(c) PROVE Replace(c) /\ m = usernameMap[c]
  BY <1>2 DEF Replace, TypeOK
<1> QED BY <1>1, <1>2 DEF Next, CallStep, vars, LogOnly, Refuse, Receive, RateLimited,
           RequestError, AuthTest, AuthTestExhausted, InvalidBlocks, Lookup, GetUsers,
           GetUsersExhausted, Install, Write, ConcurrentMapAccess, Get, PostMessage,
           PostMessageLost, PostMessageExhausted, Rename, Tick, AllAnswered

-----------------------------------------------------------------------------
(* The entry of a workspace is the map of a call of that workspace.        *)
LEMMA SharedStep ==
  ASSUME TypeOK, Shared, [Next]_vars
  PROVE  Shared'
<1>1. workspace' = workspace
  BY WorkspaceStays
<1>2. CASE UNCHANGED workspaceUsers
  BY <1>1, <1>2 DEF Shared
<1>3. ASSUME NEW c \in Calls, Write(c) PROVE Shared'
  BY <1>1, <1>3 DEF Write, Shared, TypeOK
<1>4. ASSUME NEW c \in Calls, ConcurrentMapAccess(c) PROVE Shared'
  BY <1>4 DEF ConcurrentMapAccess, Shared
<1> QED BY <1>2, <1>3, <1>4 DEF Next, CallStep, vars, LogOnly, Refuse, Receive, RateLimited,
           RequestError, AuthTest, AuthTestExhausted, InvalidBlocks, Lookup, GetUsers,
           GetUsersExhausted, Install, Replace, Get, PostMessage, PostMessageLost,
           PostMessageExhausted, Rename, Tick, AllAnswered

(* A map holds what was fetched, dated by when it was put there.           *)
LEMMA ContentsStep ==
  ASSUME TypeOK, Places, Contents, [Next]_vars
  PROVE  Contents'
<1> SUFFICES ASSUME NEW m \in Calls, maps'[m].expiresAt # Never
             PROVE  /\ workspace'[m] \in Workspaces
                    /\ maps'[m].expiresAt <= now' + UpdatePeriod
                    /\ Truthful(workspace[m], maps[m].data, maps[m].expiresAt - UpdatePeriod)'
  BY DEF Contents
<1>1. workspace' = workspace /\ now' \in Nat /\ now <= now' /\ now \in Nat /\ UpdatePeriod \in Nat
  BY WorkspaceStays, Clock, SlackAssumption DEF TypeOK
<1>2. CASE maps'[m] = maps[m]
  <2>1. /\ workspace[m] \in Workspaces /\ maps[m].data \in Entry
        /\ maps[m].expiresAt \in Nat /\ maps[m].expiresAt - UpdatePeriod <= now
        /\ Truthful(workspace[m], maps[m].data, maps[m].expiresAt - UpdatePeriod)
    BY <1>1, <1>2 DEF Contents, TypeOK
  <2> DEFINE x == maps[m].data
             t == maps[m].expiresAt - UpdatePeriod
             w == workspace[m]
  <2>2. ASSUME NEW v \in Workspaces, NEW y \in Entry, NEW u \in Int, u <= now, Truthful(v, y, u)
        PROVE  Truthful(v, y, u)'
    BY <2>2, TruthfulStable
  <2> QED BY <1>1, <1>2, <2>1, <2>2 DEF Truthful, Held
<1>3. CASE maps'[m] # maps[m]
  <2>1. PICK c \in Calls : Replace(c) /\ m = usernameMap[c]
    BY <1>3, MapMoves
  <2>2. /\ workspace[c] \in Workspaces /\ workspace[m] = workspace[c]
        /\ fetched[c] \in Entry /\ Truthful(workspace[c], fetched[c], now)
    BY <2>1 DEF Replace, Places, Under, Fetched, HasMap, TypeOK
  <2>3. /\ maps'[m].expiresAt = now + UpdatePeriod /\ maps'[m].data = fetched[c]
        /\ now' = now /\ UNCHANGED <<slackVars, exhausted>>
    BY <2>1 DEF Replace, TypeOK
  <2>4. now + UpdatePeriod - UpdatePeriod = now
    BY <1>1
  <2> QED BY <1>1, <2>2, <2>3, <2>4 DEF Truthful, Held, Emptied
<1> QED BY <1>2, <1>3

(* A call at work has a workspace and has not posted.                      *)
LEMMA UnderStep ==
  ASSUME TypeOK, Places, [Next]_vars, NEW d \in Calls
  PROVE  Under(d)'
<1>1. workspace' = workspace /\ loggingOnly' = loggingOnly
  BY WorkspaceStays
<1>2. CASE Still(d)
  BY <1>1, <1>2 DEF Still, Places, Under
<1>3. CASE Killed(d)
  BY <1>3 DEF Killed, Under
<1>4. CASE Step(d)
  BY <1>1, <1>4 DEF TypeOK, Places, Under, Step, LogOnly, Refuse, Receive, RateLimited,
     RequestError, AuthTest, AuthTestExhausted, InvalidBlocks, Lookup, GetUsers,
     GetUsersExhausted, Install, Write, Replace, Get, PostMessage, PostMessageLost,
     PostMessageExhausted, Enter, Return, Goto
<1> QED BY <1>2, <1>3, <1>4, Moves

(* What was fetched is still true when it is put into the map.             *)
LEMMA FetchedStep ==
  ASSUME TypeOK, Places, [Next]_vars, NEW d \in Calls
  PROVE  Fetched(d)'
<1> SUFFICES ASSUME pc'[d] \in {"install", "write", "replace"}
             PROVE  Truthful(workspace[d], fetched[d], now)'
  BY DEF Fetched
<1>1. workspace' = workspace /\ now \in Nat
  BY WorkspaceStays DEF TypeOK
<1>2. CASE /\ pc[d] \in {"install", "write", "replace"}
           /\ fetched'[d] = fetched[d] /\ now' = now
  <2>1. /\ workspace[d] \in Workspaces /\ fetched[d] \in Entry
        /\ Truthful(workspace[d], fetched[d], now)
    BY <1>2 DEF Places, Under, Fetched, TypeOK
  <2>2. ASSUME NEW v \in Workspaces, NEW y \in Entry, NEW u \in Int, u <= now, Truthful(v, y, u)
        PROVE  Truthful(v, y, u)'
    BY <2>2, TruthfulStable
  <2> QED BY <1>1, <1>2, <2>1, <2>2 DEF Truthful, Held
<1>3. CASE GetUsers(d)
  <2>1. fetched'[d] = directory'[workspace[d]]
    BY <1>3 DEF GetUsers, TypeOK
  <2> QED BY <1>1, <2>1 DEF Truthful, Held
<1>4. CASE GetUsersExhausted(d)
  BY <1>4 DEF GetUsersExhausted, Exhaust, Truthful, Emptied, TypeOK
<1>5. CASE Still(d)
  BY <1>2, <1>5, Clock DEF Still, Local, TypeOK
<1>6. CASE Killed(d)
  BY <1>6 DEF Killed
<1>7. CASE Step(d)
  BY <1>2, <1>3, <1>4, <1>7, Arrival DEF Install, Write, TypeOK
<1> QED BY <1>5, <1>6, <1>7, Moves

(* The map a call uses is one of its workspace.                            *)
LEMMA HasMapStep ==
  ASSUME TypeOK, Shared, Places, [Next]_vars, NEW d \in Calls
  PROVE  HasMap(d)'
<1>1. workspace' = workspace
  BY WorkspaceStays
<1>2. CASE Still(d)
  BY <1>1, <1>2 DEF Still, Places, HasMap
<1>3. CASE Killed(d)
  BY <1>3 DEF Killed, HasMap
<1>4. CASE Step(d) /\ pc'[d] \in {"write", "replace", "get"}
  <2>1. workspace[d] \in Workspaces
    BY <1>4 DEF Places, Under, Step, LogOnly, Refuse, Receive, RateLimited, RequestError,
       AuthTest, AuthTestExhausted, InvalidBlocks, Lookup, GetUsers, GetUsersExhausted,
       Install, Write, Replace, Get, PostMessage, PostMessageLost, PostMessageExhausted,
       Enter, Return, Goto, Requests, TypeOK
  <2>2. CASE Install(d)
    BY <1>1, <2>1, <2>2 DEF Install, HasMap, Shared, TypeOK
  <2>3. CASE Write(d)
    BY <1>1, <2>3 DEF Write, Places, HasMap
  <2>4. CASE Lookup(d)
    BY <1>1, <1>4, <2>1, <2>4 DEF Lookup, Enter, Goto, HasMap, Shared, TypeOK
  <2>5. CASE Replace(d)
    BY <1>1, <2>5 DEF Replace, Places, HasMap
  <2> QED BY <1>4, <2>2, <2>3, <2>4, <2>5, Arrival
<1> QED BY <1>2, <1>3, <1>4, Moves DEF HasMap

(* Whoever replaces the contents of a good map puts newer ones there.      *)
LEMMA GoodMapStep ==
  ASSUME TypeOK, Places, [Next]_vars, NEW d \in Calls
  PROVE  GoodMap(d)'
<1> SUFFICES ASSUME pc'[d] = "get" PROVE maps'[usernameMap'[d]].expiresAt >= now'
  BY DEF GoodMap
<1>1. now \in Nat /\ UpdatePeriod \in Nat
  BY SlackAssumption DEF TypeOK
<1>2. CASE Still(d)
  <2>1. usernameMap[d] \in Calls /\ maps[usernameMap[d]].expiresAt >= now
    BY <1>2 DEF Still, Places, HasMap, GoodMap
  <2>2. now' = now
    BY <1>2, Clock DEF Still, Local
  <2>3. CASE maps'[usernameMap[d]] = maps[usernameMap[d]]
    BY <1>2, <2>1, <2>2, <2>3 DEF Still
  <2>4. CASE maps'[usernameMap[d]] # maps[usernameMap[d]]
    <3>1. PICK c \in Calls : Replace(c) /\ usernameMap[d] = usernameMap[c]
      BY <2>1, <2>4, MapMoves
    <3>2. maps'[usernameMap[d]].expiresAt = now + UpdatePeriod
      BY <2>1, <3>1 DEF Replace, TypeOK
    <3> QED BY <1>1, <1>2, <2>2, <3>2 DEF Still
  <2> QED BY <2>3, <2>4
<1>3. CASE Killed(d)
  BY <1>3 DEF Killed
<1>4. CASE Replace(d)
  <2>1. usernameMap[d] \in Calls
    BY <1>4 DEF Replace, Places, HasMap
  <2> QED BY <1>1, <1>4, <2>1 DEF Replace, TypeOK
<1>5. CASE Lookup(d)
  <2>1. workspace[d] \in Workspaces
    BY <1>5 DEF Lookup, Places, Under
  <2>2. PICK m \in Calls : ~Outdated(m) /\ usernameMap'[d] = m
    BY <1>5, <2>1 DEF Lookup, Enter, Goto, TypeOK
  <2>3. maps' = maps /\ now' = now
    BY <1>5 DEF Lookup
  <2>4. maps[m].expiresAt \in Int
    BY DEF TypeOK
  <2> QED BY <1>1, <2>2, <2>3, <2>4 DEF Outdated
<1>6. CASE Step(d)
  BY <1>4, <1>5, <1>6, Arrival
<1> QED BY <1>2, <1>3, <1>6, Moves

(* What a call acts on, or reports missing, was true one period before.    *)
LEMMA ResolvedStep ==
  ASSUME TypeOK, Contents, Places, [Next]_vars, NEW d \in Calls
  PROVE  Resolved(d)'
<1> SUFFICES ASSUME pc'[d] = "postMessage" \/ posts'[d] > 0 \/ result'[d] = "notFound"
             PROVE  /\ workspace'[d] \in Workspaces
                    /\ Truthful(workspace[d], userID[d], checkedAt[d] - UpdatePeriod)'
  BY DEF Resolved
<1>1. /\ workspace' = workspace /\ now \in Nat /\ now <= now' /\ UpdatePeriod \in Nat
      /\ checkedAt[d] \in Nat /\ checkedAt[d] <= now
  BY WorkspaceStays, Clock, SlackAssumption DEF Places, TypeOK
<1>2. ASSUME pc[d] = "postMessage" \/ posts[d] > 0 \/ result[d] = "notFound",
             userID'[d] = userID[d], checkedAt'[d] = checkedAt[d]
      PROVE  /\ workspace'[d] \in Workspaces
             /\ Truthful(workspace[d], userID[d], checkedAt[d] - UpdatePeriod)'
  <2>1. /\ workspace[d] \in Workspaces /\ userID[d] \in Entry
        /\ Truthful(workspace[d], userID[d], checkedAt[d] - UpdatePeriod)
    BY <1>2 DEF Places, Resolved, TypeOK
  <2>2. ASSUME NEW v \in Workspaces, NEW y \in Entry, NEW u \in Int, u <= now, Truthful(v, y, u)
        PROVE  Truthful(v, y, u)'
    BY <2>2, TruthfulStable
  <2> QED BY <1>1, <1>2, <2>1, <2>2 DEF Truthful, Held
<1>3. CASE Get(d)
  <2> DEFINE m == usernameMap[d]
  <2>1. /\ m \in Calls /\ workspace[d] \in Workspaces /\ workspace[m] = workspace[d]
        /\ maps[m].expiresAt >= now /\ maps[m].data \in Entry /\ maps[m].expiresAt \in Int
    BY <1>3 DEF Get, Places, Under, HasMap, GoodMap, TypeOK
  <2>2. Truthful(workspace[d], maps[m].data, maps[m].expiresAt - UpdatePeriod)
    BY <1>1, <2>1 DEF Contents
  <2>3. /\ userID'[d] = maps[m].data /\ checkedAt' = checkedAt
        /\ UNCHANGED <<slackVars, exhausted>>
    BY <1>3 DEF Get, TypeOK
  <2>4. heldUntil[workspace[d]][maps[m].data] \in Int
    BY <2>1 DEF TypeOK
  <2> QED BY <1>1, <2>1, <2>2, <2>3, <2>4 DEF Truthful, Held, Emptied
<1>4. CASE Still(d)
  BY <1>2, <1>4 DEF Still
<1>5. CASE Killed(d)
  BY <1>2, <1>5 DEF Killed
<1>6. CASE Step(d)
  <2>1. posts[d] = 0 /\ result[d] = "none"
    BY <1>6, Arrival DEF Places, Under
  <2>2. CASE RateLimited(d) /\ pc[d] = "postMessage"
    BY <1>2, <2>2 DEF RateLimited
  <2>3. CASE PostMessage(d) \/ PostMessageLost(d)
    BY <1>2, <2>3 DEF PostMessage, PostMessageLost
  <2>4. RateLimited(d) => pc'[d] = pc[d]
    BY DEF RateLimited
  <2> QED BY <1>3, <1>6, <2>1, <2>2, <2>3, <2>4, Arrival
<1> QED BY <1>4, <1>5, <1>6, Moves

LEMMA PlacesStep ==
  ASSUME TypeOK, Shared, Contents, Places, [Next]_vars
  PROVE  Places'
<1>1. ASSUME NEW d \in Calls PROVE checkedAt'[d] <= now'
  <2>1. now \in Nat /\ now' \in Nat /\ now <= now' /\ checkedAt[d] \in Nat /\ checkedAt[d] <= now
    BY Clock DEF Places, TypeOK
  <2>2. CASE Lookup(d)
    BY <2>1, <2>2 DEF Lookup, TypeOK
  <2>3. CASE checkedAt'[d] = checkedAt[d]
    BY <2>1, <2>3
  <2> QED BY <2>2, <2>3, Moves, Arrival DEF Still, Killed
<1>2. ASSUME NEW d \in Calls PROVE Under(d)' /\ Fetched(d)' /\ HasMap(d)' /\ GoodMap(d)'
  BY UnderStep, FetchedStep, HasMapStep, GoodMapStep
<1>3. ASSUME NEW d \in Calls PROVE Resolved(d)'
  BY ResolvedStep
<1> QED BY <1>1, <1>2, <1>3 DEF Places

(* Whoever posts has not posted before and ends.                           *)
LEMMA PostedStep ==
  ASSUME TypeOK, Places, PostedAtMostOnce, [Next]_vars
  PROVE  PostedAtMostOnce'
<1> SUFFICES ASSUME NEW d \in Calls
             PROVE  posts'[d] <= IF loggingOnly' \/ workspace'[d] = NoWorkspace THEN 0 ELSE 1
  BY DEF PostedAtMostOnce
<1>1. workspace' = workspace /\ loggingOnly' = loggingOnly
  BY WorkspaceStays
<1>2. CASE posts'[d] = posts[d]
  BY <1>1, <1>2 DEF PostedAtMostOnce
<1>3. CASE PostMessage(d) \/ PostMessageLost(d)
  <2>1. posts[d] = 0 /\ ~loggingOnly /\ workspace[d] # NoWorkspace
    BY <1>3, SlackAssumption DEF PostMessage, PostMessageLost, Places, Under
  <2>2. posts'[d] = 1
    BY <1>3, <2>1 DEF PostMessage, PostMessageLost, TypeOK
  <2> QED BY <1>1, <2>1, <2>2
<1> QED BY <1>2, <1>3, Moves, Arrival DEF Still, Killed

(* "ok" is the result of a log, of a post or of an exhausted post.         *)
LEMMA OkStep ==
  ASSUME TypeOK, Places, OkUnlessExhausted, [Next]_vars
  PROVE  OkUnlessExhausted'
<1> SUFFICES ASSUME NEW d \in Calls, result'[d] = "ok"
             PROVE  posts'[d] = 1 \/ loggingOnly' \/ "postMessage" \in exhausted'[d]
  BY DEF OkUnlessExhausted
<1>1. loggingOnly' = loggingOnly
  BY WorkspaceStays
<1>2. CASE Still(d)
  BY <1>1, <1>2 DEF Still, OkUnlessExhausted
<1>3. CASE Step(d)
  <2>1. posts[d] = 0 /\ result[d] = "none"
    BY <1>3, Arrival DEF Places, Under
  <2>2. LogOnly(d) \/ PostMessage(d) \/ PostMessageExhausted(d)
    BY <1>3, <2>1 DEF Step, Refuse, Receive, RateLimited, RequestError, AuthTest,
       AuthTestExhausted, InvalidBlocks, Lookup, GetUsers, GetUsersExhausted, Install, Write,
       Replace, Get, PostMessageLost, Enter, Return, Goto, TypeOK
  <2>3. CASE PostMessage(d)
    BY <2>1, <2>3 DEF PostMessage, TypeOK
  <2>4. CASE PostMessageExhausted(d)
    BY <2>4 DEF PostMessageExhausted, Exhaust, TypeOK
  <2>5. CASE LogOnly(d)
    BY <1>1, <2>5 DEF LogOnly
  <2> QED BY <2>2, <2>3, <2>4, <2>5
<1> QED BY <1>2, <1>3, Moves DEF Killed

-----------------------------------------------------------------------------
(* Initially nobody has called and there is no map.                        *)
LEMMA InitIInv == Init => IInv
<1> SUFFICES ASSUME Init PROVE IInv
  OBVIOUS
<1> USE DEF Init
<1>1. TypeOK
  <2>1. maps \in [Calls -> [expiresAt : Nat \cup {Never}, data : Entry]]
    BY DEF EmptyMap
  <2>2. heldUntil \in [Workspaces -> [Entry -> Nat \cup {Never}]]
    OBVIOUS
  <2> QED BY <2>1, <2>2 DEF TypeOK, CallPc, Result
<1>2. Shared /\ Contents
  BY DEF Shared, Contents, EmptyMap
<1>3. \A c \in Calls : pc[c] = "idle" /\ checkedAt[c] = 0 /\ posts[c] = 0 /\ result[c] = "none"
  OBVIOUS
<1>4. Places
  <2> SUFFICES ASSUME NEW c \in Calls
               PROVE  /\ checkedAt[c] <= now
                      /\ Under(c) /\ Fetched(c) /\ HasMap(c) /\ GoodMap(c) /\ Resolved(c)
    BY DEF Places
  <2>1. Under(c) /\ Fetched(c) /\ HasMap(c) /\ GoodMap(c)
    BY <1>3 DEF Under, Fetched, HasMap, GoodMap
  <2>2. posts[c] = 0 /\ pc[c] = "idle" /\ result[c] = "none"
    BY <1>3
  <2>3. Resolved(c)
    BY <2>2 DEF Resolved
  <2>4. checkedAt[c] <= now
    BY <1>3
  <2> QED BY <2>1, <2>3, <2>4
<1>5. PostedAtMostOnce /\ OkUnlessExhausted
  BY <1>3 DEF PostedAtMostOnce, OkUnlessExhausted
<1> QED BY <1>1, <1>2, <1>4, <1>5 DEF IInv

(* The invariant holds in every reachable state.                           *)
LEMMA SlackInvariance == Spec => []IInv
<1>1. IInv /\ [Next]_vars => IInv'
  BY TypeStep, SharedStep, ContentsStep, PlacesStep, PostedStep, OkStep DEF IInv
<1> QED BY InitIInv, <1>1, PTL DEF Spec

-----------------------------------------------------------------------------
(* What is tried again was refused: however often Slack limits the rate    *)
(* and answers get lost, no call posts its message twice.                  *)
THEOREM SlackPostsOnce == Spec => []PostedAtMostOnce
<1>1. IInv => PostedAtMostOnce
  BY DEF IInv
<1> QED BY SlackInvariance, <1>1, PTL

(* However many calls share, make and replace the maps, what a call acts   *)
(* on is what Slack said of this workspace at most a period before.        *)
THEOREM SlackResolves == Spec => []ResolvesTruly
<1>1. IInv => ResolvesTruly
  <2> SUFFICES ASSUME IInv, NEW c \in Calls,
                      pc[c] = "postMessage" \/ posts[c] > 0 \/ result[c] = "notFound"
               PROVE  Truthful(workspace[c], userID[c], checkedAt[c] - UpdatePeriod)
    BY DEF ResolvesTruly, Truthful, Emptied
  <2> QED BY DEF IInv, Places, Resolved
<1> QED BY SlackInvariance, <1>1, PTL

(* Success without a post needs a post whose tries were all limited.       *)
THEOREM SlackOk == Spec => []OkUnlessExhausted
<1>1. IInv => OkUnlessExhausted
  BY DEF IInv
<1> QED BY SlackInvariance, <1>1, PTL

-----------------------------------------------------------------------------
(* A request is tried while there are tries left.                          *)
Bounded == \A c \in Calls : tries[c] < MaxRetries

LEMMA StepGetsOn ==
  ASSUME TypeOK, Bounded, NEW d \in Calls, Step(d) \/ Killed(d) \/ ConcurrentMapAccess(d)
  PROVE  GetsOn(d)
<1>1. \A x \in CallPc : Place[x] \in 0..9 /\ (x # "done" => Place[x] < 9)
  BY DEF Place, CallPc, Requests, Local
<1>2. /\ pc[d] \in CallPc /\ tries[d] \in Nat /\ tries[d] < MaxRetries
      /\ pc \in [Calls -> CallPc] /\ tries \in [Calls -> Nat]
      /\ MaxRetries \in Nat \ {0}
  BY SlackAssumption DEF TypeOK, Bounded
<1>3. ASSUME pc'[d] = "done", pc[d] # "done" PROVE GetsOn(d)
  BY <1>1, <1>2, <1>3 DEF GetsOn, Place
<1>4. CASE Killed(d)
  BY <1>3, <1>4 DEF Killed
<1>5. CASE LogOnly(d) \/ Refuse(d) \/ RequestError(d) \/ AuthTestExhausted(d)
           \/ InvalidBlocks(d) \/ PostMessage(d) \/ PostMessageLost(d)
           \/ PostMessageExhausted(d)
  BY <1>2, <1>3, <1>5 DEF LogOnly, Refuse, RequestError, AuthTestExhausted, InvalidBlocks,
     PostMessage, PostMessageLost, PostMessageExhausted, Return, Goto, Requests
<1>6. CASE RateLimited(d)
  BY <1>2, <1>6 DEF RateLimited, OutOfTries, GetsOn
<1>7. CASE Receive(d)
  BY <1>2, <1>7 DEF Receive, Enter, Goto, GetsOn, Place
<1>8. CASE AuthTest(d)
  BY <1>2, <1>8 DEF AuthTest, Goto, GetsOn, Place
<1>9. CASE Lookup(d)
  BY <1>2, <1>9 DEF Lookup, Enter, Goto, GetsOn, Place
<1>10. CASE GetUsers(d) \/ GetUsersExhausted(d)
  BY <1>2, <1>10 DEF GetUsers, GetUsersExhausted, Goto, GetsOn, Place
<1>11. CASE Install(d)
  BY <1>2, <1>11 DEF Install, Goto, GetsOn, Place
<1>12. CASE Write(d) \/ Replace(d)
  BY <1>2, <1>12 DEF Write, Replace, Goto, GetsOn, Place
<1>13. CASE Get(d)
  BY <1>2, <1>13 DEF Get, Enter, Return, Goto, GetsOn, Place
<1>14. CASE ConcurrentMapAccess(d)
  <2>1. pc[d] \in {"lookup", "install", "write"} /\ pc'[d] = "done"
    BY <1>2, <1>14 DEF ConcurrentMapAccess
  <2> QED BY <1>3, <2>1
<1> QED BY <1>4, <1>5, <1>6, <1>7, <1>8, <1>9, <1>10, <1>11, <1>12, <1>13, <1>14 DEF Step

LEMMA BoundedStep ==
  ASSUME TypeOK, Bounded, [Next]_vars
  PROVE  Bounded'
<1> SUFFICES ASSUME NEW d \in Calls PROVE tries'[d] < MaxRetries
  BY DEF Bounded
<1>1. MaxRetries \in Nat \ {0} /\ tries[d] \in Nat /\ tries[d] < MaxRetries
  BY SlackAssumption DEF TypeOK, Bounded
<1>2. tries'[d] \in {0, tries[d]} \/ (tries[d] + 1 # MaxRetries /\ tries'[d] = tries[d] + 1)
  <2>1. tries \in [Calls -> Nat]
    BY DEF TypeOK
  <2>2. ASSUME NEW c \in Calls, LogOnly(c) \/ Refuse(c) \/ Receive(c) \/ CallStep(c)
        PROVE  \/ tries' = tries \/ tries' = [tries EXCEPT ![c] = 0]
               \/ tries[c] + 1 # MaxRetries /\ tries' = [tries EXCEPT ![c] = @ + 1]
    BY <2>2 DEF CallStep, LogOnly, Refuse, Receive, RateLimited, RequestError,
       AuthTest, AuthTestExhausted, InvalidBlocks, Lookup, GetUsers, GetUsersExhausted, Install,
       Write, Replace, ConcurrentMapAccess, Get, PostMessage, PostMessageLost,
       PostMessageExhausted, Enter, OutOfTries
  <2>3. tries' = tries \/ \E c \in Calls : LogOnly(c) \/ Refuse(c) \/ Receive(c) \/ CallStep(c)
    BY DEF Next, vars, Rename, Tick, AllAnswered
  <2> QED BY <2>1, <2>2, <2>3
<1> QED BY <1>1, <1>2

(* No call is at a place twice or makes a request more often than          *)
(* MaxRetries times, whatever maps it finds and however Slack answers      *)
(* (calls.go:28-80).                                                       *)
THEOREM SlackGetsOn == Spec => CallGetsOn
<1>1. Init => Bounded
  <2>1. 0 < MaxRetries
    BY SlackAssumption
  <2>2. Init => tries = [c \in Calls |-> 0]
    BY DEF Init
  <2> QED BY <2>1, <2>2 DEF Bounded
<1>2. IInv /\ Bounded /\ [Next]_vars => Bounded'
  BY BoundedStep DEF IInv
<1>3. Spec => []Bounded
  BY SlackInvariance, <1>1, <1>2, PTL DEF Spec
<1>4. IInv /\ Bounded /\ [Next]_vars =>
        [\A c \in Calls :
           CallStep(c) \/ pc'[c] # pc[c] \/ tries'[c] # tries[c] => GetsOn(c)]_vars
  <2> SUFFICES ASSUME IInv, Bounded, [Next]_vars, NEW d \in Calls,
                      CallStep(d) \/ pc'[d] # pc[d] \/ tries'[d] # tries[d]
               PROVE  GetsOn(d)
    OBVIOUS
  <2>1. TypeOK
    BY DEF IInv
  <2>2. CASE CallStep(d)
    <3>1. Step(d) \/ ConcurrentMapAccess(d)
      BY <2>2 DEF CallStep, Step
    <3> QED BY <2>1, <3>1, StepGetsOn
  <2>3. CASE pc'[d] # pc[d] \/ tries'[d] # tries[d]
    <3>1. Killed(d) \/ Step(d)
      BY <2>1, <2>3, Moves DEF Still
    <3> QED BY <2>1, <3>1, StepGetsOn
  <2> QED BY <2>2, <2>3
<1> QED BY SlackInvariance, <1>3, <1>4, PTL DEF Spec, CallGetsOn
=============================================================================
