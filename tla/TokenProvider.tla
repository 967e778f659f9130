---------------------------- MODULE TokenProvider ----------------------------
(***************************************************************************)
(* internal/auth/service_account.go: the access token that the goroutines  *)
(* of a process share through one OidcTokenProvider, the dispatcher and    *)
(* the RPC handlers through the Graph sender, all SMTP sessions through    *)
(* the proxy in its inject mode.                                           *)
(*                                                                         *)
(* Neither field is guarded by a lock.  They are pointers, so each read or *)
(* write is one step, and the two fields are written in two, which others  *)
(* see in program order (the processors this runs on keep stores ordered). *)
(*                                                                         *)
(* Tokens are numbered in the order the server issues them; exp[n] is when *)
(* token n expires.                                                        *)
(***************************************************************************)
EXTENDS Integers, Sequences

CONSTANTS
  Callers,     \* goroutines that share the provider
  Lifetimes,   \* how long the server may let a token live
  Skew,        \* the 5 seconds before the expiry
  MaxTokens,   \* bound: requests the server answers
  MaxTime      \* bound: the clock stops here

ASSUME TokenAssumption ==
  /\ Lifetimes \subseteq Nat \ {0}
  /\ Skew \in Nat /\ MaxTokens \in Nat /\ MaxTime \in Nat

VARIABLES
  now,
  exp,           \* the server: expiries of the tokens issued so far
  credentials,   \* the provider has a client id or secret
  accessToken, expiry,   \* the fields of the provider
  pc,            \* where each caller is in GetAccessToken
  fetched,       \* the token its refreshAccessToken got
  checkedAt,     \* history: time.Now() of its check of the expiry
  result,        \* what its last call returned
  overlapped     \* history: two refreshes were under way at once

vars == <<now, exp, credentials, accessToken, expiry, pc, fetched, checkedAt,
          result, overlapped>>

Nil == 0      \* a nil pointer; an error as a result
Empty == -1   \* the empty token of a provider without credentials

Token == 1..Len(exp)

CallerPc == {"idle", "check", "request", "store", "storeExpiry", "return"}

Init ==
  /\ now = 0 /\ exp = <<>>
  /\ credentials \in BOOLEAN
  /\ accessToken = Nil /\ expiry = Nil
  /\ pc = [c \in Callers |-> "idle"]
  /\ fetched = [c \in Callers |-> Nil]
  /\ checkedAt = [c \in Callers |-> 0]
  /\ result = [c \in Callers |-> Nil]
  /\ overlapped = FALSE

Refreshing(c) == pc[c] \in {"request", "store", "storeExpiry"}

(* c sends a request of its own, maybe beside others.                      *)
BeginRefresh(c) ==
  /\ pc' = [pc EXCEPT ![c] = "request"]
  /\ overlapped' = (overlapped \/ \E d \in Callers \ {c} : Refreshing(d))

-----------------------------------------------------------------------------
CallWithoutCredentials(c) ==
  /\ pc[c] = "idle" /\ ~credentials
  /\ result' = [result EXCEPT ![c] = Empty]
  /\ UNCHANGED <<now, exp, credentials, accessToken, expiry, pc, fetched,
                 checkedAt, overlapped>>

(* The condition of GetAccessToken reads the token first, ...              *)
Call(c) ==
  /\ pc[c] = "idle" /\ credentials
  /\ fetched' = [fetched EXCEPT ![c] = Nil]
  /\ result' = [result EXCEPT ![c] = Nil]
  /\ IF accessToken = Nil
       THEN BeginRefresh(c)
       ELSE pc' = [pc EXCEPT ![c] = "check"] /\ UNCHANGED overlapped
  /\ UNCHANGED <<now, exp, credentials, accessToken, expiry, checkedAt>>

(* Mutant: the margin on the wrong side of the expiry.                     *)
NeedsRefreshLate == expiry = Nil \/ expiry + Skew < now

NeedsRefresh == expiry = Nil \/ expiry - Skew < now

(* ... and then the expiry and the clock.                                  *)
Check(c) ==
  /\ pc[c] = "check"
  /\ checkedAt' = [checkedAt EXCEPT ![c] = now]
  /\ IF NeedsRefresh
       THEN BeginRefresh(c)
       ELSE pc' = [pc EXCEPT ![c] = "return"] /\ UNCHANGED overlapped
  /\ UNCHANGED <<now, exp, credentials, accessToken, expiry, fetched, result>>

Request(c) ==
  /\ pc[c] = "request" /\ Len(exp) < MaxTokens
  /\ \E lifetime \in Lifetimes : exp' = Append(exp, now + lifetime)
  /\ fetched' = [fetched EXCEPT ![c] = Len(exp) + 1]
  /\ pc' = [pc EXCEPT ![c] = "store"]
  /\ UNCHANGED <<now, credentials, accessToken, expiry, checkedAt, result, overlapped>>

(* Mutant: the error of refreshAccessToken does not end the call.          *)
RequestErrorIgnored(c) ==
  /\ pc[c] = "request"
  /\ pc' = [pc EXCEPT ![c] = "return"]
  /\ UNCHANGED <<now, exp, credentials, accessToken, expiry, fetched, checkedAt,
                 result, overlapped>>

(* No answer, a refusal, or a token that is no JWT.                        *)
RequestError(c) ==
  /\ pc[c] = "request"
  /\ pc' = [pc EXCEPT ![c] = "idle"]
  /\ UNCHANGED <<now, exp, credentials, accessToken, expiry, fetched, checkedAt,
                 result, overlapped>>

StoreToken(c) ==
  /\ pc[c] = "store"
  /\ accessToken' = fetched[c]
  /\ pc' = [pc EXCEPT ![c] = "storeExpiry"]
  /\ UNCHANGED <<now, exp, credentials, expiry, fetched, checkedAt, result, overlapped>>

StoreExpiry(c) ==
  /\ pc[c] = "storeExpiry"
  /\ expiry' = exp[fetched[c]]
  /\ pc' = [pc EXCEPT ![c] = "return"]
  /\ UNCHANGED <<now, exp, credentials, accessToken, fetched, checkedAt, result,
                 overlapped>>

(* GetAccessToken returns what the field holds by now.                     *)
ReturnToken(c) ==
  /\ pc[c] = "return"
  /\ result' = [result EXCEPT ![c] = accessToken]
  /\ pc' = [pc EXCEPT ![c] = "idle"]
  /\ UNCHANGED <<now, exp, credentials, accessToken, expiry, fetched, checkedAt,
                 overlapped>>

Tick ==
  /\ now < MaxTime
  /\ now' = now + 1
  /\ UNCHANGED <<exp, credentials, accessToken, expiry, pc, fetched, checkedAt,
                 result, overlapped>>

CallerStep(c) ==
  \/ CallWithoutCredentials(c) \/ Call(c) \/ Check(c)
  \/ Request(c) \/ RequestError(c) \/ StoreToken(c) \/ StoreExpiry(c)
  \/ ReturnToken(c)

Next == (\E c \in Callers : CallerStep(c)) \/ Tick

Spec == Init /\ [][Next]_vars

-----------------------------------------------------------------------------
(* Every variable keeps its shape; fields and results name issued tokens.  *)
TypeOK ==
  /\ now \in Nat /\ exp \in Seq(Nat)
  /\ credentials \in BOOLEAN /\ overlapped \in BOOLEAN
  /\ accessToken \in Token \cup {Nil} /\ expiry \in Nat
  /\ pc \in [Callers -> CallerPc]
  /\ fetched \in [Callers -> Token \cup {Nil}]
  /\ checkedAt \in [Callers -> Nat]
  /\ result \in [Callers -> Token \cup {Nil, Empty}]

(* The callers dereference what they get (graphapi.go:64): a call that     *)
(* finds the cache good or has refreshed it never returns nil.             *)
NeverReturnsNil == \A c \in Callers : pc[c] = "return" => accessToken # Nil

(* The token c got was its own new one, or had not expired at its check.  *)
Fresh(c) == result[c] = fetched[c] \/ exp[result[c]] >= checkedAt[c]

(* As long as no two refreshes ever overlapped, the expiry that was        *)
(* checked belongs to the token that is returned, or to an older one, in   *)
(* whatever order reads and writes fall.                                   *)
FreshUnlessOverlapped ==
  ~overlapped => \A c \in Callers : result[c] \in Token => Fresh(c)

-----------------------------------------------------------------------------
(* The strengthening that makes the two invariants inductive.              *)

(* Where each caller is, and what it has by then.                          *)
Progress ==
  \A c \in Callers :
    /\ checkedAt[c] <= now
    /\ pc[c] \in {"check", "storeExpiry", "return"} => accessToken # Nil
    /\ pc[c] \in {"store", "storeExpiry"} => fetched[c] # Nil
    /\ pc[c] # "idle" => result[c] = Nil

(* What two overlapping refreshes destroy.                                 *)
OneRefresh ==
  \A c, d \in Callers : Refreshing(c) /\ Refreshing(d) => c = d

(* Nobody can find the cache good until the refresh is through.            *)
NotGoodYet == \A c \in Callers : Refreshing(c) => NeedsRefresh

(* expiry is that of the token, except between the two writes.             *)
FieldsAgree ==
  /\ \A c \in Callers : pc[c] = "storeExpiry" => accessToken = fetched[c]
  /\ \/ accessToken = Nil
     \/ expiry = exp[accessToken]
     \/ \E c \in Callers : pc[c] = "storeExpiry"

(* What c is about to return is its own token or one that outlives its     *)
(* check, and so is what a refresh may put in its place.                   *)
AboutToReturn ==
  \A c \in Callers : pc[c] = "return" =>
    /\ accessToken = fetched[c] \/ exp[accessToken] >= checkedAt[c]
    /\ \A d \in Callers :
         pc[d] \in {"store", "storeExpiry"} => exp[fetched[d]] >= checkedAt[c]

InStep == OneRefresh /\ NotGoodYet /\ FieldsAgree /\ AboutToReturn

IInv ==
  /\ TypeOK /\ Progress
  /\ accessToken = Nil => expiry = Nil
  /\ ~overlapped => InStep
  /\ FreshUnlessOverlapped

=============================================================================
