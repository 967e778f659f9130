------------------------- MODULE TokenProviderProofs -------------------------
(***************************************************************************)
(* For any number of callers, lifetimes and margin: no call that found the *)
(* cache good returns nil, and the race over the two fields needs two      *)
(* refreshes at once.                                                      *)
(***************************************************************************)
EXTENDS TokenProvider, TLAPS

USE DEF Nil, Empty, Token

(* Initially there is no token and nobody has called.                      *)
LEMMA InitIInv == Init => IInv
<1> SUFFICES ASSUME Init PROVE IInv
  OBVIOUS
<1> USE DEF Init
<1>1. TypeOK
  <2>1. exp \in Seq(Nat)
    OBVIOUS
  <2> QED BY <2>1 DEF TypeOK, CallerPc
<1>2. \A c \in Callers : pc[c] = "idle" /\ checkedAt[c] = 0
  OBVIOUS
<1>3. Progress /\ InStep
  BY <1>2 DEF Progress, InStep, OneRefresh, NotGoodYet, FieldsAgree, AboutToReturn, Refreshing
<1>4. FreshUnlessOverlapped
  BY DEF FreshUnlessOverlapped
<1> QED BY <1>1, <1>3, <1>4 DEF IInv

(* Steps change no variable's shape.                                       *)
LEMMA TypeStep ==
  ASSUME TypeOK, Progress, [Next]_vars
  PROVE  TypeOK'
<1> USE TokenAssumption DEF TypeOK, CallerPc
<1>1. ASSUME NEW c \in Callers, CallWithoutCredentials(c) PROVE TypeOK'
  BY <1>1 DEF CallWithoutCredentials
<1>2. ASSUME NEW c \in Callers, Call(c) PROVE TypeOK'
  BY <1>2 DEF Call, BeginRefresh
<1>3. ASSUME NEW c \in Callers, Check(c) PROVE TypeOK'
  BY <1>3 DEF Check, BeginRefresh
<1>4. ASSUME NEW c \in Callers, Request(c) PROVE TypeOK'
  <2>1. PICK lifetime \in Lifetimes : exp' = Append(exp, now + lifetime)
    BY <1>4 DEF Request
  <2>2. exp' \in Seq(Nat) /\ Len(exp') = Len(exp) + 1
    BY <2>1
  <2> QED BY <1>4, <2>2 DEF Request
<1>5. ASSUME NEW c \in Callers, RequestError(c) PROVE TypeOK'
  BY <1>5 DEF RequestError
<1>6. ASSUME NEW c \in Callers, StoreToken(c) PROVE TypeOK'
  BY <1>6 DEF StoreToken
<1>7. ASSUME NEW c \in Callers, StoreExpiry(c) PROVE TypeOK'
  <2>1. fetched[c] \in Token
    BY <1>7 DEF StoreExpiry, Progress
  <2> QED BY <1>7, <2>1 DEF StoreExpiry
<1>8. ASSUME NEW c \in Callers, ReturnToken(c) PROVE TypeOK'
  BY <1>8 DEF ReturnToken
<1>9. CASE Tick
  BY <1>9 DEF Tick
<1>10. CASE UNCHANGED vars
  BY <1>10 DEF vars
<1> QED BY <1>1, <1>2, <1>3, <1>4, <1>5, <1>6, <1>7, <1>8, <1>9, <1>10 DEF Next, CallerStep

(* A caller that is past a stage keeps what the stage gave it.             *)
LEMMA ProgressStep ==
  ASSUME TypeOK, Progress, [Next]_vars
  PROVE  Progress'
<1> USE TokenAssumption DEF TypeOK, Progress
<1>1. ASSUME NEW c \in Callers, CallWithoutCredentials(c) PROVE Progress'
  BY <1>1 DEF CallWithoutCredentials
<1>2. ASSUME NEW c \in Callers, Call(c) PROVE Progress'
  BY <1>2 DEF Call, BeginRefresh
<1>3. ASSUME NEW c \in Callers, Check(c) PROVE Progress'
  BY <1>3 DEF Check, BeginRefresh
<1>4. ASSUME NEW c \in Callers, Request(c) PROVE Progress'
  BY <1>4 DEF Request
<1>5. ASSUME NEW c \in Callers, RequestError(c) PROVE Progress'
  BY <1>5 DEF RequestError
<1>6. ASSUME NEW c \in Callers, StoreToken(c) PROVE Progress'
  BY <1>6 DEF StoreToken
<1>7. ASSUME NEW c \in Callers, StoreExpiry(c) PROVE Progress'
  BY <1>7 DEF StoreExpiry
<1>8. ASSUME NEW c \in Callers, ReturnToken(c) PROVE Progress'
  BY <1>8 DEF ReturnToken
<1>9. CASE Tick
  BY <1>9 DEF Tick
<1>10. CASE UNCHANGED vars
  BY <1>10 DEF vars
<1> QED BY <1>1, <1>2, <1>3, <1>4, <1>5, <1>6, <1>7, <1>8, <1>9, <1>10 DEF Next, CallerStep

(* The expiry is set only after the token is.                              *)
LEMMA TokenBeforeExpiry ==
  ASSUME IInv, [Next]_vars
  PROVE  (accessToken = Nil => expiry = Nil)'
<1> USE DEF IInv, TypeOK, Progress
<1>1. ASSUME NEW c \in Callers, CallerStep(c) PROVE (accessToken = Nil => expiry = Nil)'
  <2>1. CASE StoreToken(c)
    BY <2>1 DEF StoreToken
  <2>2. CASE StoreExpiry(c)
    BY <2>2 DEF StoreExpiry
  <2>3. CASE UNCHANGED <<accessToken, expiry>>
    BY <2>3
  <2> QED BY <1>1, <2>1, <2>2, <2>3 DEF CallerStep, CallWithoutCredentials, Call, Check,
             Request, RequestError, ReturnToken
<1>2. CASE Tick
  BY <1>2 DEF Tick
<1>3. CASE UNCHANGED vars
  BY <1>3 DEF vars
<1> QED BY <1>1, <1>2, <1>3 DEF Next

(* As long as refreshes do not overlap the two fields stay in step.        *)
LEMMA InStepStep ==
  ASSUME IInv, [Next]_vars, ~overlapped'
  PROVE  InStep'
<1> USE TokenAssumption DEF IInv, TypeOK, Progress, CallerPc, InStep, OneRefresh,
     NotGoodYet, FieldsAgree, AboutToReturn, Refreshing, NeedsRefresh
<1>1. ASSUME NEW c \in Callers, CallWithoutCredentials(c) PROVE InStep'
  BY <1>1 DEF CallWithoutCredentials
<1>2. ASSUME NEW c \in Callers, Call(c) PROVE InStep'
  <2>1. OneRefresh'
    <3>1. CASE accessToken = Nil
      <4>1. \A d \in Callers \ {c} : ~Refreshing(d)
        BY <1>2, <3>1 DEF Call, BeginRefresh
      <4>2. \A d \in Callers \ {c} : ~Refreshing(d)'
        BY <1>2, <3>1, <4>1 DEF Call, BeginRefresh
      <4> QED BY <4>2
    <3>2. CASE accessToken # Nil
      BY <1>2, <3>2 DEF Call
    <3> QED BY <3>1, <3>2
  <2>2. NotGoodYet'
    BY <1>2 DEF Call, BeginRefresh
  <2>3. FieldsAgree'
    BY <1>2 DEF Call, BeginRefresh
  <2>4. AboutToReturn'
    BY <1>2 DEF Call, BeginRefresh
  <2> QED BY <2>1, <2>2, <2>3, <2>4
<1>3. ASSUME NEW c \in Callers, Check(c) PROVE InStep'
  <2>1. OneRefresh'
    <3>1. CASE NeedsRefresh
      <4>1. \A d \in Callers \ {c} : ~Refreshing(d)
        BY <1>3, <3>1 DEF Check, BeginRefresh
      <4>2. \A d \in Callers \ {c} : ~Refreshing(d)'
        BY <1>3, <3>1, <4>1 DEF Check, BeginRefresh
      <4> QED BY <4>2
    <3>2. CASE ~NeedsRefresh
      BY <1>3, <3>2 DEF Check
    <3> QED BY <3>1, <3>2
  <2>2. NotGoodYet'
    BY <1>3 DEF Check, BeginRefresh
  <2>3. FieldsAgree'
    BY <1>3 DEF Check, BeginRefresh
  <2>4. AboutToReturn'
    BY <1>3 DEF Check, BeginRefresh
  <2> QED BY <2>1, <2>2, <2>3, <2>4
<1>4. ASSUME NEW c \in Callers, Request(c) PROVE InStep'
  <2>1. OneRefresh'
    BY <1>4 DEF Request
  <2>2. NotGoodYet' /\ FieldsAgree'
    BY <1>4 DEF Request
  <2>3. AboutToReturn'
    BY <1>4 DEF Request
  <2> QED BY <2>1, <2>2, <2>3
<1>5. ASSUME NEW c \in Callers, RequestError(c) PROVE InStep'
  BY <1>5 DEF RequestError
<1>6. ASSUME NEW c \in Callers, StoreToken(c) PROVE InStep'
  BY <1>6 DEF StoreToken
<1>7. ASSUME NEW c \in Callers, StoreExpiry(c) PROVE InStep'
  <2>1. OneRefresh'
    BY <1>7 DEF StoreExpiry
  <2>2. NotGoodYet'
    BY <1>7 DEF StoreExpiry
  <2>3. FieldsAgree'
    BY <1>7 DEF StoreExpiry
  <2>4. AboutToReturn'
    BY <1>7 DEF StoreExpiry
  <2> QED BY <2>1, <2>2, <2>3, <2>4
<1>8. ASSUME NEW c \in Callers, ReturnToken(c) PROVE InStep'
  BY <1>8 DEF ReturnToken
<1>9. CASE Tick
  BY <1>9 DEF Tick
<1>10. CASE UNCHANGED vars
  BY <1>10 DEF vars
<1> QED BY <1>1, <1>2, <1>3, <1>4, <1>5, <1>6, <1>7, <1>8, <1>9, <1>10 DEF Next, CallerStep

(* A result is set by ReturnToken alone and stays as fresh as it was.      *)
LEMMA FreshStep ==
  ASSUME IInv, [Next]_vars
  PROVE  FreshUnlessOverlapped'
<1> USE TokenAssumption DEF IInv, TypeOK, Progress, CallerPc, FreshUnlessOverlapped, Fresh
<1>1. ASSUME NEW c \in Callers, CallWithoutCredentials(c) PROVE FreshUnlessOverlapped'
  BY <1>1 DEF CallWithoutCredentials
<1>2. ASSUME NEW c \in Callers, Call(c) PROVE FreshUnlessOverlapped'
  BY <1>2 DEF Call, BeginRefresh
<1>3. ASSUME NEW c \in Callers, Check(c) PROVE FreshUnlessOverlapped'
  BY <1>3 DEF Check, BeginRefresh
<1>4. ASSUME NEW c \in Callers, Request(c) PROVE FreshUnlessOverlapped'
  <2> SUFFICES ASSUME ~overlapped', NEW d \in Callers, result'[d] \in Token' PROVE Fresh(d)'
    OBVIOUS
  <2>1. d # c /\ result[d] \in Token /\ result'[d] = result[d]
    <3>1. result[c] = Nil
      BY <1>4 DEF Request
    <3>2. result'[d] = result[d] /\ result[d] \in Token \cup {Nil, Empty}
      BY <1>4 DEF Request
    <3>3. Len(exp') \in Nat /\ result'[d] \in 1..Len(exp')
      BY <1>4 DEF Request
    <3>4. result[d] # Nil /\ result[d] # Empty
      BY <3>2, <3>3
    <3> QED BY <3>1, <3>2, <3>4
  <2>2. \A n \in Token : exp'[n] = exp[n]
    BY <1>4 DEF Request
  <2>3. Fresh(d)
    BY <1>4, <2>1 DEF Request
  <2> QED BY <1>4, <2>1, <2>2, <2>3 DEF Request
<1>5. ASSUME NEW c \in Callers, RequestError(c) PROVE FreshUnlessOverlapped'
  BY <1>5 DEF RequestError
<1>6. ASSUME NEW c \in Callers, StoreToken(c) PROVE FreshUnlessOverlapped'
  BY <1>6 DEF StoreToken
<1>7. ASSUME NEW c \in Callers, StoreExpiry(c) PROVE FreshUnlessOverlapped'
  BY <1>7 DEF StoreExpiry
<1>8. ASSUME NEW c \in Callers, ReturnToken(c) PROVE FreshUnlessOverlapped'
  <2> SUFFICES ASSUME ~overlapped', NEW d \in Callers, result'[d] \in Token' PROVE Fresh(d)'
    OBVIOUS
  <2>1. AboutToReturn /\ ~overlapped
    BY <1>8 DEF ReturnToken, InStep
  <2>2. CASE d = c
    BY <1>8, <2>1, <2>2 DEF ReturnToken, AboutToReturn
  <2>3. CASE d # c
    BY <1>8, <2>1, <2>3 DEF ReturnToken
  <2> QED BY <2>2, <2>3
<1>9. CASE Tick
  BY <1>9 DEF Tick
<1>10. CASE UNCHANGED vars
  BY <1>10 DEF vars
<1> QED BY <1>1, <1>2, <1>3, <1>4, <1>5, <1>6, <1>7, <1>8, <1>9, <1>10 DEF Next, CallerStep

(* The invariant holds in every reachable state.                           *)
LEMMA TokenInvariance == Spec => []IInv
<1>1. IInv /\ [Next]_vars => IInv'
  <2> SUFFICES ASSUME IInv, [Next]_vars PROVE IInv'
    OBVIOUS
  <2>1. TypeOK' BY TypeStep DEF IInv
  <2>2. Progress' BY ProgressStep DEF IInv
  <2>3. (accessToken = Nil => expiry = Nil)' BY TokenBeforeExpiry
  <2>4. (~overlapped => InStep)' BY InStepStep
  <2>5. FreshUnlessOverlapped' BY FreshStep
  <2> QED BY <2>1, <2>2, <2>3, <2>4, <2>5 DEF IInv
<1> QED BY InitIInv, <1>1, PTL DEF Spec

-----------------------------------------------------------------------------
(* GetAccessToken never reports success with a nil token, which its        *)
(* callers would dereference.                                              *)
THEOREM TokenNeverNil == Spec => []NeverReturnsNil
<1>1. IInv => NeverReturnsNil
  BY DEF IInv, Progress, NeverReturnsNil
<1> QED BY TokenInvariance, <1>1, PTL

(* Without two overlapping refreshes nobody gets a token that had expired  *)
(* when its expiry was checked, unless the server had only that to give.   *)
THEOREM TokenFresh == Spec => []FreshUnlessOverlapped
<1>1. IInv => FreshUnlessOverlapped
  BY DEF IInv
<1> QED BY TokenInvariance, <1>1, PTL
=============================================================================
