--------------------------- MODULE SessionsProofs ---------------------------
(***************************************************************************)
(* Proofs about Sessions: a login is given a token of its own user that is *)
(* not older than a cached reply can be, and Sessions implements           *)
(* TokenDesk, for any logins, users and times.                             *)
(***************************************************************************)
EXTENDS Sessions, TLAPS

USE SessionsAssumption

(* TypeOK alone is not inductive: whom a token is signed for is a user     *)
(* because a call is made only once a user has been found.                 *)
IndInv == TypeOK /\ SessionInv

LEMMA InitInv == Init => IndInv
BY DEF Init, IndInv, TypeOK, SessionInv, CallsAreOwn, CacheIsOwn, TokensAreOwn, Time

(* What a login that has found its user knows.                             *)
LEMMA OwnUser ==
  ASSUME IndInv, NEW l \in Login, pc[l] = "found" \/ call[l] # "none"
  PROVE  user[l] \in User
BY DEF IndInv, TypeOK, SessionInv, CallsAreOwn

LEMMA CachedReply ==
  ASSUME IndInv, NEW l \in Login, pc[l] = "found", Cached(l)
  PROVE  LET r == cache[user[l]] IN
         /\ r \in Reply /\ r.token \in Token /\ r.token \in issued
         /\ r.token.user = user[l]
         /\ clock < r.until /\ r.until <= r.token.at + Age
<1>1. user[l] \in User  BY OwnUser
<1>2. cache[user[l]] # None /\ clock < cache[user[l]].until  BY DEF Cached, CacheKey
<1>3. cache[user[l]] \in Reply  BY <1>1, <1>2 DEF IndInv, TypeOK
<1>4. cache[user[l]].token \in Token  BY <1>3 DEF Reply
<1> QED  BY <1>1, <1>2, <1>3, <1>4 DEF IndInv, SessionInv, CacheIsOwn

-----------------------------------------------------------------------------
(* Each action keeps the invariant.                                        *)
LEMMA TickKeeps ==
  ASSUME IndInv, Tick
  PROVE  IndInv'
<1>1. clock \in Time /\ clock' = clock + 1 /\ clock' \in Time
  BY DEF IndInv, TypeOK, Tick, Time
<1>2. /\ pc' = pc /\ user' = user /\ began' = began /\ answered' = answered
      /\ call' = call /\ token' = token /\ cache' = cache /\ issued' = issued
  BY DEF Tick, caller
<1>3. ASSUME NEW l \in Login
      PROVE  /\ began[l] <= clock => began[l] <= clock'
             /\ pc[l] \in {"wait", "failing"} => clock' <= began[l] + CallTime
  <2>1. pc[l] \in {"wait", "failing"} => clock <= began[l] + CallTime /\ clock # began[l] + CallTime
    BY DEF IndInv, SessionInv, CallsAreOwn, Tick, Overdue
  <2>2. began[l] \in Nat /\ clock \in Nat /\ CallTime \in Nat  BY DEF IndInv, TypeOK, Time
  <2> QED  BY <1>1, <2>1, <2>2
<1>4. TypeOK'  BY <1>1, <1>2 DEF IndInv, TypeOK
<1>5. CallsAreOwn'  BY <1>2, <1>3 DEF IndInv, SessionInv, CallsAreOwn
<1>6. CacheIsOwn' /\ TokensAreOwn'  BY <1>2 DEF IndInv, SessionInv, CacheIsOwn, TokensAreOwn, Age
<1> QED  BY <1>4, <1>5, <1>6 DEF IndInv, SessionInv

LEMMA RefuseKeeps ==
  ASSUME IndInv, NEW l \in Login, Refuse(l)
  PROVE  IndInv'
<1>1. TypeOK'  BY DEF IndInv, TypeOK, Refuse
<1>2. CallsAreOwn'  BY DEF IndInv, TypeOK, SessionInv, CallsAreOwn, Refuse
<1>3. CacheIsOwn'  BY DEF IndInv, SessionInv, CacheIsOwn, Refuse, Age
<1>4. TokensAreOwn'  BY DEF IndInv, TypeOK, SessionInv, TokensAreOwn, Refuse, Age
<1> QED  BY <1>1, <1>2, <1>3, <1>4 DEF IndInv, SessionInv

LEMMA FindUserKeeps ==
  ASSUME IndInv, NEW l \in Login, NEW u \in User, FindUser(l, u)
  PROVE  IndInv'
<1>1. TypeOK'  BY DEF IndInv, TypeOK, FindUser
<1>2. CallsAreOwn'  BY DEF IndInv, TypeOK, SessionInv, CallsAreOwn, FindUser
<1>3. CacheIsOwn'  BY DEF IndInv, SessionInv, CacheIsOwn, FindUser, Age
<1>4. TokensAreOwn'  BY DEF IndInv, TypeOK, SessionInv, TokensAreOwn, FindUser, Age
<1> QED  BY <1>1, <1>2, <1>3, <1>4 DEF IndInv, SessionInv

LEMMA HitKeeps ==
  ASSUME IndInv, NEW l \in Login, Hit(l)
  PROVE  IndInv'
<1>1. pc[l] = "found" /\ Cached(l)  BY DEF Hit
<1> DEFINE t == cache[user[l]].token
<1>2. t \in Token /\ t \in issued /\ t.user = user[l] /\ clock <= t.at + Age
  <2>1. clock \in Nat /\ cache[user[l]].until \in Nat /\ t.at \in Nat /\ Age \in Nat
    BY <1>1, CachedReply DEF IndInv, TypeOK, Reply, Token, Time, Age
  <2> QED  BY <1>1, <2>1, CachedReply
<1>3. /\ token' = [token EXCEPT ![l] = t] /\ pc' = [pc EXCEPT ![l] = "ok"]
      /\ answered' = [answered EXCEPT ![l] = clock] /\ clock' = clock /\ user' = user
      /\ began' = began /\ call' = call /\ cache' = cache /\ issued' = issued
  BY DEF Hit, CacheKey
<1> HIDE DEF t
<1>4. TypeOK'  BY <1>2, <1>3 DEF IndInv, TypeOK
<1>5. CallsAreOwn'  BY <1>1, <1>3 DEF IndInv, TypeOK, SessionInv, CallsAreOwn
<1>6. CacheIsOwn'  BY <1>3 DEF IndInv, SessionInv, CacheIsOwn, Age
<1>7. TokensAreOwn'  BY <1>2, <1>3 DEF IndInv, TypeOK, SessionInv, TokensAreOwn, Age
<1> QED  BY <1>4, <1>5, <1>6, <1>7 DEF IndInv, SessionInv

LEMMA CallKeeps ==
  ASSUME IndInv, NEW l \in Login, Call(l)
  PROVE  IndInv'
<1>1. TypeOK'  BY DEF IndInv, TypeOK, Call
<1>2. CallsAreOwn'
  <2>1. user[l] # None  BY OwnUser DEF Call
  <2>2. clock <= clock + CallTime /\ clock <= clock  BY DEF IndInv, TypeOK, Time
  <2> QED  BY <2>1, <2>2 DEF IndInv, TypeOK, SessionInv, CallsAreOwn, Call
<1>3. CacheIsOwn'  BY DEF IndInv, SessionInv, CacheIsOwn, Call, Age
<1>4. TokensAreOwn'  BY DEF IndInv, TypeOK, SessionInv, TokensAreOwn, Call, Age
<1> QED  BY <1>1, <1>2, <1>3, <1>4 DEF IndInv, SessionInv

LEMMA SignKeeps ==
  ASSUME IndInv, NEW l \in Login, Sign(l)
  PROVE  IndInv'
<1> DEFINE t == [user |-> user[l], at |-> clock]
<1>1. call[l] = "asked" /\ user[l] \in User /\ pc[l] # "ok"
  BY OwnUser DEF Sign, IndInv, SessionInv, CallsAreOwn
<1>2. t \in Token /\ t.user = user[l] /\ t.at = clock  BY <1>1 DEF IndInv, TypeOK, Token
<1>3. /\ token' = [token EXCEPT ![l] = t] /\ issued' = issued \cup {t}
      /\ call' = [call EXCEPT ![l] = "signed"] /\ pc' = pc /\ user' = user
      /\ began' = began /\ answered' = answered /\ clock' = clock /\ cache' = cache
  BY DEF Sign, caller
<1> HIDE DEF t
<1>4. TypeOK'  BY <1>2, <1>3 DEF IndInv, TypeOK
<1>5. CallsAreOwn'  BY <1>1, <1>2, <1>3 DEF IndInv, TypeOK, SessionInv, CallsAreOwn
<1>6. CacheIsOwn'  BY <1>3 DEF IndInv, SessionInv, CacheIsOwn, Age
<1>7. TokensAreOwn'  BY <1>1, <1>3 DEF IndInv, TypeOK, SessionInv, TokensAreOwn, Age
<1> QED  BY <1>4, <1>5, <1>6, <1>7 DEF IndInv, SessionInv

LEMMA StoreKeeps ==
  ASSUME IndInv, NEW l \in Login, Store(l)
  PROVE  IndInv'
<1> DEFINE u == user[l]
           r == [token |-> token[l], until |-> clock + CacheLife]
<1>1. call[l] = "signed" /\ pc[l] \in {"wait", "failing"} /\ u \in User
  BY OwnUser DEF Store
<1>2. /\ token[l] \in Token /\ token[l] \in issued /\ token[l].user = u
      /\ began[l] <= token[l].at /\ clock <= began[l] + CallTime
  BY <1>1 DEF IndInv, TypeOK, SessionInv, CallsAreOwn
<1>3. clock \in Nat /\ token[l].at \in Nat /\ began[l] \in Nat
  BY <1>2 DEF IndInv, TypeOK, Token, Time
<1>5. r \in Reply  BY <1>2, <1>3 DEF Reply
<1>6. r.token = token[l] /\ r.until <= token[l].at + Age  BY <1>2, <1>3 DEF Age
<1>7. /\ cache' \in {cache, [cache EXCEPT ![u] = r]}
      /\ call' = [call EXCEPT ![l] = "done"] /\ pc' = pc /\ user' = user
      /\ began' = began /\ answered' = answered /\ clock' = clock /\ token' = token
      /\ issued' = issued
  BY DEF Store, caller, CacheKey
<1> HIDE DEF r, u
<1>8. TypeOK'  BY <1>1, <1>5, <1>7 DEF IndInv, TypeOK
<1>9. CallsAreOwn'  BY <1>1, <1>7 DEF IndInv, TypeOK, SessionInv, CallsAreOwn
<1>10. CacheIsOwn'
  <2> SUFFICES ASSUME NEW v \in User, cache'[v] # None
               PROVE  /\ cache'[v].token \in issued /\ cache'[v].token.user = v
                      /\ cache'[v].until <= cache'[v].token.at + Age
    BY <1>7 DEF CacheIsOwn, Age
  <2>1. CASE cache'[v] = cache[v]  BY <2>1 DEF IndInv, SessionInv, CacheIsOwn
  <2>2. CASE cache'[v] # cache[v]
    <3>1. v = u /\ cache'[v] = r  BY <1>7, <2>2 DEF IndInv, TypeOK
    <3> QED  BY <1>2, <1>6, <3>1
  <2> QED  BY <2>1, <2>2
<1>11. TokensAreOwn'  BY <1>7 DEF IndInv, SessionInv, TokensAreOwn, Age
<1> QED  BY <1>8, <1>9, <1>10, <1>11 DEF IndInv, SessionInv

LEMMA ReturnKeeps ==
  ASSUME IndInv, NEW l \in Login, Return(l)
  PROVE  IndInv'
<1>1. /\ token[l] \in Token /\ token[l] \in issued /\ token[l].user = user[l]
      /\ began[l] <= token[l].at /\ clock <= began[l] + CallTime
  BY DEF Return, IndInv, TypeOK, SessionInv, CallsAreOwn
<1>2. clock \in Nat /\ token[l].at \in Nat /\ began[l] \in Nat
  BY <1>1 DEF IndInv, TypeOK, Token, Time
<1>3. clock <= token[l].at + Age  BY <1>1, <1>2 DEF Age
<1>4. TypeOK'  BY DEF IndInv, TypeOK, Return
<1>5. CallsAreOwn'  BY DEF IndInv, TypeOK, SessionInv, CallsAreOwn, Return
<1>6. CacheIsOwn'  BY DEF IndInv, SessionInv, CacheIsOwn, Return, Age
<1>7. TokensAreOwn'
  <2> SUFFICES ASSUME NEW k \in Login, pc'[k] = "ok"
               PROVE  /\ token[k] \in issued /\ token[k].user = user[k]
                      /\ answered'[k] <= token[k].at + Age
    BY DEF TokensAreOwn, Return, Age
  <2>1. CASE k = l  BY <1>1, <1>3, <2>1 DEF Return, IndInv, TypeOK
  <2>2. CASE k # l  BY <2>2 DEF Return, IndInv, TypeOK, SessionInv, TokensAreOwn
  <2> QED  BY <2>1, <2>2
<1> QED  BY <1>4, <1>5, <1>6, <1>7 DEF IndInv, SessionInv

LEMMA GiveUpKeeps ==
  ASSUME IndInv, NEW l \in Login, GiveUp(l) \/ ReturnError(l)
  PROVE  IndInv'
<1>1. TypeOK'  BY DEF IndInv, TypeOK, GiveUp, ReturnError
<1>2. CallsAreOwn'  BY DEF IndInv, TypeOK, SessionInv, CallsAreOwn, GiveUp, ReturnError
<1>3. CacheIsOwn'  BY DEF IndInv, SessionInv, CacheIsOwn, GiveUp, ReturnError, Age
<1>4. TokensAreOwn'
  BY DEF IndInv, TypeOK, SessionInv, TokensAreOwn, GiveUp, ReturnError, Age
<1> QED  BY <1>1, <1>2, <1>3, <1>4 DEF IndInv, SessionInv

LEMMA StepInv == IndInv /\ [Next]_vars => IndInv'
<1> SUFFICES ASSUME IndInv, [Next]_vars  PROVE  IndInv'
  OBVIOUS
<1>1. CASE Tick  BY <1>1, TickKeeps
<1>2. ASSUME NEW l \in Login, Refuse(l)  PROVE  IndInv'  BY <1>2, RefuseKeeps
<1>3. ASSUME NEW l \in Login, NEW u \in User, FindUser(l, u)  PROVE  IndInv'
  BY <1>3, FindUserKeeps
<1>4. ASSUME NEW l \in Login, LoginStep(l)  PROVE  IndInv'
  BY <1>4, HitKeeps, CallKeeps, ReturnKeeps, GiveUpKeeps DEF LoginStep
<1>5. ASSUME NEW l \in Login, Sign(l)  PROVE  IndInv'  BY <1>5, SignKeeps
<1>6. ASSUME NEW l \in Login, Store(l)  PROVE  IndInv'  BY <1>6, StoreKeeps
<1>7. CASE UNCHANGED vars
  BY <1>7 DEF vars, caller, IndInv, TypeOK, SessionInv, CallsAreOwn, CacheIsOwn, TokensAreOwn, Age
<1> QED  BY <1>1, <1>2, <1>3, <1>4, <1>5, <1>6, <1>7 DEF Next

(* All of it together.                                                     *)
THEOREM Invariance == Spec => []IndInv
BY InitInv, StepInv, PTL DEF Spec

(* Type correctness: tokens and cached replies are of users, within the    *)
(* time that has passed (login.go, jwt.go, proxy.go:126-133).              *)
THEOREM TypeCorrect == Spec => []TypeOK
<1>1. IndInv => TypeOK  BY DEF IndInv
<1> QED  BY <1>1, Invariance, PTL

(* Calls, cached replies and the tokens given out are of the login's own   *)
(* user (login.go:62-91), and no cached reply outlives its token's age.    *)
THEOREM SessionsAreOwn == Spec => []SessionInv
<1>1. IndInv => SessionInv  BY DEF IndInv
<1> QED  BY <1>1, Invariance, PTL

(* VerifyTokenByRPC accepts a token that was given out for the rest of its *)
(* life, less the age a cached reply can have (jwt.go:12-32).              *)
THEOREM TokensStayValid == Spec => []TokensLast
<1>1. ASSUME IndInv  PROVE  TokensLast
  <2> SUFFICES ASSUME NEW l \in Login, pc[l] = "ok"
               PROVE  Verifies(token[l], answered[l] + (TokenLife - Age))
    BY DEF TokensLast
  <2>1. token[l] \in issued /\ answered[l] <= token[l].at + Age
    BY <1>1 DEF IndInv, SessionInv, TokensAreOwn
  <2>2. token[l] \in Token  BY <1>1, <2>1 DEF IndInv, TypeOK
  <2>3. token[l].at \in Nat /\ answered[l] \in Nat /\ Age \in Nat /\ TokenLife \in Nat
    BY <1>1, <2>2 DEF IndInv, TypeOK, Token, Time, Age
  <2>4. answered[l] + (TokenLife - Age) <= token[l].at + TokenLife  BY <2>1, <2>3
  <2> QED  BY <2>1, <2>4 DEF Verifies
<1> QED  BY <1>1, Invariance, PTL

-----------------------------------------------------------------------------
(* Sessions implements TokenDesk.                                          *)
Given == [l \in Login |-> IF pc[l] = "ok" THEN token[l] ELSE None]

LEMMA DeskInit == Init => Desk!Init
BY DEF Init, Desk!Init

(* A step at which no user is found and no token signed or given.          *)
LEMMA DeskStutters ==
  ASSUME clock' = clock, issued' = issued, user' = user, Given' = Given
  PROVE  UNCHANGED Desk!vars
BY DEF Desk!vars, Given

LEMMA DeskGives ==
  ASSUME IndInv, NEW l \in Login, pc[l] # "ok", pc' = [pc EXCEPT ![l] = "ok"],
         clock' = clock, issued' = issued, user' = user,
         \A k \in Login : k # l => token'[k] = token[k],
         NEW t \in issued, token'[l] = t, t.user = user[l], clock <= t.at + Age
  PROVE  Desk!Next
<1>1. Given[l] = None  BY DEF Given
<1>2. ASSUME NEW k \in Login
      PROVE  Given'[k] = IF k = l THEN t ELSE Given[k]
  BY DEF Given, IndInv, TypeOK
<1>3. Given' = [Given EXCEPT ![l] = t]  BY <1>2 DEF Given
<1>4. Desk!Give(l, t)  BY <1>1, <1>3 DEF Desk!Give, Given
<1> QED  BY <1>4 DEF Desk!Next

LEMMA DeskStep ==
  ASSUME IndInv, [Next]_vars
  PROVE  [Desk!Next]_(Desk!vars)
<1>1. CASE Tick
  <2>1. Given' = Given  BY <1>1 DEF Tick, caller, Given
  <2>2. Desk!Tick  BY <1>1, <2>1 DEF Tick, caller, Desk!Tick, Given
  <2> QED  BY <2>2 DEF Desk!Next
<1>2. ASSUME NEW l \in Login,
             Refuse(l) \/ Call(l) \/ GiveUp(l) \/ ReturnError(l) \/ Store(l)
      PROVE  UNCHANGED Desk!vars
  <2>1. /\ clock' = clock /\ issued' = issued /\ user' = user /\ token' = token
        /\ \A k \in Login : pc'[k] = "ok" <=> pc[k] = "ok"
    BY <1>2 DEF Refuse, Call, GiveUp, ReturnError, Store, caller, IndInv, TypeOK
  <2>2. Given' = Given  BY <2>1 DEF Given
  <2> QED  BY <2>1, <2>2, DeskStutters
<1>3. ASSUME NEW l \in Login, NEW u \in User, FindUser(l, u)  PROVE  Desk!Next
  <2>1. user[l] = None  BY <1>3 DEF FindUser, IndInv, SessionInv, CallsAreOwn
  <2>2. \A k \in Login : pc'[k] = "ok" <=> pc[k] = "ok"
    BY <1>3 DEF FindUser, IndInv, TypeOK
  <2>3. Given' = Given  BY <1>3, <2>2 DEF Given, FindUser
  <2>4. Desk!Prove(l, u)  BY <1>3, <2>1, <2>3 DEF FindUser, Desk!Prove, Given
  <2> QED  BY <2>4 DEF Desk!Next
<1>4. ASSUME NEW l \in Login, Sign(l)  PROVE  Desk!Next
  <2>1. user[l] \in User /\ pc[l] # "ok"
    BY <1>4, OwnUser DEF Sign, IndInv, SessionInv, CallsAreOwn
  <2>2. \A k \in Login : k # l => token'[k] = token[k]
    BY <1>4 DEF Sign, IndInv, TypeOK
  <2>3. Given' = Given  BY <1>4, <2>1, <2>2 DEF Given, Sign, caller
  <2>4. Desk!Sign(user[l])  BY <1>4, <2>3 DEF Sign, caller, Desk!Sign, Given
  <2> QED  BY <2>1, <2>4 DEF Desk!Next
<1>5. ASSUME NEW l \in Login, Hit(l)  PROVE  Desk!Next
  <2> DEFINE t == cache[user[l]].token
  <2>1. pc[l] = "found" /\ Cached(l)  BY <1>5 DEF Hit
  <2>2. t \in issued /\ t.user = user[l] /\ clock <= t.at + Age
    <3>1. clock \in Nat /\ cache[user[l]].until \in Nat /\ t.at \in Nat /\ Age \in Nat
      BY <2>1, CachedReply DEF IndInv, TypeOK, Reply, Token, Time, Age
    <3> QED  BY <2>1, <3>1, CachedReply
  <2>3. token' = [token EXCEPT ![l] = t]  BY <1>5 DEF Hit, CacheKey
  <2> HIDE DEF t
  <2>4. token'[l] = t /\ \A k \in Login : k # l => token'[k] = token[k]
    BY <2>3 DEF IndInv, TypeOK
  <2> QED  BY <1>5, <2>1, <2>2, <2>4, DeskGives DEF Hit
<1>6. ASSUME NEW l \in Login, Return(l)  PROVE  Desk!Next
  <2>1. /\ token[l] \in Token /\ token[l] \in issued /\ token[l].user = user[l]
        /\ began[l] <= token[l].at /\ clock <= began[l] + CallTime
    BY <1>6 DEF Return, IndInv, TypeOK, SessionInv, CallsAreOwn
  <2>2. clock \in Nat /\ token[l].at \in Nat /\ began[l] \in Nat
    BY <2>1 DEF IndInv, TypeOK, Token, Time
  <2>3. clock <= token[l].at + Age  BY <2>1, <2>2 DEF Age
  <2> QED  BY <1>6, <2>1, <2>3, DeskGives DEF Return
<1>7. CASE UNCHANGED vars
  BY <1>7, DeskStutters DEF vars, caller, Given
<1> QED  BY <1>1, <1>2, <1>3, <1>4, <1>5, <1>6, <1>7 DEF Next, LoginStep

(* Logging in is a TokenDesk: one is given a token of the user whose       *)
(* password one knows, signed by auth no longer ago than a timeout and the *)
(* life of a cached reply (login.go:32-91).                                *)
THEOREM SessionsImplementDesk == Spec => ImplementsDesk
<1>1. Init => Desk!Init  BY DeskInit
<1>2. IndInv /\ [Next]_vars => [Desk!Next]_(Desk!vars)  BY DeskStep
<1> QED  BY <1>1, <1>2, Invariance, PTL DEF Spec, ImplementsDesk, Desk!Spec
=============================================================================
