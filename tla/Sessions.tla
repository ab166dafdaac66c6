------------------------------ MODULE Sessions ------------------------------
(***************************************************************************)
(* Logging in: user.Login at several replicas, the proxy with its cache of *)
(* replies, and auth's DeliverTokenByRPC and VerifyTokenByRPC.  A reply is *)
(* cached under the request, which names the user alone, so a login may be *)
(* given the token another was given minutes ago.                          *)
(***************************************************************************)
EXTENDS Naturals

CONSTANTS
  Login,      \* calls of Login
  User,       \* rows of the table of users
  None,       \* no user, no token, no reply
  CallTime,   \* hystrix's timeout
  CacheLife,  \* how long a reply is cached
  TokenLife,  \* how long a token is accepted
  MaxClock    \* bound on the time

ASSUME SessionsAssumption ==
  /\ None \notin User
  /\ CallTime \in Nat /\ CacheLife \in Nat /\ TokenLife \in Nat /\ MaxClock \in Nat
  /\ CallTime + CacheLife < TokenLife

VARIABLES
  clock,
  pc,        \* where each login is
  user,      \* whose row it has found, and whose password was right
  began,     \* when it called auth
  call,      \* the call it made: "none", "asked", "signed" or "done"
  token,     \* the token signed for it, or handed to it
  cache,     \* the cached reply of each user, and how long it is kept
  issued,    \* history: the tokens signed
  answered   \* history: when it was answered

caller == <<pc, user, began, answered>>
vars == <<clock, caller, call, token, cache, issued>>

Time == 0..MaxClock
Token == [user : User, at : Time]
Reply == [token : Token, until : Nat]

Init ==
  /\ clock = 0
  /\ pc = [l \in Login |-> "idle"]
  /\ user = [l \in Login |-> None]
  /\ began = [l \in Login |-> 0]
  /\ answered = [l \in Login |-> 0]
  /\ call = [l \in Login |-> "none"]
  /\ token = [l \in Login |-> None]
  /\ cache = [u \in User |-> None]
  /\ issued = {}

(* A bad parameter, an unknown email, a wrong password, a failed lookup.   *)
Refuse(l) ==
  /\ pc[l] = "idle"
  /\ pc' = [pc EXCEPT ![l] = "error"]
  /\ UNCHANGED <<clock, user, began, answered, call, token, cache, issued>>

FindUser(l, u) ==
  /\ pc[l] = "idle"
  /\ pc' = [pc EXCEPT ![l] = "found"]
  /\ user' = [user EXCEPT ![l] = u]
  /\ UNCHANGED <<clock, began, answered, call, token, cache, issued>>

(* Mutant: the request that makes the key does not name the user. *)
CacheKeyShared(l) == CHOOSE u \in User : TRUE
CacheKey(l) == user[l]
Cached(l) == cache[CacheKey(l)] # None /\ clock < cache[CacheKey(l)].until

(* The cached reply is a map; Login takes the token out of it.             *)
Hit(l) ==
  /\ pc[l] = "found"
  /\ Cached(l)
  /\ pc' = [pc EXCEPT ![l] = "ok"]
  /\ token' = [token EXCEPT ![l] = cache[CacheKey(l)].token]
  /\ answered' = [answered EXCEPT ![l] = clock]
  /\ UNCHANGED <<clock, user, began, call, cache, issued>>

(* Nothing is cached, or Redis does not answer.                            *)
Call(l) ==
  /\ pc[l] = "found"
  /\ pc' = [pc EXCEPT ![l] = "wait"]
  /\ began' = [began EXCEPT ![l] = clock]
  /\ call' = [call EXCEPT ![l] = "asked"]
  /\ UNCHANGED <<clock, user, answered, token, cache, issued>>

(* Mutant: the token carries its expiry as the time it was signed. *)
SignExpiry(l) ==
  /\ call[l] = "asked"
  /\ LET t == [user |-> user[l], at |-> clock + TokenLife] IN
       /\ token' = [token EXCEPT ![l] = t]
       /\ issued' = issued \cup {t}
  /\ call' = [call EXCEPT ![l] = "signed"]
  /\ UNCHANGED <<clock, caller, cache>>

Sign(l) ==
  /\ call[l] = "asked"
  /\ LET t == [user |-> user[l], at |-> clock] IN
       /\ token' = [token EXCEPT ![l] = t]
       /\ issued' = issued \cup {t}
  /\ call' = [call EXCEPT ![l] = "signed"]
  /\ UNCHANGED <<clock, caller, cache>>

(* Mutant: the reply is cached for good. *)
StoreForGood(l) ==
  /\ call[l] = "signed"
  /\ pc[l] \in {"wait", "failing"}
  /\ call' = [call EXCEPT ![l] = "done"]
  /\ cache' = [cache EXCEPT ![CacheKey(l)] = [token |-> token[l], until |-> MaxClock + 1]]
  /\ UNCHANGED <<clock, caller, token, issued>>

(* Mutant: the context outlives the login. *)
StoreLate(l) ==
  /\ call[l] = "signed"
  /\ call' = [call EXCEPT ![l] = "done"]
  /\ cache' = [cache EXCEPT ![CacheKey(l)] = [token |-> token[l], until |-> clock + CacheLife]]
  /\ UNCHANGED <<clock, caller, token, issued>>

(* doCall has returned: the reply is cached, unless Redis fails.  The      *)
(* context is the login's own, and is cancelled once that has returned.    *)
Store(l) ==
  /\ call[l] = "signed"
  /\ pc[l] \in {"wait", "failing"}
  /\ call' = [call EXCEPT ![l] = "done"]
  /\ cache' \in {cache, [cache EXCEPT ![CacheKey(l)] =
                           [token |-> token[l], until |-> clock + CacheLife]]}
  /\ UNCHANGED <<clock, caller, token, issued>>

Return(l) ==
  /\ pc[l] = "wait"
  /\ call[l] = "done"
  /\ pc' = [pc EXCEPT ![l] = "ok"]
  /\ answered' = [answered EXCEPT ![l] = clock]
  /\ UNCHANGED <<clock, user, began, call, token, cache, issued>>

(* Mutant: a call that does not answer is waited for. *)
GiveUpAnswered(l) ==
  /\ pc[l] = "wait"
  /\ call[l] # "asked"
  /\ pc' = [pc EXCEPT ![l] = "failing"]
  /\ UNCHANGED <<clock, user, began, answered, call, token, cache, issued>>

(* The call failed, was refused by hystrix or takes too long; until Login  *)
(* has returned the call goes on.                                          *)
GiveUp(l) ==
  /\ pc[l] = "wait"
  /\ pc' = [pc EXCEPT ![l] = "failing"]
  /\ UNCHANGED <<clock, user, began, answered, call, token, cache, issued>>

ReturnError(l) ==
  /\ pc[l] = "failing"
  /\ pc' = [pc EXCEPT ![l] = "error"]
  /\ UNCHANGED <<clock, user, began, answered, call, token, cache, issued>>

(* hystrix's timer is not late: no call outlasts its time.                 *)
Overdue(l) == pc[l] \in {"wait", "failing"} /\ clock = began[l] + CallTime

Tick ==
  /\ clock < MaxClock
  /\ \A l \in Login : ~Overdue(l)
  /\ clock' = clock + 1
  /\ UNCHANGED <<caller, call, token, cache, issued>>

LoginStep(l) == Hit(l) \/ Call(l) \/ Return(l) \/ GiveUp(l) \/ ReturnError(l)

Next ==
  \/ Tick
  \/ \E l \in Login :
       \/ Refuse(l) \/ (\E u \in User : FindUser(l, u))
       \/ LoginStep(l) \/ Sign(l) \/ Store(l)

Spec == Init /\ [][Next]_vars

(* A login's own goroutine and hystrix's timer run; nothing is assumed of  *)
(* auth, of Redis or of time.                                              *)
LiveSpec == Spec /\ \A l \in Login : WF_vars(LoginStep(l))
-----------------------------------------------------------------------------
(* VerifyTokenByRPC: the signature is right and the token has not expired. *)
Verifies(t, time) == t \in issued /\ time <= t.at + TokenLife

Age == CallTime + CacheLife

TypeOK ==
  /\ clock \in Time
  /\ pc \in [Login -> {"idle", "found", "wait", "failing", "ok", "error"}]
  /\ user \in [Login -> User \cup {None}]
  /\ began \in [Login -> Time]
  /\ answered \in [Login -> Time]
  /\ call \in [Login -> {"none", "asked", "signed", "done"}]
  /\ token \in [Login -> Token \cup {None}]
  /\ cache \in [User -> Reply \cup {None}]
  /\ issued \subseteq Token

(* The token of a call is its login's own, signed since the call began.    *)
CallsAreOwn ==
  \A l \in Login :
    /\ pc[l] \notin {"idle", "error"} => user[l] # None
    /\ pc[l] = "idle" => user[l] = None /\ call[l] = "none"
    /\ call[l] # "none" => pc[l] # "found" /\ user[l] # None /\ began[l] <= clock
    /\ call[l] \in {"asked", "signed"} => pc[l] # "ok"
    /\ pc[l] \in {"wait", "failing"} => call[l] # "none" /\ clock <= began[l] + CallTime
    /\ call[l] \in {"signed", "done"} =>
         token[l] \in issued /\ token[l].user = user[l] /\ began[l] <= token[l].at

(* A reply is cached under its own user, and for no longer than CacheLife  *)
(* after the call that brought it (proxy.go:80-100, 126-133).              *)
CacheIsOwn ==
  \A u \in User : cache[u] # None =>
    /\ cache[u].token \in issued /\ cache[u].token.user = u
    /\ cache[u].until <= cache[u].token.at + Age

(* A login that succeeded has a token of the user whose password it knew,  *)
(* be it one that another login was given.                                 *)
TokensAreOwn ==
  \A l \in Login : pc[l] = "ok" =>
    /\ token[l] \in issued /\ token[l].user = user[l]
    /\ answered[l] <= token[l].at + Age

SessionInv == CallsAreOwn /\ CacheIsOwn /\ TokensAreOwn

(* However old the reply a login is answered from, and however late that   *)
(* entered the cache, its token is accepted for the rest of its life less  *)
(* five minutes and a timeout.                                             *)
TokensLast ==
  \A l \in Login : pc[l] = "ok" => Verifies(token[l], answered[l] + (TokenLife - Age))

(* Logging in is a TokenDesk: what the cache gives out in place of auth is *)
(* a token of the same user that is not much older.                        *)
Desk == INSTANCE TokenDesk WITH
  now <- clock,
  who <- user,
  given <- [l \in Login |-> IF pc[l] = "ok" THEN token[l] ELSE None]

ImplementsDesk == Desk!Spec

(* Every login whose user was found is answered, whether auth answers or   *)
(* not (proxy.go:86).                                                      *)
LoginAnswered == \A l \in Login : pc[l] = "found" ~> pc[l] \in {"ok", "error"}
=============================================================================
