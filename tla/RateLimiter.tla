---------------------------- MODULE RateLimiter ----------------------------
(***************************************************************************)
(* The gateway's rate limiter on one path: a table of limiters by address  *)
(* and, on the login path, one by email.  A request looks its limiter up   *)
(* under the read lock, creates it under the write lock if there was none, *)
(* and asks it for a token after either lock is released.  The cleanup job *)
(* throws every address's limiter away, whether requests hold it or not;   *)
(* nothing cleans the table of the emails.  What is done under one lock is *)
(* one step.                                                               *)
(***************************************************************************)
EXTENDS Naturals, Sequences, FiniteSets

CONSTANTS
  Ip,
  Email,         \* empty on a path without limiters by user
  Request,
  None,          \* a request without an email; no address yet
  IpBurst,       \* tokens of a full limiter
  UserBurst,
  IpRate,        \* tokens that come back in a tick
  UserRate,
  MaxTicks,      \* bounds on the ticks of the clock and the runs of the cleanup
  MaxCleanups

ASSUME RateAssumption ==
  /\ None \notin Ip \cup Email
  /\ Ip \cap Email = {}
  /\ {IpBurst, UserBurst, IpRate, UserRate, MaxTicks, MaxCleanups} \subseteq Nat
  /\ IsFiniteSet(Request)

Key   == Ip \cup Email
Stage == {"ip", "user"}

Burst(k) == IF k \in Ip THEN IpBurst ELSE UserBurst
Rate(k)  == IF k \in Ip THEN IpRate ELSE UserRate

VARIABLES
  limiters,   \* every limiter created, in or out of a table: its key and its tokens
  table,      \* limiter of each address and email, 0 if there is none
  pc,
  stage,      \* which of its two limiters a request is at
  ip,         \* address and email of each request
  user,
  held,       \* the limiter a request was handed at each stage
  ticks,
  cleanups

tables   == <<limiters, table>>
asked    == <<ip, user>>
clock    == <<ticks, cleanups>>
vars     == <<limiters, table, pc, stage, ip, user, held, ticks, cleanups>>

Pc      == {"new", "lookUp", "create", "allow", "next", "refused"}
Limiter == [key : Key, tokens : Nat]

TypeOK ==
  /\ limiters \in Seq(Limiter)
  /\ \A l \in DOMAIN limiters : limiters[l].tokens <= Burst(limiters[l].key)
  /\ table \in [Key -> Nat]
  /\ pc \in [Request -> Pc]
  /\ stage \in [Request -> Stage]
  /\ ip \in [Request -> Ip \cup {None}]
  /\ user \in [Request -> Email \cup {None}]
  /\ held \in [Request -> [Stage -> Nat]]
  /\ ticks \in Nat
  /\ cleanups \in Nat

Init ==
  /\ limiters = <<>>
  /\ table = [k \in Key |-> 0]
  /\ pc = [r \in Request |-> "new"]
  /\ stage = [r \in Request |-> "ip"]
  /\ ip = [r \in Request |-> None]
  /\ user = [r \in Request |-> None]
  /\ held = [r \in Request |-> [s \in Stage |-> 0]]
  /\ ticks = 0
  /\ cleanups = 0

-----------------------------------------------------------------------------
(* A request comes in; on the login path with an email, or without one.    *)
Arrive(r, a, e) ==
  /\ pc[r] = "new"
  /\ pc' = [pc EXCEPT ![r] = "lookUp"]
  /\ ip' = [ip EXCEPT ![r] = a]
  /\ user' = [user EXCEPT ![r] = e]
  /\ UNCHANGED <<limiters, table, stage, held, ticks, cleanups>>

KeyOf(r) == IF stage[r] = "ip" THEN ip[r] ELSE user[r]

(* GetLimiter under the read lock.                                         *)
LookUp(r) ==
  /\ pc[r] = "lookUp"
  /\ held' = [held EXCEPT ![r][stage[r]] = table[KeyOf(r)]]
  /\ pc' = [pc EXCEPT ![r] = IF table[KeyOf(r)] = 0 THEN "create" ELSE "allow"]
  /\ UNCHANGED <<limiters, table, stage, ip, user, ticks, cleanups>>

Full(k) == [key |-> k, tokens |-> Burst(k)]

(* Mutant: the table is not read again under the write lock.               *)
CreateUnchecked(r) ==
  /\ pc[r] = "create"
  /\ limiters' = Append(limiters, Full(KeyOf(r)))
  /\ table' = [table EXCEPT ![KeyOf(r)] = Len(limiters) + 1]
  /\ held' = [held EXCEPT ![r][stage[r]] = table'[KeyOf(r)]]
  /\ pc' = [pc EXCEPT ![r] = "allow"]
  /\ UNCHANGED <<stage, ip, user, ticks, cleanups>>

(* GetLimiter under the write lock: another request may have created it.   *)
Create(r) ==
  /\ pc[r] = "create"
  /\ \/ /\ table[KeyOf(r)] # 0
        /\ UNCHANGED tables
     \/ /\ table[KeyOf(r)] = 0
        /\ limiters' = Append(limiters, Full(KeyOf(r)))
        /\ table' = [table EXCEPT ![KeyOf(r)] = Len(limiters) + 1]
  /\ held' = [held EXCEPT ![r][stage[r]] = table'[KeyOf(r)]]
  /\ pc' = [pc EXCEPT ![r] = "allow"]
  /\ UNCHANGED <<stage, ip, user, ticks, cleanups>>

-----------------------------------------------------------------------------
(* Allow of the limiter held, which takes a token if there is one.  The    *)
(* limiter by email is asked after the one by address has let through.     *)

Proceed(r) ==
  LET more == stage[r] = "ip" /\ user[r] # None
  IN /\ pc' = [pc EXCEPT ![r] = IF more THEN "lookUp" ELSE "next"]
     /\ stage' = [stage EXCEPT ![r] = IF more THEN "user" ELSE @]

(* Mutant: the user's stage asks the address's limiter.                    *)
AdmitByIp(r) ==
  LET l == held[r]["ip"]
  IN /\ pc[r] = "allow"
     /\ limiters[l].tokens > 0
     /\ limiters' = [limiters EXCEPT ![l].tokens = @ - 1]
     /\ Proceed(r)
     /\ UNCHANGED <<table, ip, user, held, ticks, cleanups>>

Admit(r) ==
  LET l == held[r][stage[r]]
  IN /\ pc[r] = "allow"
     /\ limiters[l].tokens > 0
     /\ limiters' = [limiters EXCEPT ![l].tokens = @ - 1]
     /\ Proceed(r)
     /\ UNCHANGED <<table, ip, user, held, ticks, cleanups>>

Refuse(r) ==
  /\ pc[r] = "allow"
  /\ limiters[held[r][stage[r]]].tokens = 0
  /\ pc' = [pc EXCEPT ![r] = "refused"]
  /\ UNCHANGED <<limiters, table, stage, ip, user, held, ticks, cleanups>>

-----------------------------------------------------------------------------
Least(m, n) == IF m <= n THEN m ELSE n

(* Mutant: a limiter fills beyond its burst.                               *)
TickUncapped ==
  /\ ticks < MaxTicks
  /\ ticks' = ticks + 1
  /\ limiters' = [l \in DOMAIN limiters |->
                    [limiters[l] EXCEPT !.tokens = @ + Rate(limiters[l].key)]]
  /\ UNCHANGED <<table, pc, stage, ip, user, held, cleanups>>

(* Time passes, for limiters out of the table too.  rate.Limiter computes  *)
(* its tokens when it is asked, from the time since it was last asked.     *)
Tick ==
  /\ ticks < MaxTicks
  /\ ticks' = ticks + 1
  /\ limiters' = [l \in DOMAIN limiters |->
                    [limiters[l] EXCEPT !.tokens = Least(@ + Rate(limiters[l].key),
                                                         Burst(limiters[l].key))]]
  /\ UNCHANGED <<table, pc, stage, ip, user, held, cleanups>>

(* Mutant: the limiters by user are cleaned up too.                        *)
CleanupOfAll ==
  /\ cleanups < MaxCleanups
  /\ cleanups' = cleanups + 1
  /\ table' = [k \in Key |-> 0]
  /\ UNCHANGED <<limiters, pc, stage, ip, user, held, ticks>>

(* Mutant: the limiters dropped are filled up to be used again, although   *)
(* requests hold them.                                                     *)
CleanupPooled ==
  /\ cleanups < MaxCleanups
  /\ cleanups' = cleanups + 1
  /\ table' = [k \in Key |-> IF k \in Ip THEN 0 ELSE table[k]]
  /\ limiters' = [l \in DOMAIN limiters |->
                    IF limiters[l].key \in Ip THEN Full(limiters[l].key) ELSE limiters[l]]
  /\ UNCHANGED <<pc, stage, ip, user, held, ticks>>

(* CleanupJob of the table by address.                                     *)
Cleanup ==
  /\ cleanups < MaxCleanups
  /\ cleanups' = cleanups + 1
  /\ table' = [k \in Key |-> IF k \in Ip THEN 0 ELSE table[k]]
  /\ UNCHANGED <<limiters, pc, stage, ip, user, held, ticks>>

Next ==
  \/ \E r \in Request, a \in Ip, e \in Email \cup {None} : Arrive(r, a, e)
  \/ \E r \in Request : LookUp(r) \/ Create(r) \/ Admit(r) \/ Refuse(r)
  \/ Tick
  \/ Cleanup

Spec == Init /\ [][Next]_vars

-----------------------------------------------------------------------------
(* Properties.                                                             *)

LimitersOf(k) == {l \in DOMAIN limiters : limiters[l].key = k}

(* Requests that a limiter has let through.                                *)
Through(r, s) ==
  IF s = "ip" THEN pc[r] = "next" \/ stage[r] = "user" ELSE pc[r] = "next" /\ stage[r] = "user"

Resets(k) == IF k \in Ip THEN cleanups ELSE 0

Spent(l) == {r \in Request : \E s \in Stage : Through(r, s) /\ held[r][s] = l}

(* A key gets one limiter, and one more only after a cleanup.              *)
OneLimiterPerReset ==
  \A k \in Key : Cardinality(LimitersOf(k)) + (IF table[k] = 0 THEN 1 ELSE 0) <= Resets(k) + 1

(* A limiter in a table, or held by a request, is one of its key; that of  *)
(* an email is the one in the table.                                       *)
TableFits == \A k \in Key : table[k] # 0 => table[k] \in LimitersOf(k)

RequestFits(r) ==
  /\ pc[r] # "new" => ip[r] \in Ip
  /\ stage[r] = "user" => user[r] \in Email /\ pc[r] # "new"
  /\ pc[r] = "allow" => held[r][stage[r]] \in LimitersOf(KeyOf(r))
  /\ Through(r, "ip") => held[r]["ip"] \in LimitersOf(ip[r])
  /\ Through(r, "user") \/ (pc[r] = "allow" /\ stage[r] = "user")
       => held[r]["user"] = table[user[r]] /\ table[user[r]] # 0

HeldFits == TableFits /\ \A r \in Request : RequestFits(r)

(* A limiter has let through what it has lost of its burst and got back.   *)
Conserved ==
  \A l \in DOMAIN limiters :
    limiters[l].tokens + Cardinality(Spent(l))
      <= Burst(limiters[l].key) + Rate(limiters[l].key) * ticks

(* However many requests race to create it, a key gets one limiter, and    *)
(* one more only after a cleanup has dropped the last (GetLimiter's second *)
(* look under the write lock); what a request was handed is still a        *)
(* limiter of its key when it asks for a token, and lets through no more   *)
(* than a token bucket does.                                               *)
RateInv == OneLimiterPerReset /\ HeldFits /\ Conserved

(* No email is let through more often than its burst and what came back    *)
(* since, from any number of addresses and over any cleanups.              *)
LoginsBounded ==
  \A e \in Email :
    Cardinality({r \in Request : user[r] = e /\ Through(r, "user")}) <= UserBurst + UserRate * ticks

(* A cleanup, and the requests that hold limiters it has dropped, give an  *)
(* address at most one burst and what came back since once more.           *)
AddressBounded ==
  \A a \in Ip :
    Cardinality({r \in Request : ip[r] = a /\ Through(r, "ip")})
      <= (IpBurst + IpRate * ticks) * (cleanups + 1)

-----------------------------------------------------------------------------
(* Limiters that are created when they are first asked for, by racing      *)
(* requests, are as good as buckets that were there from the start.        *)

Tokens(k) == IF table[k] = 0 THEN Burst(k) ELSE limiters[table[k]].tokens

Position(r) ==
  IF pc[r] \in {"lookUp", "create", "allow"}
  THEN IF stage[r] = "ip" /\ pc[r] = "allow" /\ held[r]["ip"] # table[ip[r]] THEN "late"
       ELSE stage[r]
  ELSE pc[r]

Buckets == INSTANCE RateBuckets WITH
  bucket <- [k \in Key |-> Tokens(k)], state <- [r \in Request |-> Position(r)]

(* The two tables, their locks and the cleanup implement one bucket per    *)
(* address and email.                                                      *)
ImplementsBuckets == Buckets!Spec
=============================================================================
