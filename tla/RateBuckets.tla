---------------------------- MODULE RateBuckets ----------------------------
(***************************************************************************)
(* What the rate limiter promises: a token bucket per address and one per  *)
(* email, there from the start.  A request takes a token of its address    *)
(* and then, if it has an email, one of that, or is refused by an empty    *)
(* bucket.  At a reset every address has a full bucket again, and requests *)
(* that were about to be decided may be decided by the bucket it had.      *)
(***************************************************************************)
EXTENDS Naturals

CONSTANTS Ip, Email, Request, None, IpBurst, UserBurst, IpRate, UserRate

Key == Ip \cup Email

Burst(k) == IF k \in Ip THEN IpBurst ELSE UserBurst
Rate(k)  == IF k \in Ip THEN IpRate ELSE UserRate

Least(m, n) == IF m <= n THEN m ELSE n

(* "ip" and "user": waits for a token of its address, or of its email;     *)
(* "late": waits for one of the bucket its address had before a reset.     *)
State == {"new", "ip", "late", "user", "next", "refused"}

VARIABLES
  bucket,   \* tokens of each address and email
  ip,       \* address and email of each request
  user,
  state     \* where each request is

vars == <<bucket, ip, user, state>>

Init ==
  /\ bucket = [k \in Key |-> Burst(k)]
  /\ ip = [r \in Request |-> None]
  /\ user = [r \in Request |-> None]
  /\ state = [r \in Request |-> "new"]

Arrive(r, a, e) ==
  /\ state[r] = "new"
  /\ state' = [state EXCEPT ![r] = "ip"]
  /\ ip' = [ip EXCEPT ![r] = a]
  /\ user' = [user EXCEPT ![r] = e]
  /\ UNCHANGED bucket

Go(r, s) ==
  /\ state' = [state EXCEPT ![r] = s]
  /\ UNCHANGED <<ip, user>>

AfterIp(r) == IF user[r] = None THEN "next" ELSE "user"

Admit(r, k, s) ==
  /\ bucket[k] > 0
  /\ bucket' = [bucket EXCEPT ![k] = @ - 1]
  /\ Go(r, s)

Refuse(r, k) ==
  /\ bucket[k] = 0
  /\ Go(r, "refused")
  /\ UNCHANGED bucket

DecideIp(r) == state[r] = "ip" /\ (Admit(r, ip[r], AfterIp(r)) \/ Refuse(r, ip[r]))

DecideUser(r) == state[r] = "user" /\ (Admit(r, user[r], "next") \/ Refuse(r, user[r]))

DecideLate(r) ==
  /\ state[r] = "late"
  /\ Go(r, AfterIp(r)) \/ Go(r, "refused")
  /\ UNCHANGED bucket

Tick ==
  /\ bucket' = [k \in Key |-> Least(bucket[k] + Rate(k), Burst(k))]
  /\ UNCHANGED <<ip, user, state>>

Reset ==
  /\ bucket' = [k \in Key |-> IF k \in Ip THEN IpBurst ELSE bucket[k]]
  /\ \E late \in SUBSET {r \in Request : state[r] = "ip"} :
       state' = [r \in Request |-> IF r \in late THEN "late" ELSE state[r]]
  /\ UNCHANGED <<ip, user>>

Next ==
  \/ \E r \in Request, a \in Ip, e \in Email \cup {None} : Arrive(r, a, e)
  \/ \E r \in Request : DecideIp(r) \/ DecideUser(r) \/ DecideLate(r)
  \/ Tick
  \/ Reset

Spec == Init /\ [][Next]_vars
=============================================================================
