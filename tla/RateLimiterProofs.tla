------------------------- MODULE RateLimiterProofs -------------------------
(***************************************************************************)
(* Proofs about RateLimiter, for any addresses, emails, bursts and rates   *)
(* and any finite set of requests: the limiters stay one per key and       *)
(* reset, an email is let through within its bucket and an address within  *)
(* those it has had, and the tables implement RateBuckets.                 *)
(***************************************************************************)
EXTENDS RateLimiter, FiniteSetTheorems, TLAPS

IInv == TypeOK /\ RateInv

(* Bursts and rates are numbers of tokens.                                 *)
LEMMA RateTypes ==
  ASSUME NEW k
  PROVE  /\ Burst(k) \in Nat
         /\ Rate(k) \in Nat
  BY RateAssumption DEF Burst, Rate

(* A request that has come in is about a key.                              *)
LEMMA KeyTyped ==
  ASSUME TypeOK, HeldFits, NEW r \in Request, pc[r] # "new"
  PROVE  /\ KeyOf(r) \in Key
         /\ stage[r] = "ip" => KeyOf(r) = ip[r] /\ KeyOf(r) \in Ip
         /\ stage[r] = "user" => KeyOf(r) = user[r] /\ KeyOf(r) \in Email
         /\ stage[r] \in Stage
  BY DEF TypeOK, HeldFits, RequestFits, KeyOf, Key, Stage

(* What Append does to the limiters.                                       *)
LEMMA Appended ==
  ASSUME TypeOK, NEW k \in Key, limiters' = Append(limiters, Full(k))
  PROVE  /\ limiters' \in Seq(Limiter)
         /\ DOMAIN limiters = 1..Len(limiters)
         /\ Len(limiters) \in Nat
         /\ DOMAIN limiters' = 1..(Len(limiters) + 1)
         /\ \A l \in DOMAIN limiters : limiters'[l] = limiters[l]
         /\ limiters'[Len(limiters) + 1].key = k
         /\ limiters'[Len(limiters) + 1].tokens = Burst(k)
<1>1. Full(k) \in Limiter
  BY RateTypes DEF Full, Limiter
<1>2. limiters \in Seq(Limiter)
  BY DEF TypeOK
<1> QED
  BY <1>1, <1>2 DEF Full

(* What a step that changes only tokens does to the limiters.              *)
LEMMA SameKeys ==
  ASSUME limiters \in Seq(Limiter), limiters' \in Seq(Limiter),
         DOMAIN limiters' = DOMAIN limiters,
         \A l \in DOMAIN limiters : limiters'[l].key = limiters[l].key
  PROVE  \A k : LimitersOf(k)' = LimitersOf(k)
  BY DEF LimitersOf

-----------------------------------------------------------------------------
(* Types.                                                                  *)

LEMMA InitTyped == Init => TypeOK
<1> SUFFICES ASSUME Init PROVE TypeOK
  OBVIOUS
<1> QED
  BY DEF Init, TypeOK, Pc, Stage

LEMMA ArriveTyped ==
  ASSUME TypeOK, NEW r \in Request, NEW a \in Ip, NEW e \in Email \cup {None}, Arrive(r, a, e)
  PROVE  TypeOK'
  BY DEF TypeOK, Arrive, Pc

LEMMA LookUpTyped ==
  ASSUME TypeOK, HeldFits, NEW r \in Request, LookUp(r)
  PROVE  TypeOK'
<1>1. KeyOf(r) \in Key /\ stage[r] \in Stage
  BY KeyTyped DEF LookUp
<1>2. table[KeyOf(r)] \in Nat
  BY <1>1 DEF TypeOK
<1>3. held' \in [Request -> [Stage -> Nat]]
  BY <1>1, <1>2 DEF TypeOK, LookUp
<1>4. pc' \in [Request -> Pc]
  BY DEF TypeOK, LookUp, Pc
<1> QED
  BY <1>3, <1>4 DEF TypeOK, LookUp

LEMMA CreateTyped ==
  ASSUME TypeOK, HeldFits, NEW r \in Request, Create(r)
  PROVE  TypeOK'
<1>1. KeyOf(r) \in Key /\ stage[r] \in Stage
  BY KeyTyped DEF Create
<1>2. /\ limiters' \in Seq(Limiter)
      /\ \A l \in DOMAIN limiters' : limiters'[l].tokens <= Burst(limiters'[l].key)
      /\ table' \in [Key -> Nat]
  <2>1. CASE UNCHANGED tables
    BY <2>1 DEF tables, TypeOK
  <2>2. CASE /\ limiters' = Append(limiters, Full(KeyOf(r)))
             /\ table' = [table EXCEPT ![KeyOf(r)] = Len(limiters) + 1]
    <3> DEFINE k == KeyOf(r)
    <3> HIDE DEF k
    <3>1. k \in Key /\ limiters' = Append(limiters, Full(k))
      BY <1>1, <2>2 DEF k
    <3>2. /\ limiters' \in Seq(Limiter)
          /\ DOMAIN limiters = 1..Len(limiters)
          /\ Len(limiters) \in Nat
          /\ DOMAIN limiters' = 1..(Len(limiters) + 1)
          /\ \A l \in DOMAIN limiters : limiters'[l] = limiters[l]
          /\ limiters'[Len(limiters) + 1].key = k
          /\ limiters'[Len(limiters) + 1].tokens = Burst(k)
      BY <3>1, Appended
    <3>3. \A l \in DOMAIN limiters' : limiters'[l].tokens <= Burst(limiters'[l].key)
      <4> TAKE l \in DOMAIN limiters'
      <4>1. CASE l \in DOMAIN limiters
        BY <3>2, <4>1 DEF TypeOK
      <4>2. CASE l = Len(limiters) + 1
        BY <3>2, <4>2, RateTypes
      <4> QED
        BY <3>2, <4>1, <4>2
    <3> QED
      BY <2>2, <3>2, <3>3, <1>1 DEF TypeOK
  <2> QED
    BY <2>1, <2>2 DEF Create
<1>3. table'[KeyOf(r)] \in Nat
  BY <1>1, <1>2
<1>4. held' \in [Request -> [Stage -> Nat]]
  BY <1>1, <1>3 DEF TypeOK, Create
<1>5. pc' \in [Request -> Pc]
  BY DEF TypeOK, Create, Pc
<1> QED
  BY <1>2, <1>4, <1>5 DEF TypeOK, Create

(* What Admit does to the limiters: one token of the one held.             *)
LEMMA AdmitTakes ==
  ASSUME TypeOK, HeldFits, NEW r \in Request, Admit(r), NEW l, l = held[r][stage[r]]
  PROVE  /\ limiters' \in Seq(Limiter)
         /\ DOMAIN limiters' = DOMAIN limiters
         /\ \A m \in DOMAIN limiters : limiters'[m].key = limiters[m].key
         /\ \A m \in DOMAIN limiters : m # l => limiters'[m] = limiters[m]
         /\ l \in DOMAIN limiters
         /\ limiters[l].tokens > 0
         /\ limiters'[l].tokens = limiters[l].tokens - 1
         /\ limiters[l].key = KeyOf(r)
<1>1. l \in DOMAIN limiters /\ limiters[l].key = KeyOf(r)
  BY DEF HeldFits, RequestFits, LimitersOf, Admit
<1>2. /\ limiters[l].tokens > 0
      /\ limiters' = [limiters EXCEPT ![l].tokens = @ - 1]
  BY DEF Admit
<1>3. limiters \in Seq(Limiter)
  BY DEF TypeOK
<1>4. \A m \in DOMAIN limiters : limiters[m] \in Limiter
  BY <1>3
<1>5. limiters[l] \in Limiter
  BY <1>1, <1>4
<1>6. /\ limiters[l].tokens \in Nat
      /\ [limiters[l] EXCEPT !.tokens = @ - 1] \in Limiter
  BY <1>2, <1>5 DEF Limiter
<1>7. limiters' = [limiters EXCEPT ![l] = [limiters[l] EXCEPT !.tokens = @ - 1]]
  BY <1>1, <1>2
<1>8. limiters' \in Seq(Limiter) /\ DOMAIN limiters' = DOMAIN limiters
  BY <1>1, <1>3, <1>6, <1>7
<1>9. limiters'[l] = [limiters[l] EXCEPT !.tokens = @ - 1]
  BY <1>1, <1>3, <1>7
<1>10. \A m \in DOMAIN limiters : m # l => limiters'[m] = limiters[m]
  BY <1>3, <1>7
<1>11. limiters'[l].key = limiters[l].key /\ limiters'[l].tokens = limiters[l].tokens - 1
  BY <1>5, <1>9 DEF Limiter
<1> QED
  BY <1>1, <1>2, <1>8, <1>10, <1>11

LEMMA AdmitTyped ==
  ASSUME TypeOK, HeldFits, NEW r \in Request, Admit(r)
  PROVE  TypeOK'
<1> DEFINE l == held[r][stage[r]]
<1> HIDE DEF l
<1>1. /\ limiters' \in Seq(Limiter)
      /\ DOMAIN limiters' = DOMAIN limiters
      /\ \A m \in DOMAIN limiters : limiters'[m].key = limiters[m].key
      /\ \A m \in DOMAIN limiters : m # l => limiters'[m] = limiters[m]
      /\ l \in DOMAIN limiters
      /\ limiters'[l].tokens = limiters[l].tokens - 1
  BY AdmitTakes DEF l
<1>2. \A m \in DOMAIN limiters' : limiters'[m].tokens <= Burst(limiters'[m].key)
  <2> TAKE m \in DOMAIN limiters'
  <2>0. limiters[m] \in Limiter
    BY <1>1 DEF TypeOK
  <2>1. /\ limiters[m].tokens <= Burst(limiters[m].key)
        /\ limiters[m].tokens \in Nat
        /\ limiters'[m].key = limiters[m].key
    BY <1>1, <2>0 DEF TypeOK, Limiter
  <2>2. CASE m = l
    BY <1>1, <2>1, <2>2, RateTypes
  <2>3. CASE m # l
    BY <1>1, <2>1, <2>3
  <2> QED
    BY <2>2, <2>3
<1>3. pc' \in [Request -> Pc] /\ stage' \in [Request -> Stage]
  BY DEF TypeOK, Admit, Proceed, Pc, Stage
<1> QED
  BY <1>1, <1>2, <1>3 DEF TypeOK, Admit

LEMMA RefuseTyped ==
  ASSUME TypeOK, NEW r \in Request, Refuse(r)
  PROVE  TypeOK'
  BY DEF TypeOK, Refuse, Pc

(* What a tick does to the limiters.                                       *)
LEMMA TickRefills ==
  ASSUME TypeOK, Tick
  PROVE  /\ limiters' \in Seq(Limiter)
         /\ DOMAIN limiters' = DOMAIN limiters
         /\ \A l \in DOMAIN limiters :
              /\ limiters'[l].key = limiters[l].key
              /\ limiters'[l].tokens = Least(limiters[l].tokens + Rate(limiters[l].key),
                                             Burst(limiters[l].key))
<1>1. limiters \in Seq(Limiter) /\ DOMAIN limiters = 1..Len(limiters) /\ Len(limiters) \in Nat
  BY DEF TypeOK
<1>2. DOMAIN limiters' = DOMAIN limiters
  BY DEF Tick
<1>3. ASSUME NEW l \in DOMAIN limiters
      PROVE  /\ limiters'[l] \in Limiter
             /\ limiters'[l].key = limiters[l].key
             /\ limiters'[l].tokens = Least(limiters[l].tokens + Rate(limiters[l].key),
                                            Burst(limiters[l].key))
  <2>1. limiters[l] \in Limiter
    BY <1>1
  <2> DEFINE t == Least(limiters[l].tokens + Rate(limiters[l].key), Burst(limiters[l].key))
  <2>2. t \in Nat
    <3>1. limiters[l].tokens \in Nat
      BY <2>1 DEF Limiter
    <3> QED
      BY <3>1, RateTypes DEF Least
  <2> HIDE DEF t
  <2>3. limiters'[l] = [limiters[l] EXCEPT !.tokens = t]
    BY DEF Tick, t
  <2>4. limiters'[l] \in Limiter /\ limiters'[l].key = limiters[l].key /\ limiters'[l].tokens = t
    BY <2>1, <2>2, <2>3 DEF Limiter
  <2> QED
    BY <2>4 DEF t
<1>4. limiters' \in [1..Len(limiters) -> Limiter]
  <2>1. limiters' = [l \in 1..Len(limiters) |->
                       [limiters[l] EXCEPT !.tokens = Least(@ + Rate(limiters[l].key),
                                                            Burst(limiters[l].key))]]
    BY <1>1 DEF Tick
  <2> QED
    BY <1>1, <1>2, <1>3, <2>1
<1>5. limiters' \in Seq(Limiter)
  BY <1>1, <1>4
<1> QED
  BY <1>2, <1>3, <1>5

LEMMA TickTyped ==
  ASSUME TypeOK, Tick
  PROVE  TypeOK'
<1>1. \A l \in DOMAIN limiters' : limiters'[l].tokens <= Burst(limiters'[l].key)
  <2> TAKE l \in DOMAIN limiters'
  <2>0. l \in DOMAIN limiters
    BY TickRefills
  <2>1. limiters[l] \in Limiter
    BY <2>0 DEF TypeOK
  <2>2. limiters[l].tokens \in Nat
    BY <2>1 DEF Limiter
  <2>3. /\ limiters'[l].key = limiters[l].key
        /\ limiters'[l].tokens = Least(limiters[l].tokens + Rate(limiters[l].key),
                                       Burst(limiters[l].key))
    BY <2>0, TickRefills
  <2> QED
    BY <2>2, <2>3, RateTypes DEF Least
<1>2. ticks' \in Nat
  BY DEF Tick, TypeOK
<1>3. limiters' \in Seq(Limiter)
  BY TickRefills
<1> QED
  BY <1>1, <1>2, <1>3 DEF TypeOK, Tick

LEMMA CleanupTyped ==
  ASSUME TypeOK, Cleanup
  PROVE  TypeOK'
<1>1. table' \in [Key -> Nat]
  BY DEF TypeOK, Cleanup
<1> QED
  BY <1>1 DEF TypeOK, Cleanup

LEMMA NextTyped == TypeOK /\ HeldFits /\ [Next]_vars => TypeOK'
<1> SUFFICES ASSUME TypeOK, HeldFits, [Next]_vars PROVE TypeOK'
  OBVIOUS
<1>1. ASSUME NEW r \in Request, NEW a \in Ip, NEW e \in Email \cup {None}, Arrive(r, a, e)
      PROVE  TypeOK'
  BY <1>1, ArriveTyped
<1>2. ASSUME NEW r \in Request, LookUp(r) PROVE TypeOK'
  BY <1>2, LookUpTyped
<1>3. ASSUME NEW r \in Request, Create(r) PROVE TypeOK'
  BY <1>3, CreateTyped
<1>4. ASSUME NEW r \in Request, Admit(r) PROVE TypeOK'
  BY <1>4, AdmitTyped
<1>5. ASSUME NEW r \in Request, Refuse(r) PROVE TypeOK'
  BY <1>5, RefuseTyped
<1>6. CASE UNCHANGED vars
  BY <1>6 DEF vars, TypeOK
<1> QED
  BY <1>1, <1>2, <1>3, <1>4, <1>5, <1>6, TickTyped, CleanupTyped DEF Next

-----------------------------------------------------------------------------
(* What is held fits.                                                      *)

(* No step takes a limiter away from its key, or an email's from its table.*)
Grows ==
  /\ \A k : LimitersOf(k) \subseteq LimitersOf(k)'
  /\ \A e \in Email : table[e] # 0 => table'[e] = table[e]

(* A request that does not move keeps what it was handed.                  *)
LEMMA OthersFit ==
  ASSUME TypeOK, Grows, NEW q \in Request, RequestFits(q),
         pc'[q] = pc[q], stage'[q] = stage[q], ip'[q] = ip[q], user'[q] = user[q],
         held'[q] = held[q]
  PROVE  RequestFits(q)'
<1>1. KeyOf(q)' = KeyOf(q)
  BY DEF KeyOf
<1>2. Through(q, "ip")' = Through(q, "ip") /\ Through(q, "user")' = Through(q, "user")
  BY DEF Through
<1>3. \A k, l : l \in LimitersOf(k) => l \in LimitersOf(k)'
  BY DEF Grows
<1>4. /\ (pc[q] # "new" => ip[q] \in Ip)'
      /\ (stage[q] = "user" => user[q] \in Email)'
  BY DEF RequestFits
<1>5. (pc[q] = "allow" => held[q][stage[q]] \in LimitersOf(KeyOf(q)))'
  <2>1. PICK k, l : k = KeyOf(q) /\ l = held[q][stage[q]]
    OBVIOUS
  <2>2. KeyOf(q)' = k /\ (held[q][stage[q]])' = l
    BY <1>1, <2>1
  <2>3. SUFFICES ASSUME pc[q] = "allow" PROVE (held[q][stage[q]] \in LimitersOf(KeyOf(q)))'
    OBVIOUS
  <2>4. l \in LimitersOf(k)
    BY <2>1, <2>3 DEF RequestFits
  <2>5. l \in LimitersOf(k)'
    BY <2>4, <1>3
  <2> QED
    BY <2>2, <2>5 DEF LimitersOf
<1>6. (Through(q, "ip") => held[q]["ip"] \in LimitersOf(ip[q]))'
  <2>1. PICK k, l : k = ip[q] /\ l = held[q]["ip"]
    OBVIOUS
  <2>2. ip'[q] = k /\ held'[q]["ip"] = l
    BY <2>1
  <2>3. SUFFICES ASSUME Through(q, "ip") PROVE (held[q]["ip"] \in LimitersOf(ip[q]))'
    BY <1>2
  <2>4. l \in LimitersOf(k)
    BY <2>1, <2>3 DEF RequestFits
  <2>5. l \in LimitersOf(k)'
    BY <2>4, <1>3
  <2> QED
    BY <2>2, <2>5 DEF LimitersOf
<1>7. (Through(q, "user") \/ (pc[q] = "allow" /\ stage[q] = "user")
         => held[q]["user"] = table[user[q]] /\ table[user[q]] # 0)'
  <2>1. Through(q, "user") => stage[q] = "user"
    BY DEF Through
  <2> SUFFICES ASSUME Through(q, "user") \/ (pc[q] = "allow" /\ stage[q] = "user")
               PROVE  held'[q]["user"] = table'[user'[q]] /\ table'[user'[q]] # 0
    BY <1>2
  <2>2. user[q] \in Email /\ held[q]["user"] = table[user[q]] /\ table[user[q]] # 0
    BY <2>1 DEF RequestFits
  <2>3. table'[user[q]] = table[user[q]]
    BY <2>2 DEF Grows
  <2> QED
    BY <2>2, <2>3
<1> QED
  BY <1>4, <1>5, <1>6, <1>7 DEF RequestFits

(* A step that moves at most one request keeps what all were handed, if it *)
(* keeps what that one was.                                                *)
LEMMA MoverFits ==
  ASSUME TypeOK, HeldFits, Grows, NEW r \in Request, RequestFits(r)', TableFits',
         \A q \in Request : q # r =>
           /\ pc'[q] = pc[q] /\ stage'[q] = stage[q] /\ ip'[q] = ip[q]
           /\ user'[q] = user[q] /\ held'[q] = held[q]
  PROVE  HeldFits'
<1>1. ASSUME NEW q \in Request, q # r PROVE RequestFits(q)'
  BY <1>1, OthersFit DEF HeldFits
<1>2. \A q \in Request : RequestFits(q)'
  BY <1>1
<1> QED
  BY <1>2 DEF HeldFits

(* Steps that leave both tables as they are.                               *)
LEMMA SameTables ==
  ASSUME HeldFits, limiters' = limiters, table' = table
  PROVE  Grows /\ TableFits' /\ \A k : LimitersOf(k)' = LimitersOf(k)
BY DEF HeldFits, TableFits, Grows, LimitersOf

LEMMA ArriveFits ==
  ASSUME TypeOK, HeldFits, NEW r \in Request, NEW a \in Ip, NEW e \in Email \cup {None},
         Arrive(r, a, e)
  PROVE  HeldFits'
<1>1. Grows /\ TableFits'
  BY SameTables DEF Arrive
<1>2. RequestFits(r)'
  BY DEF HeldFits, RequestFits, Arrive, TypeOK, Through
<1> QED
  BY <1>1, <1>2, MoverFits DEF Arrive, TypeOK

LEMMA LookUpFits ==
  ASSUME TypeOK, HeldFits, NEW r \in Request, LookUp(r)
  PROVE  HeldFits'
<1>1. Grows /\ TableFits' /\ \A k : LimitersOf(k)' = LimitersOf(k)
  BY SameTables DEF LookUp
<1>2. PICK k \in Key : k = KeyOf(r)
  BY KeyTyped DEF LookUp
<1>3. PICK l : l = table[k]
  OBVIOUS
<1>4. /\ stage[r] \in Stage
      /\ stage[r] = "ip" => k = ip[r]
      /\ stage[r] = "user" => k = user[r]
  BY <1>2, KeyTyped DEF LookUp
<1>5. /\ pc'[r] = IF l = 0 THEN "create" ELSE "allow"
      /\ held'[r][stage[r]] = l
      /\ \A s \in Stage : s # stage[r] => held'[r][s] = held[r][s]
      /\ stage' = stage /\ ip' = ip /\ user' = user /\ table' = table
  BY <1>2, <1>3, <1>4 DEF LookUp, TypeOK
<1>6. l # 0 => l \in LimitersOf(k)
  BY <1>2, <1>3 DEF HeldFits, TableFits
<1>7. KeyOf(r)' = k
  BY <1>2, <1>5 DEF KeyOf
<1>8. RequestFits(r)'
  <2>1. (pc[r] = "allow" => held[r][stage[r]] \in LimitersOf(KeyOf(r)))'
    <3>1. pc'[r] = "allow" => l \in LimitersOf(k)'
      BY <1>1, <1>5, <1>6
    <3> QED
      BY <3>1, <1>5, <1>7 DEF LimitersOf
  <2>2. (Through(r, "ip") => held[r]["ip"] \in LimitersOf(ip[r]))'
    <3>1. Through(r, "ip")' => stage[r] = "user" /\ Through(r, "ip")
      BY <1>4, <1>5 DEF Through
    <3>2. Through(r, "ip") => held[r]["ip"] \in LimitersOf(ip[r])
      BY DEF HeldFits, RequestFits
    <3> QED
      BY <3>1, <3>2, <1>1, <1>5 DEF LimitersOf, Stage, LookUp
  <2>3. /\ (pc[r] # "new" => ip[r] \in Ip)'
        /\ (stage[r] = "user" => user[r] \in Email /\ pc[r] # "new")'
    BY <1>5 DEF HeldFits, RequestFits, LookUp
  <2>4. (Through(r, "user") \/ (pc[r] = "allow" /\ stage[r] = "user")
           => held[r]["user"] = table[user[r]] /\ table[user[r]] # 0)'
    BY <1>3, <1>4, <1>5 DEF Through
  <2> QED
    BY <2>1, <2>2, <2>3, <2>4 DEF RequestFits
<1> QED
  BY <1>1, <1>8, MoverFits DEF LookUp, TypeOK

(* What Create does to the tables: its key has a limiter afterwards.       *)
LEMMA CreateAdds ==
  ASSUME TypeOK, HeldFits, NEW r \in Request, Create(r), NEW k, k = KeyOf(r)
  PROVE  /\ Grows
         /\ TableFits'
         /\ table'[k] # 0
         /\ table'[k] \in LimitersOf(k)'
<1>1. k \in Key
  BY KeyTyped DEF Create
<1>2. CASE table[k] # 0 /\ UNCHANGED tables
  <2>1. Grows /\ TableFits' /\ table' = table /\ \A x : LimitersOf(x)' = LimitersOf(x)
    BY <1>2, SameTables DEF tables
  <2>2. table[k] \in LimitersOf(k)
    BY <1>1, <1>2 DEF HeldFits, TableFits
  <2> QED
    BY <1>2, <2>1, <2>2
<1>3. CASE /\ table[k] = 0
           /\ limiters' = Append(limiters, Full(k))
           /\ table' = [table EXCEPT ![k] = Len(limiters) + 1]
  <2>1. /\ limiters' \in Seq(Limiter)
        /\ DOMAIN limiters = 1..Len(limiters)
        /\ Len(limiters) \in Nat
        /\ DOMAIN limiters' = 1..(Len(limiters) + 1)
        /\ \A l \in DOMAIN limiters : limiters'[l] = limiters[l]
        /\ limiters'[Len(limiters) + 1].key = k
    BY <1>1, <1>3, Appended
  <2>2. \A x : LimitersOf(x) \subseteq LimitersOf(x)'
    BY <2>1 DEF LimitersOf
  <2>3. /\ table'[k] = Len(limiters) + 1
        /\ \A x \in Key : x # k => table'[x] = table[x]
    BY <1>1, <1>3 DEF TypeOK
  <2>4. table'[k] \in LimitersOf(k)'
    BY <2>1, <2>3 DEF LimitersOf
  <2>5. Grows
    BY <1>3, <2>2, <2>3 DEF Grows, Key
  <2>6. TableFits'
    <3>1. ASSUME NEW x \in Key, table'[x] # 0 PROVE table'[x] \in LimitersOf(x)'
      <4>1. CASE x = k
        BY <4>1, <2>4 DEF LimitersOf
      <4>2. CASE x # k
        <5>1. table[x] \in LimitersOf(x) /\ table'[x] = table[x]
          BY <3>1, <4>2, <2>3 DEF HeldFits, TableFits
        <5> QED
          BY <5>1, <2>2
      <4> QED
        BY <4>1, <4>2
    <3> QED
      BY <3>1 DEF TableFits
  <2> QED
    BY <2>1, <2>3, <2>4, <2>5, <2>6
<1> QED
  BY <1>2, <1>3 DEF Create

LEMMA CreateFits ==
  ASSUME TypeOK, HeldFits, NEW r \in Request, Create(r)
  PROVE  HeldFits'
<1>1. PICK k \in Key : k = KeyOf(r)
  BY KeyTyped DEF Create
<1>2. Grows /\ TableFits' /\ table'[k] # 0 /\ table'[k] \in LimitersOf(k)'
  BY <1>1, CreateAdds
<1>3. PICK l : l = table'[k]
  OBVIOUS
<1>4. /\ stage[r] \in Stage
      /\ stage[r] = "ip" => k = ip[r]
      /\ stage[r] = "user" => k = user[r]
  BY <1>1, KeyTyped DEF Create
<1>5. /\ pc'[r] = "allow"
      /\ held'[r][stage[r]] = l
      /\ \A s \in Stage : s # stage[r] => held'[r][s] = held[r][s]
      /\ stage' = stage /\ ip' = ip /\ user' = user
  BY <1>1, <1>3, <1>4 DEF Create, TypeOK
<1>6. KeyOf(r)' = k
  BY <1>1, <1>5 DEF KeyOf
<1>7. RequestFits(r)'
  <2>1. (pc[r] = "allow" => held[r][stage[r]] \in LimitersOf(KeyOf(r)))'
    BY <1>2, <1>3, <1>5, <1>6 DEF LimitersOf
  <2>2. (Through(r, "ip") => held[r]["ip"] \in LimitersOf(ip[r]))'
    <3>1. PICK m, a : m = held[r]["ip"] /\ a = ip[r]
      OBVIOUS
    <3>2. Through(r, "ip")' => stage[r] = "user" /\ Through(r, "ip")
      BY <1>4, <1>5 DEF Through
    <3>3. Through(r, "ip") => m \in LimitersOf(a)
      BY <3>1 DEF HeldFits, RequestFits
    <3>4. Through(r, "ip") => m \in LimitersOf(a)'
      BY <3>3, <1>2 DEF Grows
    <3>5. stage[r] = "user" => held'[r]["ip"] = m
      BY <3>1, <1>5 DEF Stage
    <3> QED
      BY <3>1, <3>2, <3>4, <3>5, <1>5 DEF LimitersOf
  <2>3. /\ (pc[r] # "new" => ip[r] \in Ip)'
        /\ (stage[r] = "user" => user[r] \in Email /\ pc[r] # "new")'
    BY <1>5 DEF HeldFits, RequestFits, Create
  <2>4. (Through(r, "user") \/ (pc[r] = "allow" /\ stage[r] = "user")
           => held[r]["user"] = table[user[r]] /\ table[user[r]] # 0)'
    BY <1>2, <1>3, <1>4, <1>5 DEF Through
  <2> QED
    BY <2>1, <2>2, <2>3, <2>4 DEF RequestFits
<1> QED
  BY <1>2, <1>7, MoverFits DEF Create, TypeOK

LEMMA AdmitFits ==
  ASSUME TypeOK, HeldFits, NEW r \in Request, Admit(r)
  PROVE  HeldFits'
<1>1. /\ limiters' \in Seq(Limiter)
      /\ DOMAIN limiters' = DOMAIN limiters
      /\ \A l \in DOMAIN limiters : limiters'[l].key = limiters[l].key
  BY AdmitTakes
<1>2. \A k : LimitersOf(k)' = LimitersOf(k)
  BY <1>1 DEF LimitersOf
<1>3. Grows /\ TableFits'
  BY <1>2 DEF Grows, HeldFits, TableFits, Admit
<1>4. /\ ip' = ip /\ user' = user /\ table' = table /\ held' = held
      /\ stage[r] \in Stage
      /\ \/ stage[r] = "ip" /\ user[r] # None /\ pc'[r] = "lookUp" /\ stage'[r] = "user"
         \/ /\ stage[r] # "ip" \/ user[r] = None
            /\ pc'[r] = "next" /\ stage'[r] = stage[r]
  BY DEF Admit, Proceed, TypeOK
<1>5. PICK k, m : k = ip[r] /\ m = held[r]["ip"]
  OBVIOUS
<1>6. m \in LimitersOf(k)
  <2>1. CASE stage[r] = "ip"
    BY <1>5, <2>1 DEF HeldFits, RequestFits, Admit, KeyOf
  <2>2. CASE stage[r] = "user"
    BY <1>5, <2>2 DEF HeldFits, RequestFits, Through
  <2> QED
    BY <1>4, <2>1, <2>2 DEF Stage
<1>7. RequestFits(r)'
  <2>1. (Through(r, "ip") => held[r]["ip"] \in LimitersOf(ip[r]))'
    BY <1>2, <1>4, <1>5, <1>6 DEF LimitersOf
  <2>2. /\ (pc[r] # "new" => ip[r] \in Ip)'
        /\ (stage[r] = "user" => user[r] \in Email /\ pc[r] # "new")'
    BY <1>4 DEF HeldFits, RequestFits, Admit, TypeOK
  <2>3. (Through(r, "user") \/ (pc[r] = "allow" /\ stage[r] = "user")
           => held[r]["user"] = table[user[r]] /\ table[user[r]] # 0)'
    BY <1>4 DEF Through, HeldFits, RequestFits, Admit
  <2>4. (pc[r] = "allow" => held[r][stage[r]] \in LimitersOf(KeyOf(r)))'
    BY <1>4
  <2> QED
    BY <2>1, <2>2, <2>3, <2>4 DEF RequestFits
<1> QED
  BY <1>3, <1>7, MoverFits DEF Admit, Proceed, TypeOK

LEMMA RefuseFits ==
  ASSUME TypeOK, HeldFits, NEW r \in Request, Refuse(r)
  PROVE  HeldFits'
<1>1. Grows /\ TableFits' /\ \A k : LimitersOf(k)' = LimitersOf(k)
  BY SameTables DEF Refuse
<1>2. /\ ip' = ip /\ user' = user /\ table' = table /\ held' = held /\ stage' = stage
      /\ pc'[r] = "refused" /\ pc[r] = "allow"
  BY DEF Refuse, TypeOK
<1>3. RequestFits(r)'
  <2>1. Through(r, "ip") => held[r]["ip"] \in LimitersOf(ip[r])
    BY DEF HeldFits, RequestFits
  <2>2. Through(r, "ip")' => Through(r, "ip")
    BY <1>2 DEF Through
  <2>3. (Through(r, "ip") => held[r]["ip"] \in LimitersOf(ip[r]))'
    BY <1>1, <1>2, <2>1, <2>2 DEF LimitersOf
  <2>4. /\ (pc[r] # "new" => ip[r] \in Ip)'
        /\ (stage[r] = "user" => user[r] \in Email /\ pc[r] # "new")'
        /\ (pc[r] = "allow" => held[r][stage[r]] \in LimitersOf(KeyOf(r)))'
        /\ ~(Through(r, "user") \/ (pc[r] = "allow" /\ stage[r] = "user"))'
    BY <1>2 DEF Through, HeldFits, RequestFits
  <2> QED
    BY <2>3, <2>4 DEF RequestFits
<1> QED
  BY <1>1, <1>3, MoverFits DEF Refuse, TypeOK

(* Steps that move no request.                                             *)
LEMMA StillFits ==
  ASSUME TypeOK, HeldFits, Grows, TableFits', UNCHANGED <<pc, stage, ip, user, held>>
  PROVE  HeldFits'
<1>1. ASSUME NEW q \in Request PROVE RequestFits(q)'
  BY <1>1, OthersFit DEF HeldFits
<1> QED
  BY <1>1 DEF HeldFits

LEMMA TickFits ==
  ASSUME TypeOK, HeldFits, Tick
  PROVE  HeldFits'
<1>1. \A k : LimitersOf(k)' = LimitersOf(k)
  BY TickRefills DEF LimitersOf
<1>2. Grows /\ TableFits'
  BY <1>1 DEF Grows, HeldFits, TableFits, Tick
<1> QED
  BY <1>2, StillFits DEF Tick

LEMMA CleanupFits ==
  ASSUME TypeOK, HeldFits, Cleanup
  PROVE  HeldFits'
<1>1. \A k : LimitersOf(k)' = LimitersOf(k)
  BY DEF LimitersOf, Cleanup
<1>2. \A k \in Key : table'[k] = IF k \in Ip THEN 0 ELSE table[k]
  BY DEF Cleanup
<1>3. Grows
  BY <1>1, <1>2, RateAssumption DEF Grows, Key
<1>4. TableFits'
  BY <1>1, <1>2 DEF HeldFits, TableFits
<1> QED
  BY <1>3, <1>4, StillFits DEF Cleanup

-----------------------------------------------------------------------------
(* One limiter per key and reset.                                          *)

LEMMA LimitersFinite ==
  ASSUME limiters \in Seq(Limiter), NEW k
  PROVE  IsFiniteSet(LimitersOf(k)) /\ Cardinality(LimitersOf(k)) \in Nat
<1>1. IsFiniteSet(1..Len(limiters))
  BY FS_Interval
<1>2. LimitersOf(k) \subseteq 1..Len(limiters)
  BY DEF LimitersOf
<1> QED
  BY <1>1, <1>2, FS_Subset, FS_CardinalityType

(* Steps that create no limiter and run no cleanup.                        *)
LEMMA SameLimiters ==
  ASSUME OneLimiterPerReset, \A k : LimitersOf(k)' = LimitersOf(k),
         table' = table, cleanups' = cleanups
  PROVE  OneLimiterPerReset'
BY DEF OneLimiterPerReset, Resets

LEMMA CreateKeepsOne ==
  ASSUME TypeOK, HeldFits, OneLimiterPerReset, NEW r \in Request, Create(r)
  PROVE  OneLimiterPerReset'
<1>1. PICK k \in Key : k = KeyOf(r)
  BY KeyTyped DEF Create
<1>2. CASE UNCHANGED tables
  <2>1. \A x : LimitersOf(x)' = LimitersOf(x)
    BY <1>2 DEF tables, LimitersOf
  <2> QED
    BY <1>2, <2>1, SameLimiters DEF tables, Create
<1>3. CASE /\ table[k] = 0
           /\ limiters' = Append(limiters, Full(k))
           /\ table' = [table EXCEPT ![k] = Len(limiters) + 1]
  <2>1. /\ DOMAIN limiters = 1..Len(limiters)
        /\ Len(limiters) \in Nat
        /\ DOMAIN limiters' = 1..(Len(limiters) + 1)
        /\ \A l \in DOMAIN limiters : limiters'[l] = limiters[l]
        /\ limiters'[Len(limiters) + 1].key = k
    BY <1>1, <1>3, Appended
  <2>2. LimitersOf(k)' = LimitersOf(k) \cup {Len(limiters) + 1}
    BY <2>1 DEF LimitersOf
  <2>3. \A x : x # k => LimitersOf(x)' = LimitersOf(x)
    BY <2>1 DEF LimitersOf
  <2>4. limiters \in Seq(Limiter)
    BY DEF TypeOK
  <2>5. /\ Cardinality(LimitersOf(k)) \in Nat
        /\ Cardinality(LimitersOf(k) \cup {Len(limiters) + 1}) = Cardinality(LimitersOf(k)) + 1
    <3>1. IsFiniteSet(LimitersOf(k)) /\ Cardinality(LimitersOf(k)) \in Nat
      BY <2>4, LimitersFinite
    <3>2. Len(limiters) + 1 \notin LimitersOf(k)
      BY <2>1 DEF LimitersOf
    <3> QED
      BY <3>1, <3>2, FS_AddElement
  <2>6. table'[k] = Len(limiters) + 1 /\ \A x \in Key : x # k => table'[x] = table[x]
    BY <1>1, <1>3 DEF TypeOK
  <2>7. Cardinality(LimitersOf(k)) + 1 <= Resets(k) + 1
    BY <1>1, <1>3 DEF OneLimiterPerReset
  <2>8. \A x : Resets(x)' = Resets(x)
    BY DEF Resets, Create
  <2>9. (Cardinality(LimitersOf(k)) + (IF table[k] = 0 THEN 1 ELSE 0) <= Resets(k) + 1)'
    <3>1. Cardinality(LimitersOf(k)') = Cardinality(LimitersOf(k)) + 1
      BY <2>2, <2>5
    <3>2. table'[k] # 0
      BY <2>1, <2>6
    <3>3. Cardinality(LimitersOf(k))' + 0 <= Resets(k) + 1
      BY <2>5, <2>7, <3>1
    <3> QED
      BY <3>2, <3>3, <2>8 DEF Resets
  <2>10. ASSUME NEW x \in Key, x # k
         PROVE  (Cardinality(LimitersOf(x)) + (IF table[x] = 0 THEN 1 ELSE 0) <= Resets(x) + 1)'
    <3>1. Cardinality(LimitersOf(x)) + (IF table[x] = 0 THEN 1 ELSE 0) <= Resets(x) + 1
      BY <2>10 DEF OneLimiterPerReset
    <3>2. LimitersOf(x)' = LimitersOf(x) /\ table'[x] = table[x] /\ Resets(x)' = Resets(x)
      BY <2>3, <2>6, <2>8, <2>10
    <3> QED
      BY <3>1, <3>2
  <2> QED
    BY <2>9, <2>10 DEF OneLimiterPerReset
<1> QED
  BY <1>1, <1>2, <1>3 DEF Create

LEMMA CleanupKeepsOne ==
  ASSUME TypeOK, OneLimiterPerReset, Cleanup
  PROVE  OneLimiterPerReset'
<1>1. \A k : LimitersOf(k)' = LimitersOf(k)
  BY DEF LimitersOf, Cleanup
<1>2. \A k \in Key : table'[k] = IF k \in Ip THEN 0 ELSE table[k]
  BY DEF Cleanup
<1>3. \A k : Resets(k)' = IF k \in Ip THEN Resets(k) + 1 ELSE Resets(k)
  BY DEF Resets, Cleanup
<1>4. ASSUME NEW k \in Key
      PROVE  (Cardinality(LimitersOf(k)) + (IF table[k] = 0 THEN 1 ELSE 0) <= Resets(k) + 1)'
  <2>1. PICK n : n = Cardinality(LimitersOf(k))
    OBVIOUS
  <2>2. n \in Nat
    BY <2>1, LimitersFinite DEF TypeOK
  <2>3. n + (IF table[k] = 0 THEN 1 ELSE 0) <= Resets(k) + 1
    BY <2>1 DEF OneLimiterPerReset
  <2>4. Cardinality(LimitersOf(k))' = n
    BY <1>1, <2>1
  <2>5. Resets(k) \in Nat
    BY DEF Resets, TypeOK
  <2>6. n + (IF table'[k] = 0 THEN 1 ELSE 0) <= (IF k \in Ip THEN Resets(k) + 1 ELSE Resets(k)) + 1
    BY <1>2, <2>2, <2>3, <2>5
  <2> QED
    BY <1>3, <2>4, <2>6
<1> QED
  BY <1>4 DEF OneLimiterPerReset

-----------------------------------------------------------------------------
(* What limiters have let through.                                         *)

LEMMA SpentFinite ==
  ASSUME NEW l
  PROVE  IsFiniteSet(Spent(l)) /\ Cardinality(Spent(l)) \in Nat
<1>1. Spent(l) \subseteq Request
  BY DEF Spent
<1> QED
  BY <1>1, RateAssumption, FS_Subset, FS_CardinalityType

(* Steps of a request that do not let it through.                          *)
Waits(r) ==
  \/ \E a \in Ip, e \in Email \cup {None} : Arrive(r, a, e)
  \/ LookUp(r)
  \/ Create(r)
  \/ Refuse(r)

LEMMA SameSpent ==
  ASSUME TypeOK, HeldFits,
         (\E r \in Request : Waits(r)) \/ (pc' = pc /\ stage' = stage /\ held' = held)
  PROVE  \A l : Spent(l)' = Spent(l)
<1>1. ASSUME NEW q \in Request, NEW s \in Stage
      PROVE  /\ Through(q, s)' <=> Through(q, s)
             /\ Through(q, s) => held'[q][s] = held[q][s]
  <2> DEFINE Same == /\ Through(q, s)' <=> Through(q, s)
                     /\ Through(q, s) => held'[q][s] = held[q][s]
  <2>1. ASSUME NEW r \in Request, NEW a \in Ip, NEW e \in Email \cup {None}, Arrive(r, a, e)
        PROVE  Same
    BY <1>1, <2>1 DEF Arrive, Through, TypeOK
  <2>2. ASSUME NEW r \in Request, LookUp(r) PROVE Same
    BY <1>1, <2>2 DEF LookUp, Through, TypeOK, Stage
  <2>3. ASSUME NEW r \in Request, Create(r) PROVE Same
    BY <1>1, <2>3 DEF Create, Through, TypeOK, Stage
  <2>4. ASSUME NEW r \in Request, Refuse(r) PROVE Same
    BY <1>1, <2>4 DEF Refuse, Through, TypeOK
  <2>5. ASSUME pc' = pc, stage' = stage, held' = held PROVE Same
    BY <2>5 DEF Through
  <2> HIDE DEF Same
  <2>6. ASSUME NEW r \in Request, Waits(r) PROVE Same
    BY <2>1, <2>2, <2>3, <2>4, <2>6 DEF Waits
  <2>7. Same
    BY <2>5, <2>6
  <2> QED
    BY <2>7 DEF Same
<1>2. ASSUME NEW l PROVE Spent(l)' = Spent(l)
  <2>1. \A q \in Request, s \in Stage :
          (Through(q, s) /\ held[q][s] = l)' <=> Through(q, s) /\ held[q][s] = l
    BY <1>1
  <2> QED
    BY <2>1 DEF Spent
<1> QED
  BY <1>2

(* Admit lets one request through, at one limiter.                         *)
LEMMA AdmitSpent ==
  ASSUME TypeOK, HeldFits, NEW r \in Request, Admit(r), NEW l, l = held[r][stage[r]]
  PROVE  /\ Spent(l)' \subseteq Spent(l) \cup {r}
         /\ \A m : m # l => Spent(m)' = Spent(m)
<1>1. /\ held' = held
      /\ stage[r] \in Stage
      /\ \/ stage[r] = "ip" /\ user[r] # None /\ pc'[r] = "lookUp" /\ stage'[r] = "user"
         \/ /\ stage[r] # "ip" \/ user[r] = None
            /\ pc'[r] = "next" /\ stage'[r] = stage[r]
      /\ pc[r] = "allow"
      /\ \A q \in Request : q # r => pc'[q] = pc[q] /\ stage'[q] = stage[q]
  BY DEF Admit, Proceed, TypeOK
<1>2. \A q \in Request, s \in Stage : q # r => (Through(q, s)' <=> Through(q, s))
  BY <1>1 DEF Through
<1>3. \A s \in Stage : Through(r, s)' <=> Through(r, s) \/ s = stage[r]
  BY <1>1 DEF Through, Stage
<1> QED
  BY <1>1, <1>2, <1>3 DEF Spent

(* Steps that change no tokens and let no request through.                 *)
LEMMA SameConserved ==
  ASSUME Conserved, limiters' = limiters, ticks' = ticks, \A l : Spent(l)' = Spent(l)
  PROVE  Conserved'
BY DEF Conserved

LEMMA CreateConserves ==
  ASSUME TypeOK, HeldFits, Conserved, NEW r \in Request, Create(r)
  PROVE  Conserved'
<1>1. PICK k \in Key : k = KeyOf(r)
  BY KeyTyped DEF Create
<1>2. \A l : Spent(l)' = Spent(l)
  BY SameSpent DEF Waits
<1>3. ticks' = ticks
  BY DEF Create
<1>4. CASE UNCHANGED tables
  BY <1>2, <1>3, <1>4, SameConserved DEF tables
<1>5. CASE limiters' = Append(limiters, Full(k))
  <2>1. /\ DOMAIN limiters = 1..Len(limiters)
        /\ Len(limiters) \in Nat
        /\ DOMAIN limiters' = 1..(Len(limiters) + 1)
        /\ \A l \in DOMAIN limiters : limiters'[l] = limiters[l]
        /\ limiters'[Len(limiters) + 1].key = k
        /\ limiters'[Len(limiters) + 1].tokens = Burst(k)
    BY <1>1, <1>5, Appended
  <2>2. ASSUME NEW l \in DOMAIN limiters
        PROVE  limiters'[l].tokens + Cardinality(Spent(l))'
                 <= Burst(limiters'[l].key) + Rate(limiters'[l].key) * ticks'
    BY <1>2, <1>3, <2>1 DEF Conserved
  <2>3. ASSUME NEW l, l = Len(limiters) + 1
        PROVE  limiters'[l].tokens + Cardinality(Spent(l))'
                 <= Burst(limiters'[l].key) + Rate(limiters'[l].key) * ticks'
    <3>1. l \notin DOMAIN limiters
      BY <2>1, <2>3
    <3>2. \A q \in Request, s \in Stage : Through(q, s) => held[q][s] \in DOMAIN limiters
      <4>1. ASSUME NEW q \in Request, Through(q, "ip") PROVE held[q]["ip"] \in DOMAIN limiters
        BY <4>1 DEF HeldFits, RequestFits, LimitersOf
      <4>2. ASSUME NEW q \in Request, Through(q, "user")
            PROVE  held[q]["user"] \in DOMAIN limiters
        <5>1. /\ user[q] \in Key /\ table[user[q]] # 0
              /\ held[q]["user"] = table[user[q]]
          BY <4>2 DEF HeldFits, RequestFits, Through, Key
        <5> QED
          BY <5>1 DEF HeldFits, TableFits, LimitersOf
      <4> QED
        BY <4>1, <4>2 DEF Stage
    <3>3. Spent(l) = {}
      BY <3>1, <3>2 DEF Spent
    <3>4. Cardinality(Spent(l))' = 0
      BY <1>2, <3>3, FS_EmptySet
    <3>5. Rate(k) * ticks' \in Nat /\ Burst(k) \in Nat
      BY <1>3, RateTypes DEF TypeOK
    <3> QED
      BY <2>1, <2>3, <3>4, <3>5
  <2> QED
    BY <2>1, <2>2, <2>3 DEF Conserved
<1> QED
  BY <1>1, <1>4, <1>5 DEF Create

LEMMA AdmitConserves ==
  ASSUME TypeOK, HeldFits, Conserved, NEW r \in Request, Admit(r)
  PROVE  Conserved'
<1>1. PICK l : l = held[r][stage[r]]
  OBVIOUS
<1>2. /\ DOMAIN limiters' = DOMAIN limiters
      /\ \A m \in DOMAIN limiters : limiters'[m].key = limiters[m].key
      /\ \A m \in DOMAIN limiters : m # l => limiters'[m] = limiters[m]
      /\ l \in DOMAIN limiters
      /\ limiters'[l].tokens = limiters[l].tokens - 1
  BY <1>1, AdmitTakes
<1>3. Spent(l)' \subseteq Spent(l) \cup {r} /\ \A m : m # l => Spent(m)' = Spent(m)
  BY <1>1, AdmitSpent
<1>4. ticks' = ticks
  BY DEF Admit
<1>5. Cardinality(Spent(l))' \in Nat /\ Cardinality(Spent(l))' <= Cardinality(Spent(l)) + 1
  <2>1. IsFiniteSet(Spent(l)) /\ Cardinality(Spent(l)) \in Nat
    BY SpentFinite
  <2>2. /\ IsFiniteSet(Spent(l) \cup {r})
        /\ Cardinality(Spent(l) \cup {r}) <= Cardinality(Spent(l)) + 1
        /\ Cardinality(Spent(l) \cup {r}) \in Nat
    <3>1. /\ IsFiniteSet(Spent(l) \cup {r})
          /\ Cardinality(Spent(l) \cup {r})
               = IF r \in Spent(l) THEN Cardinality(Spent(l)) ELSE Cardinality(Spent(l)) + 1
      BY <2>1, FS_AddElement
    <3> QED
      BY <2>1, <3>1
  <2>3. PICK S : S = Spent(l)'
    OBVIOUS
  <2>4. /\ Cardinality(S) <= Cardinality(Spent(l) \cup {r})
        /\ Cardinality(S) \in Nat
    BY <1>3, <2>2, <2>3, FS_Subset, FS_CardinalityType
  <2> QED
    BY <2>1, <2>2, <2>3, <2>4
<1>6. (limiters[l].tokens + Cardinality(Spent(l))
         <= Burst(limiters[l].key) + Rate(limiters[l].key) * ticks)'
  <2>1. limiters[l].tokens + Cardinality(Spent(l))
          <= Burst(limiters[l].key) + Rate(limiters[l].key) * ticks
    BY <1>2 DEF Conserved
  <2>2. limiters[l] \in Limiter
    BY <1>2 DEF TypeOK
  <2>3. limiters[l].tokens \in Nat
    BY <2>2 DEF Limiter
  <2>4. Cardinality(Spent(l)) \in Nat
    BY SpentFinite
  <2>5. PICK b : b = Burst(limiters[l].key) + Rate(limiters[l].key) * ticks
    OBVIOUS
  <2>6. b \in Nat
    BY <2>5, RateTypes DEF TypeOK
  <2>7. limiters'[l].tokens + Cardinality(Spent(l))' <= b
    BY <1>2, <1>5, <2>1, <2>3, <2>4, <2>5, <2>6
  <2> QED
    BY <1>2, <1>4, <2>5, <2>7
<1>7. ASSUME NEW m \in DOMAIN limiters, m # l
      PROVE  (limiters[m].tokens + Cardinality(Spent(m))
                <= Burst(limiters[m].key) + Rate(limiters[m].key) * ticks)'
  BY <1>2, <1>3, <1>4, <1>7 DEF Conserved
<1> QED
  BY <1>2, <1>6, <1>7 DEF Conserved

LEMMA TickConserves ==
  ASSUME TypeOK, HeldFits, Conserved, Tick
  PROVE  Conserved'
<1>1. DOMAIN limiters' = DOMAIN limiters
  BY TickRefills
<1>2. \A l : Spent(l)' = Spent(l)
  BY SameSpent DEF Tick
<1>3. ASSUME NEW l \in DOMAIN limiters
      PROVE  (limiters[l].tokens + Cardinality(Spent(l))
                <= Burst(limiters[l].key) + Rate(limiters[l].key) * ticks)'
  <2>1. PICK k : k = limiters[l].key
    OBVIOUS
  <2>2. PICK n : n = Cardinality(Spent(l))
    OBVIOUS
  <2>3. /\ limiters'[l].key = k
        /\ limiters'[l].tokens = Least(limiters[l].tokens + Rate(k), Burst(k))
    BY <2>1, TickRefills
  <2>4. limiters[l] \in Limiter
    BY DEF TypeOK
  <2>5. limiters[l].tokens \in Nat
    BY <2>4 DEF Limiter
  <2>6. Cardinality(Spent(l))' = n /\ n \in Nat
    BY <1>2, <2>2, SpentFinite
  <2>7. limiters[l].tokens + n <= Burst(k) + Rate(k) * ticks
    BY <2>1, <2>2 DEF Conserved
  <2>8. PICK b, i, t : b = Burst(k) /\ i = Rate(k) /\ t = ticks
    OBVIOUS
  <2>9. b \in Nat /\ i \in Nat /\ t \in Nat /\ ticks' = t + 1
    BY <2>8, RateTypes DEF TypeOK, Tick
  <2>10. i * (t + 1) = i * t + i /\ i * t \in Nat
    BY <2>9
  <2>11. limiters'[l].tokens <= limiters[l].tokens + i /\ limiters'[l].tokens \in Nat
    BY <2>3, <2>5, <2>8, <2>9 DEF Least
  <2>12. limiters'[l].tokens + n <= b + i * (t + 1)
    BY <2>5, <2>6, <2>7, <2>8, <2>9, <2>10, <2>11
  <2> QED
    BY <2>3, <2>6, <2>8, <2>9, <2>12
<1> QED
  BY <1>1, <1>3 DEF Conserved

-----------------------------------------------------------------------------
(* The inductive invariant.                                                *)

LEMMA InitInv == Init => IInv
<1> SUFFICES ASSUME Init PROVE IInv
  OBVIOUS
<1>1. TypeOK
  BY InitTyped
<1>2. HeldFits
  BY DEF Init, HeldFits, TableFits, RequestFits, Through
<1>3. OneLimiterPerReset
  <2>1. ASSUME NEW k \in Key
        PROVE  Cardinality(LimitersOf(k)) + (IF table[k] = 0 THEN 1 ELSE 0) <= Resets(k) + 1
    <3>1. LimitersOf(k) = {}
      BY DEF Init, LimitersOf
    <3>2. Cardinality(LimitersOf(k)) = 0
      BY <3>1, FS_EmptySet
    <3>3. table[k] = 0 /\ Resets(k) = 0
      BY DEF Init, Resets
    <3> QED
      BY <3>2, <3>3
  <2> QED
    BY <2>1 DEF OneLimiterPerReset
<1>4. Conserved
  BY DEF Init, Conserved
<1> QED
  BY <1>1, <1>2, <1>3, <1>4 DEF IInv, RateInv

LEMMA NextInv == IInv /\ [Next]_vars => IInv'
<1> SUFFICES ASSUME IInv, [Next]_vars PROVE IInv'
  OBVIOUS
<1>1. TypeOK /\ HeldFits /\ OneLimiterPerReset /\ Conserved
  BY DEF IInv, RateInv
<1>2. TypeOK'
  BY <1>1, NextTyped
<1> DEFINE Kept == HeldFits' /\ OneLimiterPerReset' /\ Conserved'
<1>3. ASSUME NEW r \in Request, NEW a \in Ip, NEW e \in Email \cup {None}, Arrive(r, a, e)
      PROVE  Kept
  <2>1. HeldFits'
    BY <1>1, <1>3, ArriveFits
  <2>2. limiters' = limiters /\ table' = table /\ cleanups' = cleanups /\ ticks' = ticks
    BY <1>3 DEF Arrive
  <2>3. \A l : Spent(l)' = Spent(l)
    BY <1>1, <1>3, SameSpent DEF Waits
  <2> QED
    BY <1>1, <2>1, <2>2, <2>3, SameTables, SameLimiters, SameConserved
<1>4. ASSUME NEW r \in Request, LookUp(r) PROVE Kept
  <2>1. HeldFits'
    BY <1>1, <1>4, LookUpFits
  <2>2. limiters' = limiters /\ table' = table /\ cleanups' = cleanups /\ ticks' = ticks
    BY <1>4 DEF LookUp
  <2>3. \A l : Spent(l)' = Spent(l)
    BY <1>1, <1>4, SameSpent DEF Waits
  <2> QED
    BY <1>1, <2>1, <2>2, <2>3, SameTables, SameLimiters, SameConserved
<1>5. ASSUME NEW r \in Request, Create(r) PROVE Kept
  BY <1>1, <1>5, CreateFits, CreateKeepsOne, CreateConserves
<1>6. ASSUME NEW r \in Request, Admit(r) PROVE Kept
  <2>1. \A k : LimitersOf(k)' = LimitersOf(k)
    BY <1>1, <1>6, AdmitTakes DEF LimitersOf
  <2>2. table' = table /\ cleanups' = cleanups
    BY <1>6 DEF Admit
  <2> QED
    BY <1>1, <1>6, <2>1, <2>2, AdmitFits, SameLimiters, AdmitConserves
<1>7. ASSUME NEW r \in Request, Refuse(r) PROVE Kept
  <2>1. HeldFits'
    BY <1>1, <1>7, RefuseFits
  <2>2. limiters' = limiters /\ table' = table /\ cleanups' = cleanups /\ ticks' = ticks
    BY <1>7 DEF Refuse
  <2>3. \A l : Spent(l)' = Spent(l)
    BY <1>1, <1>7, SameSpent DEF Waits
  <2> QED
    BY <1>1, <2>1, <2>2, <2>3, SameTables, SameLimiters, SameConserved
<1>8. ASSUME Tick PROVE Kept
  <2>1. \A k : LimitersOf(k)' = LimitersOf(k)
    BY <1>1, <1>8, TickRefills DEF LimitersOf
  <2>2. table' = table /\ cleanups' = cleanups
    BY <1>8 DEF Tick
  <2> QED
    BY <1>1, <1>8, <2>1, <2>2, TickFits, SameLimiters, TickConserves
<1>9. ASSUME Cleanup PROVE Kept
  <2>1. limiters' = limiters /\ ticks' = ticks /\ pc' = pc /\ stage' = stage /\ held' = held
    BY <1>9 DEF Cleanup
  <2>2. \A l : Spent(l)' = Spent(l)
    BY <1>1, <2>1, SameSpent
  <2> QED
    BY <1>1, <1>9, <2>1, <2>2, CleanupFits, CleanupKeepsOne, SameConserved
<1>10. ASSUME UNCHANGED vars PROVE Kept
  <2>1. limiters' = limiters /\ table' = table /\ cleanups' = cleanups /\ ticks' = ticks
        /\ pc' = pc /\ stage' = stage /\ held' = held /\ ip' = ip /\ user' = user
    BY <1>10 DEF vars
  <2>2. Grows /\ TableFits' /\ \A k : LimitersOf(k)' = LimitersOf(k)
    BY <1>1, <2>1, SameTables
  <2>3. \A l : Spent(l)' = Spent(l)
    BY <1>1, <2>1, SameSpent
  <2>4. HeldFits'
    BY <1>1, <2>1, <2>2, StillFits
  <2> QED
    BY <1>1, <2>1, <2>2, <2>3, <2>4, SameLimiters, SameConserved
<1> HIDE DEF Kept
<1>11. Kept
  BY <1>3, <1>4, <1>5, <1>6, <1>7, <1>8, <1>9, <1>10 DEF Next
<1> QED
  BY <1>2, <1>11 DEF Kept, IInv, RateInv

(* Tables, requests and counters keep their types, and no limiter has more *)
(* tokens than its burst, whatever the numbers of requests and keys.       *)
THEOREM TypeCorrect == Spec => []TypeOK
<1>1. IInv => TypeOK
  BY DEF IInv
<1> QED
  BY <1>1, InitInv, NextInv, PTL DEF Spec

(* A key gets one limiter between cleanups, however its first requests     *)
(* race (GetLimiter), and a limiter lets through what a token bucket does. *)
THEOREM OneLimiterEach == Spec => []RateInv
<1>1. IInv => RateInv
  BY DEF IInv
<1> QED
  BY <1>1, InitInv, NextInv, PTL DEF Spec

(* An email is let through within one token bucket, over all addresses,    *)
(* races and cleanups.                                                     *)
THEOREM LoginsAreBounded == Spec => []LoginsBounded
<1>1. ASSUME IInv, NEW e \in Email
      PROVE  Cardinality({r \in Request : user[r] = e /\ Through(r, "user")})
               <= UserBurst + UserRate * ticks
  <2> DEFINE S == {r \in Request : user[r] = e /\ Through(r, "user")}
             l == table[e]
  <2>1. S \subseteq Spent(l)
    BY <1>1 DEF IInv, RateInv, HeldFits, RequestFits, Spent, Stage
  <2>2. CASE l = 0
    <3>1. S = {}
      BY <1>1, <2>2 DEF IInv, RateInv, HeldFits, RequestFits
    <3>2. Cardinality(S) = 0
      BY <3>1, FS_EmptySet
    <3>3. UserBurst \in Nat /\ UserRate * ticks \in Nat
      BY <1>1, RateAssumption DEF IInv, TypeOK
    <3> QED
      BY <3>2, <3>3
  <2>3. CASE l # 0
    <3>1. l \in DOMAIN limiters /\ limiters[l].key = e
      BY <1>1, <2>3 DEF IInv, RateInv, HeldFits, TableFits, LimitersOf, Key
    <3>2. limiters[l].tokens + Cardinality(Spent(l)) <= Burst(e) + Rate(e) * ticks
      BY <1>1, <3>1 DEF IInv, RateInv, Conserved
    <3>3. limiters[l] \in Limiter
      BY <1>1, <3>1 DEF IInv, TypeOK
    <3>4. limiters[l].tokens \in Nat
      BY <3>3 DEF Limiter
    <3>5. IsFiniteSet(Spent(l)) /\ Cardinality(Spent(l)) \in Nat
      BY SpentFinite
    <3>6. Cardinality(S) <= Cardinality(Spent(l)) /\ Cardinality(S) \in Nat
      BY <2>1, <3>5, FS_Subset, FS_CardinalityType
    <3>7. Burst(e) = UserBurst /\ Rate(e) = UserRate
      BY RateAssumption DEF Burst, Rate
    <3>8. UserBurst \in Nat /\ UserRate * ticks \in Nat
      BY <1>1, RateAssumption DEF IInv, TypeOK
    <3> HIDE DEF S, l
    <3> QED
      BY <3>2, <3>4, <3>5, <3>6, <3>7, <3>8 DEF S
  <2> QED
    BY <2>2, <2>3
<1>2. IInv => LoginsBounded
  BY <1>1 DEF LoginsBounded
<1> QED
  BY <1>2, InitInv, NextInv, PTL DEF Spec

-----------------------------------------------------------------------------
(* What an address is let through.                                         *)

(* A finite set that a map divides into parts of at most n members has at  *)
(* most n members for each value of the map.                               *)
LEMMA PartsBound ==
  ASSUME NEW S, NEW L, IsFiniteSet(S), IsFiniteSet(L), NEW n \in Nat,
         NEW f \in [S -> L],
         \A l \in L : Cardinality({x \in S : f[x] = l}) <= n
  PROVE  Cardinality(S) <= Cardinality(L) * n
<1> DEFINE Part(l)  == {x \in S : f[x] = l}
           count    == [l \in L |-> CHOOSE b \in Surjection(1..Cardinality(Part(l)), Part(l)) : TRUE]
           place    == [x \in S |-> CHOOSE i \in 1..n : count[f[x]][i] = x]
           pair     == [x \in S |-> <<f[x], place[x]>>]
<1>1. ASSUME NEW x \in S
      PROVE  place[x] \in 1..n /\ count[f[x]][place[x]] = x
  <2> DEFINE c == Cardinality(Part(f[x]))
  <2>1. f[x] \in L /\ x \in Part(f[x])
    OBVIOUS
  <2>2. IsFiniteSet(Part(f[x]))
    BY FS_Subset
  <2>3. c \in Nat /\ c <= n /\ ExistsBijection(1..c, Part(f[x]))
    BY <2>1, <2>2, FS_CardinalityType
  <2>4. count[f[x]] \in Surjection(1..c, Part(f[x]))
    BY <2>1, <2>3, Zenon DEF ExistsBijection, Bijection
  <2> HIDE DEF count, c
  <2>5. PICK i \in 1..c : count[f[x]][i] = x
    BY <2>1, <2>4 DEF Surjection
  <2>6. i \in 1..n
    BY <2>3, <2>5
  <2> QED
    BY <2>5, <2>6
<1> HIDE DEF count, place
<1>2. pair \in [S -> L \X (1..n)]
  BY <1>1
<1>3. ASSUME NEW x \in S, NEW y \in S, pair[x] = pair[y]
      PROVE  x = y
  <2>1. f[x] = f[y] /\ place[x] = place[y]
    BY <1>3
  <2> QED
    BY <1>1, <2>1
<1>4. pair \in Injection(S, L \X (1..n))
  <2> HIDE DEF pair
  <2> QED
    BY <1>2, <1>3 DEF Injection, IsInjective
<1>5. IsFiniteSet(1..n) /\ Cardinality(1..n) = n
  BY FS_Interval
<1>6. IsFiniteSet(L \X (1..n)) /\ Cardinality(L \X (1..n)) = Cardinality(L) * n
  BY <1>5, FS_Product
<1> HIDE DEF pair
<1> QED
  BY <1>4, <1>6, FS_Injection

(* The requests of an address that were let through have spent tokens of   *)
(* its limiters, of which there is one and one more for each cleanup.      *)
LEMMA AddressSpends ==
  ASSUME IInv, NEW a \in Ip
  PROVE  Cardinality({r \in Request : ip[r] = a /\ Through(r, "ip")})
           <= (IpBurst + IpRate * ticks) * (cleanups + 1)
<1> DEFINE S == {r \in Request : ip[r] = a /\ Through(r, "ip")}
           L == LimitersOf(a)
           n == IpBurst + IpRate * ticks
           f == [r \in S |-> held[r]["ip"]]
<1>1. f \in [S -> L]
  BY DEF IInv, RateInv, HeldFits, RequestFits
<1>2. IsFiniteSet(S) /\ IsFiniteSet(L) /\ Cardinality(L) \in Nat
  BY RateAssumption, LimitersFinite, FS_Subset DEF IInv, TypeOK
<1>3. n \in Nat
  <2>1. IpBurst \in Nat /\ IpRate \in Nat /\ ticks \in Nat
    BY RateAssumption DEF IInv, TypeOK
  <2> QED
    BY <2>1
<1>4. ASSUME NEW l \in L
      PROVE  Cardinality({r \in S : f[r] = l}) <= n
  <2>1. l \in DOMAIN limiters /\ limiters[l].key = a
    BY DEF LimitersOf
  <2>2. limiters[l].tokens + Cardinality(Spent(l)) <= n
    BY <2>1 DEF IInv, RateInv, Conserved, Burst, Rate
  <2>3. limiters[l].tokens \in Nat
    <3>1. limiters[l] \in Limiter
      BY <2>1 DEF IInv, TypeOK
    <3> QED
      BY <3>1 DEF Limiter
  <2>4. {r \in S : f[r] = l} \subseteq Spent(l)
    BY DEF Spent, Stage
  <2>5. IsFiniteSet(Spent(l)) /\ Cardinality(Spent(l)) \in Nat
    BY SpentFinite
  <2>6. /\ Cardinality({r \in S : f[r] = l}) <= Cardinality(Spent(l))
        /\ Cardinality({r \in S : f[r] = l}) \in Nat
    BY <2>4, <2>5, FS_Subset, FS_CardinalityType
  <2> HIDE DEF S, f, n
  <2> QED
    BY <1>3, <2>2, <2>3, <2>5, <2>6
<1>5. Cardinality(S) <= Cardinality(L) * n
  <2> HIDE DEF S, f, n, L
  <2> QED
    BY <1>1, <1>2, <1>3, <1>4, PartsBound
<1>6. Cardinality(L) <= cleanups + 1
  <2>1. a \in Key /\ Resets(a) = cleanups
    BY DEF Key, Resets
  <2>2. Cardinality(L) + (IF table[a] = 0 THEN 1 ELSE 0) <= cleanups + 1
    BY <2>1 DEF IInv, RateInv, OneLimiterPerReset
  <2> QED
    BY <1>2, <2>2 DEF IInv, TypeOK
<1>7. Cardinality(L) * n <= n * (cleanups + 1)
  <2>1. cleanups + 1 \in Nat
    BY DEF IInv, TypeOK
  <2>2. \A x, y, z \in Nat : x <= y => x * z <= z * y
    OBVIOUS
  <2> HIDE DEF n, L
  <2> QED
    BY <1>2, <1>3, <1>6, <2>1, <2>2
<1>8. Cardinality(S) \in Nat
  BY <1>2, FS_CardinalityType
<1>9. Cardinality(L) * n \in Nat /\ n * (cleanups + 1) \in Nat
  BY <1>2, <1>3 DEF IInv, TypeOK
<1> QED
  BY <1>5, <1>7, <1>8, <1>9

(* An address is let through at most a burst, and what came back since,    *)
(* for each limiter it has had: one, and one more per cleanup.             *)
THEOREM AddressesAreBounded == Spec => []AddressBounded
<1>1. IInv => AddressBounded
  BY AddressSpends DEF AddressBounded
<1> QED
  BY <1>1, InitInv, NextInv, PTL DEF Spec

-----------------------------------------------------------------------------
(* The tables implement RateBuckets.                                       *)

(* A request that does not move, in a table that does not, is where it was.*)
LEMMA SamePosition ==
  ASSUME NEW q, pc'[q] = pc[q], stage'[q] = stage[q], ip'[q] = ip[q], held'[q] = held[q],
         table'[ip[q]] = table[ip[q]]
  PROVE  Position(q)' = Position(q)
BY DEF Position

(* What an abstract state keeps when the concrete one does.                *)
LEMMA SameMapped ==
  ASSUME \A k \in Key : Tokens(k)' = Tokens(k),
         \A q \in Request : Position(q)' = Position(q), ip' = ip, user' = user
  PROVE  UNCHANGED Buckets!vars
<1>1. [k \in Key |-> Tokens(k)]' = [k \in Key |-> Tokens(k)]
  OBVIOUS
<1>2. [q \in Request |-> Position(q)]' = [q \in Request |-> Position(q)]
  OBVIOUS
<1> QED
  BY <1>1, <1>2 DEF Buckets!vars

(* A limiter held at the address's stage is none of another key's.         *)
LEMMA HeldInDomain ==
  ASSUME TypeOK, HeldFits, NEW q \in Request, pc[q] = "allow", stage[q] = "ip"
  PROVE  /\ held[q]["ip"] \in 1..Len(limiters)
         /\ limiters[held[q]["ip"]].key = ip[q]
         /\ ip[q] \in Ip
<1>1. held[q]["ip"] \in LimitersOf(ip[q]) /\ ip[q] \in Ip
  BY DEF HeldFits, RequestFits, KeyOf
<1>2. DOMAIN limiters = 1..Len(limiters)
  BY DEF TypeOK
<1> QED
  BY <1>1, <1>2 DEF LimitersOf

LEMMA ArriveMaps ==
  ASSUME IInv, NEW r \in Request, NEW a \in Ip, NEW e \in Email \cup {None}, Arrive(r, a, e)
  PROVE  Buckets!Next
<1>1. /\ limiters' = limiters /\ table' = table /\ stage' = stage /\ held' = held
      /\ pc[r] = "new" /\ pc'[r] = "lookUp" /\ stage[r] = "ip"
      /\ \A q \in Request : q # r => pc'[q] = pc[q] /\ ip'[q] = ip[q]
      /\ ip' = [ip EXCEPT ![r] = a] /\ user' = [user EXCEPT ![r] = e]
  BY DEF Arrive, IInv, TypeOK, RateInv, HeldFits, RequestFits, Stage
<1>2. \A k \in Key : Tokens(k)' = Tokens(k)
  BY <1>1 DEF Tokens
<1>3. Position(r) = "new" /\ Position(r)' = "ip"
  BY <1>1 DEF Position
<1>4. \A q \in Request : q # r => Position(q)' = Position(q)
  BY <1>1, SamePosition
<1>5. [q \in Request |-> Position(q)]'
        = [[q \in Request |-> Position(q)] EXCEPT ![r] = "ip"]
  BY <1>3, <1>4
<1>6. [k \in Key |-> Tokens(k)]' = [k \in Key |-> Tokens(k)]
  BY <1>2
<1>7. Buckets!Arrive(r, a, e)
  BY <1>1, <1>3, <1>5, <1>6 DEF Buckets!Arrive
<1> QED
  BY <1>7 DEF Buckets!Next

LEMMA LookUpMaps ==
  ASSUME IInv, NEW r \in Request, LookUp(r)
  PROVE  UNCHANGED Buckets!vars
<1>1. /\ limiters' = limiters /\ table' = table /\ stage' = stage /\ ip' = ip /\ user' = user
      /\ \A q \in Request : q # r => pc'[q] = pc[q] /\ held'[q] = held[q]
      /\ pc[r] = "lookUp" /\ pc'[r] \in {"create", "allow"}
      /\ stage[r] = "ip" => held'[r]["ip"] = table[ip[r]]
      /\ stage[r] \in Stage
  BY DEF LookUp, IInv, TypeOK, KeyOf
<1>2. \A k \in Key : Tokens(k)' = Tokens(k)
  BY <1>1 DEF Tokens
<1>3. Position(r)' = Position(r)
  BY <1>1 DEF Position, Stage
<1>4. \A q \in Request : q # r => Position(q)' = Position(q)
  BY <1>1, SamePosition
<1> QED
  BY <1>1, <1>2, <1>3, <1>4, SameMapped

LEMMA CreateMaps ==
  ASSUME IInv, NEW r \in Request, Create(r)
  PROVE  UNCHANGED Buckets!vars
<1>1. TypeOK /\ HeldFits
  BY DEF IInv, RateInv
<1>2. PICK k \in Key : k = KeyOf(r)
  BY <1>1, KeyTyped DEF Create
<1>3. /\ stage' = stage /\ ip' = ip /\ user' = user
      /\ \A q \in Request : q # r => pc'[q] = pc[q] /\ held'[q] = held[q]
      /\ pc[r] = "create" /\ pc'[r] = "allow"
      /\ stage[r] = "ip" => held'[r]["ip"] = table'[ip[r]]
      /\ stage[r] \in Stage
  BY <1>1 DEF Create, TypeOK, KeyOf
<1>4. Position(r)' = Position(r)
  BY <1>3 DEF Position, Stage
<1>5. CASE UNCHANGED tables
  <2>1. limiters' = limiters /\ table' = table
    BY <1>5 DEF tables
  <2>2. \A x \in Key : Tokens(x)' = Tokens(x)
    BY <2>1 DEF Tokens
  <2>3. \A q \in Request : q # r => Position(q)' = Position(q)
    BY <1>3, <2>1, SamePosition
  <2> QED
    BY <1>3, <1>4, <2>2, <2>3, SameMapped
<1>6. CASE /\ table[k] = 0
           /\ limiters' = Append(limiters, Full(k))
           /\ table' = [table EXCEPT ![k] = Len(limiters) + 1]
  <2>1. /\ DOMAIN limiters = 1..Len(limiters)
        /\ Len(limiters) \in Nat
        /\ \A l \in DOMAIN limiters : limiters'[l] = limiters[l]
        /\ limiters'[Len(limiters) + 1].tokens = Burst(k)
    BY <1>1, <1>2, <1>6, Appended
  <2>2. table'[k] = Len(limiters) + 1 /\ \A x \in Key : x # k => table'[x] = table[x]
    BY <1>1, <1>2, <1>6 DEF TypeOK
  <2>3. ASSUME NEW x \in Key PROVE Tokens(x)' = Tokens(x)
    <3>1. CASE x = k
      BY <1>6, <2>1, <2>2, <3>1 DEF Tokens, Burst
    <3>2. CASE x # k
      <4>1. table[x] # 0 => table[x] \in DOMAIN limiters
        BY <1>1 DEF HeldFits, TableFits, LimitersOf
      <4> QED
        BY <2>1, <2>2, <3>2, <4>1 DEF Tokens, Burst
    <3> QED
      BY <3>1, <3>2
  <2>4. ASSUME NEW q \in Request, q # r PROVE Position(q)' = Position(q)
    <3>1. CASE pc[q] = "allow" /\ stage[q] = "ip"
      <4>1. held[q]["ip"] \in 1..Len(limiters) /\ ip[q] \in Key
        BY <1>1, <3>1, HeldInDomain DEF Key
      <4>2. held[q]["ip"] # table[ip[q]] <=> held[q]["ip"] # table'[ip[q]]
        BY <1>6, <2>1, <2>2, <4>1
      <4> QED
        BY <1>3, <2>4, <3>1, <4>2 DEF Position
    <3>2. CASE ~(pc[q] = "allow" /\ stage[q] = "ip")
      BY <1>3, <2>4, <3>2 DEF Position
    <3> QED
      BY <3>1, <3>2
  <2> QED
    BY <1>3, <1>4, <2>3, <2>4, SameMapped
<1> QED
  BY <1>2, <1>5, <1>6 DEF Create

(* The limiter an Allow asks: the one in the table, or, for an address,    *)
(* one that a cleanup has dropped.                                         *)
LEMMA AllowPosition ==
  ASSUME TypeOK, HeldFits, NEW r \in Request, pc[r] = "allow", NEW l, l = held[r][stage[r]],
         NEW k, k = KeyOf(r)
  PROVE  /\ k \in Key
         /\ l \in DOMAIN limiters /\ limiters[l].key = k
         /\ l # 0
         /\ \/ stage[r] = "ip" /\ k = ip[r] /\ l = table[k] /\ Position(r) = "ip"
            \/ stage[r] = "ip" /\ k = ip[r] /\ l # table[k] /\ Position(r) = "late"
            \/ stage[r] = "user" /\ k = user[r] /\ l = table[k] /\ Position(r) = "user"
<1>1. k \in Key
  BY KeyTyped
<1>2. l \in LimitersOf(k)
  BY DEF HeldFits, RequestFits
<1>3. l \in DOMAIN limiters /\ limiters[l].key = k
  BY <1>2 DEF LimitersOf
<1>4. DOMAIN limiters = 1..Len(limiters) /\ Len(limiters) \in Nat
  BY DEF TypeOK
<1>5. l # 0
  BY <1>3, <1>4
<1>6. CASE stage[r] = "ip"
  BY <1>1, <1>3, <1>5, <1>6 DEF KeyOf, Position
<1>7. CASE stage[r] = "user"
  <2>1. held[r]["user"] = table[user[r]]
    BY <1>7 DEF HeldFits, RequestFits
  <2> QED
    BY <1>1, <1>3, <1>5, <1>7, <2>1 DEF KeyOf, Position
<1>8. stage[r] \in Stage
  BY DEF TypeOK
<1> QED
  BY <1>1, <1>3, <1>5, <1>6, <1>7, <1>8 DEF Stage

(* A key whose table entry is another limiter than l has none of its       *)
(* tokens in l.                                                            *)
LEMMA OtherTokens ==
  ASSUME HeldFits, NEW k \in Key, NEW l, table[k] # l, table' = table,
         \A m \in DOMAIN limiters : m # l => limiters'[m] = limiters[m]
  PROVE  Tokens(k)' = Tokens(k)
<1>1. table[k] # 0 => table[k] \in DOMAIN limiters
  BY DEF HeldFits, TableFits, LimitersOf
<1> QED
  BY <1>1 DEF Tokens, Burst

LEMMA AdmitMaps ==
  ASSUME IInv, NEW r \in Request, Admit(r)
  PROVE  Buckets!Next
<1>1. TypeOK /\ HeldFits
  BY DEF IInv, RateInv
<1>2. PICK l, k : l = held[r][stage[r]] /\ k = KeyOf(r)
  OBVIOUS
<1>3. pc[r] = "allow"
  BY DEF Admit
<1>4. /\ k \in Key
      /\ l \in DOMAIN limiters /\ limiters[l].key = k
      /\ l # 0
      /\ \/ stage[r] = "ip" /\ k = ip[r] /\ l = table[k] /\ Position(r) = "ip"
         \/ stage[r] = "ip" /\ k = ip[r] /\ l # table[k] /\ Position(r) = "late"
         \/ stage[r] = "user" /\ k = user[r] /\ l = table[k] /\ Position(r) = "user"
  BY <1>1, <1>2, <1>3, AllowPosition
<1>5. /\ \A m \in DOMAIN limiters : m # l => limiters'[m] = limiters[m]
      /\ limiters[l].tokens > 0
      /\ limiters'[l].tokens = limiters[l].tokens - 1
  BY <1>1, <1>2, AdmitTakes
<1>6. /\ ip' = ip /\ user' = user /\ table' = table /\ held' = held
      /\ stage[r] = "ip" /\ user[r] # None => pc'[r] = "lookUp" /\ stage'[r] = "user"
      /\ stage[r] # "ip" \/ user[r] = None => pc'[r] = "next"
      /\ \A q \in Request : q # r => pc'[q] = pc[q] /\ stage'[q] = stage[q]
  BY <1>1 DEF Admit, Proceed, TypeOK
<1>7. \A x \in Key : table[x] # l => Tokens(x)' = Tokens(x)
  BY <1>1, <1>5, <1>6, OtherTokens
<1>8. \A x \in Key : table[x] = l => x = k
  BY <1>1, <1>4 DEF HeldFits, TableFits, LimitersOf
<1>9. PICK s : s = IF stage[r] = "ip" /\ user[r] # None THEN "user" ELSE "next"
  OBVIOUS
<1>10. Position(r)' = s
  BY <1>6, <1>9 DEF Position
<1>11. \A q \in Request : q # r => Position(q)' = Position(q)
  BY <1>6, SamePosition
<1>12. [q \in Request |-> Position(q)]' = [[q \in Request |-> Position(q)] EXCEPT ![r] = s]
  BY <1>10, <1>11
<1>13. Buckets!Go(r, s)
  BY <1>6, <1>12 DEF Buckets!Go
<1>14. CASE l = table[k]
  <2>1. Tokens(k) = limiters[l].tokens /\ Tokens(k)' = limiters'[l].tokens
    BY <1>4, <1>6, <1>14 DEF Tokens
  <2>2. Tokens(k) > 0 /\ Tokens(k)' = Tokens(k) - 1
    BY <1>5, <2>1
  <2>3. \A x \in Key : x # k => Tokens(x)' = Tokens(x)
    BY <1>7, <1>8
  <2>4. [x \in Key |-> Tokens(x)]' = [[x \in Key |-> Tokens(x)] EXCEPT ![k] = @ - 1]
    BY <1>4, <2>2, <2>3
  <2>5. Buckets!Admit(r, k, s)
    BY <1>4, <1>13, <2>2, <2>4 DEF Buckets!Admit
  <2>6. CASE stage[r] = "ip"
    BY <1>4, <1>9, <1>14, <2>5, <2>6
       DEF Buckets!Next, Buckets!DecideIp, Buckets!AfterIp
  <2>7. CASE stage[r] = "user"
    BY <1>4, <1>9, <2>5, <2>7 DEF Buckets!Next, Buckets!DecideUser
  <2> QED
    BY <1>4, <2>6, <2>7
<1>15. CASE l # table[k]
  <2>1. \A x \in Key : Tokens(x)' = Tokens(x)
    BY <1>7, <1>8, <1>15
  <2>2. [x \in Key |-> Tokens(x)]' = [x \in Key |-> Tokens(x)]
    BY <2>1
  <2> QED
    BY <1>4, <1>9, <1>13, <1>15, <2>2
       DEF Buckets!Next, Buckets!DecideLate, Buckets!AfterIp
<1> QED
  BY <1>14, <1>15

LEMMA RefuseMaps ==
  ASSUME IInv, NEW r \in Request, Refuse(r)
  PROVE  Buckets!Next
<1>1. TypeOK /\ HeldFits
  BY DEF IInv, RateInv
<1>2. PICK l, k : l = held[r][stage[r]] /\ k = KeyOf(r)
  OBVIOUS
<1>3. pc[r] = "allow"
  BY DEF Refuse
<1>4. /\ k \in Key
      /\ l # 0
      /\ \/ stage[r] = "ip" /\ k = ip[r] /\ l = table[k] /\ Position(r) = "ip"
         \/ stage[r] = "ip" /\ k = ip[r] /\ l # table[k] /\ Position(r) = "late"
         \/ stage[r] = "user" /\ k = user[r] /\ l = table[k] /\ Position(r) = "user"
  BY <1>1, <1>2, <1>3, AllowPosition
<1>5. /\ ip' = ip /\ user' = user /\ table' = table /\ held' = held /\ stage' = stage
      /\ limiters' = limiters /\ limiters[l].tokens = 0
      /\ pc'[r] = "refused"
      /\ \A q \in Request : q # r => pc'[q] = pc[q]
  BY <1>1, <1>2 DEF Refuse, TypeOK
<1>6. \A x \in Key : Tokens(x)' = Tokens(x)
  BY <1>5 DEF Tokens
<1>7. Position(r)' = "refused" /\ \A q \in Request : q # r => Position(q)' = Position(q)
  BY <1>5, SamePosition DEF Position
<1>8. [q \in Request |-> Position(q)]'
        = [[q \in Request |-> Position(q)] EXCEPT ![r] = "refused"]
  BY <1>7
<1>9. [x \in Key |-> Tokens(x)]' = [x \in Key |-> Tokens(x)]
  BY <1>6
<1>10. Buckets!Go(r, "refused")
  BY <1>5, <1>8 DEF Buckets!Go
<1>11. l = table[k] => Tokens(k) = 0
  BY <1>4, <1>5 DEF Tokens
<1>12. l = table[k] => Buckets!Refuse(r, k)
  BY <1>4, <1>9, <1>10, <1>11 DEF Buckets!Refuse
<1> QED
  BY <1>4, <1>9, <1>10, <1>12
     DEF Buckets!Next, Buckets!DecideIp, Buckets!DecideUser, Buckets!DecideLate

LEMMA TickMaps ==
  ASSUME IInv, Tick
  PROVE  Buckets!Next
<1>1. TypeOK /\ HeldFits
  BY DEF IInv, RateInv
<1>2. /\ ip' = ip /\ user' = user /\ table' = table /\ held' = held /\ stage' = stage
      /\ pc' = pc
  BY DEF Tick
<1>3. ASSUME NEW k \in Key PROVE Tokens(k)' = Least(Tokens(k) + Rate(k), Burst(k))
  <2>1. CASE table[k] = 0
    BY <1>2, <2>1, RateTypes DEF Tokens, Least, Burst
  <2>2. CASE table[k] # 0
    <3>1. table[k] \in DOMAIN limiters /\ limiters[table[k]].key = k
      BY <1>1, <2>2 DEF HeldFits, TableFits, LimitersOf
    <3>2. limiters'[table[k]].tokens = Least(limiters[table[k]].tokens + Rate(k), Burst(k))
      BY <1>1, <3>1, TickRefills
    <3> QED
      BY <1>2, <2>2, <3>2 DEF Tokens
  <2> QED
    BY <2>1, <2>2
<1>4. [k \in Key |-> Tokens(k)]'
        = [k \in Key |-> Buckets!Least([x \in Key |-> Tokens(x)][k] + Buckets!Rate(k), Buckets!Burst(k))]
  BY <1>3 DEF Least, Rate, Burst, Buckets!Least, Buckets!Rate, Buckets!Burst
<1>5. \A q \in Request : Position(q)' = Position(q)
  BY <1>2, SamePosition
<1>6. [q \in Request |-> Position(q)]' = [q \in Request |-> Position(q)]
  BY <1>5
<1>7. Buckets!Tick
  BY <1>2, <1>4, <1>6 DEF Buckets!Tick, Buckets!Key, Key
<1> QED
  BY <1>7 DEF Buckets!Next

LEMMA CleanupMaps ==
  ASSUME IInv, Cleanup
  PROVE  Buckets!Next
<1>1. TypeOK /\ HeldFits
  BY DEF IInv, RateInv
<1>2. /\ ip' = ip /\ user' = user /\ held' = held /\ stage' = stage /\ pc' = pc
      /\ limiters' = limiters
      /\ \A k \in Key : table'[k] = IF k \in Ip THEN 0 ELSE table[k]
  BY DEF Cleanup
<1>3. ASSUME NEW k \in Key PROVE Tokens(k)' = IF k \in Ip THEN IpBurst ELSE Tokens(k)
  BY <1>2 DEF Tokens, Burst
<1>4. [k \in Key |-> Tokens(k)]'
        = [k \in Key |-> IF k \in Ip THEN IpBurst ELSE [x \in Key |-> Tokens(x)][k]]
  BY <1>3
<1> DEFINE late == {q \in Request : Position(q) = "ip" /\ pc[q] = "allow"}
<1>5. ASSUME NEW q \in Request
      PROVE  Position(q)' = IF q \in late THEN "late" ELSE Position(q)
  <2>1. CASE pc[q] = "allow" /\ stage[q] = "ip"
    <3>1. held[q]["ip"] \in 1..Len(limiters) /\ ip[q] \in Ip
      BY <1>1, <2>1, HeldInDomain
    <3>2. table'[ip[q]] = 0
      BY <1>2, <3>1 DEF Key
    <3>3. held[q]["ip"] # 0
      BY <1>1, <3>1 DEF TypeOK
    <3>4. Position(q)' = "late"
      BY <1>2, <2>1, <3>2, <3>3 DEF Position
    <3>5. Position(q) \in {"ip", "late"}
      BY <2>1 DEF Position
    <3> QED
      BY <2>1, <3>4, <3>5
  <2>2. CASE ~(pc[q] = "allow" /\ stage[q] = "ip")
    <3>1. Position(q)' = Position(q)
      BY <1>2, <2>2 DEF Position
    <3>2. Position(q) = "ip" => pc[q] # "allow"
      BY <2>2 DEF Position
    <3> QED
      BY <3>1, <3>2
  <2> QED
    BY <2>1, <2>2
<1>6. late \in SUBSET {q \in Request : [x \in Request |-> Position(x)][q] = "ip"}
  OBVIOUS
<1> HIDE DEF late
<1>7. [q \in Request |-> Position(q)]'
        = [q \in Request |-> IF q \in late THEN "late" ELSE [x \in Request |-> Position(x)][q]]
  BY <1>5
<1>8. Buckets!Reset
  BY <1>2, <1>4, <1>6, <1>7 DEF Buckets!Reset, Buckets!Key, Key
<1> QED
  BY <1>8 DEF Buckets!Next

LEMMA InitMaps == Init => Buckets!Init
<1> SUFFICES ASSUME Init PROVE Buckets!Init
  OBVIOUS
<1>1. [k \in Key |-> Tokens(k)] = [k \in Key |-> Burst(k)]
  BY DEF Init, Tokens
<1>2. [q \in Request |-> Position(q)] = [q \in Request |-> "new"]
  BY DEF Init, Position
<1> QED
  BY <1>1, <1>2 DEF Init, Buckets!Init, Buckets!Key, Key, Buckets!Burst, Burst

(* Limiters created on demand by racing requests, and dropped by cleanups  *)
(* while requests hold them, are one token bucket per address and email,   *)
(* those of the addresses refilled at a cleanup.                           *)
THEOREM LimiterImplementsBuckets == Spec => ImplementsBuckets
<1>1. IInv /\ [Next]_vars => [Buckets!Next]_Buckets!vars
  <2> SUFFICES ASSUME IInv, [Next]_vars PROVE [Buckets!Next]_Buckets!vars
    OBVIOUS
  <2>1. ASSUME NEW r \in Request, NEW a \in Ip, NEW e \in Email \cup {None}, Arrive(r, a, e)
        PROVE  Buckets!Next
    BY <2>1, ArriveMaps
  <2>2. ASSUME NEW r \in Request, LookUp(r) PROVE UNCHANGED Buckets!vars
    BY <2>2, LookUpMaps
  <2>3. ASSUME NEW r \in Request, Create(r) PROVE UNCHANGED Buckets!vars
    BY <2>3, CreateMaps
  <2>4. ASSUME NEW r \in Request, Admit(r) PROVE Buckets!Next
    BY <2>4, AdmitMaps
  <2>5. ASSUME NEW r \in Request, Refuse(r) PROVE Buckets!Next
    BY <2>5, RefuseMaps
  <2>6. ASSUME UNCHANGED vars PROVE UNCHANGED Buckets!vars
    <3>1. \A k \in Key : Tokens(k)' = Tokens(k)
      BY <2>6 DEF vars, Tokens
    <3>2. \A q \in Request : Position(q)' = Position(q)
      BY <2>6, SamePosition DEF vars
    <3> QED
      BY <2>6, <3>1, <3>2, SameMapped DEF vars
  <2> QED
    BY <2>1, <2>2, <2>3, <2>4, <2>5, <2>6, TickMaps, CleanupMaps DEF Next
<1> QED
  BY <1>1, InitMaps, InitInv, NextInv, PTL DEF Spec, ImplementsBuckets, Buckets!Spec
=============================================================================
