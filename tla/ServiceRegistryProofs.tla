------------------------ MODULE ServiceRegistryProofs ------------------------
(***************************************************************************)
(* Proofs about ServiceRegistry: the newest registration is listed for as  *)
(* long as its own lease lasts, and the registry implements AddressBook,   *)
(* for any number of processes and any time to live.                       *)
(***************************************************************************)
EXTENDS ServiceRegistry, TLAPS

USE RegistryAssumption

-----------------------------------------------------------------------------
(* The order of the steps in the mains.                                    *)
LEMMA MainIs ==
  /\ Main["auth"] = <<"connect", "grant", "put", "keepAlive", "listen">>
  /\ Main["user"] = <<"connect", "grant", "put", "keepAlive", "tables", "bus", "listen">>
  /\ Main["product"] = <<"tables", "connect", "grant", "put", "keepAlive", "listen">>
  /\ \A s \in Service \ {"auth", "user", "product"} :
       Main[s] = <<"tables", "listen", "connect", "grant", "put", "keepAlive">>
BY DEF Service, Main, AuthMain, UserMain, ProductMain, CartMain, OrderMain, PaymentMain, CheckoutMain

LEMMA MainLength ==
  ASSUME NEW s \in Service
  PROVE  Len(Main[s]) \in 1..7
<1>1. CASE s = "auth"     BY <1>1, MainIs
<1>2. CASE s = "user"     BY <1>2, MainIs
<1>3. CASE s = "product"  BY <1>3, MainIs
<1>4. CASE s \notin {"auth", "user", "product"}  BY <1>4, MainIs
<1> QED  BY <1>1, <1>2, <1>3, <1>4

LEMMA GrantBeforePut ==
  ASSUME NEW s \in Service, NEW i \in 1..Len(Main[s]), NEW j \in 1..Len(Main[s]),
         Main[s][i] \in {"grant", "put"}, Main[s][j] = "put"
  PROVE  i <= j
<1>1. CASE s = "auth"     BY <1>1, MainIs
<1>2. CASE s = "user"     BY <1>2, MainIs
<1>3. CASE s = "product"  BY <1>3, MainIs
<1>4. CASE s \notin {"auth", "user", "product"}  BY <1>4, MainIs
<1> QED  BY <1>1, <1>2, <1>3, <1>4

LEMMA ListenBeforePut ==
  ASSUME NEW s \in Service \ {"auth", "user", "product"}, NEW i \in 1..Len(Main[s]),
         Main[s][i] = "put"
  PROVE  Main[s][2] = "listen" /\ 2 <= i
BY MainIs

-----------------------------------------------------------------------------
(* Type correctness.                                                       *)
LEMMA TypeInit == Init => TypeOK
<1> SUFFICES ASSUME Init  PROVE  TypeOK
  OBVIOUS
<1>0. Len(Main[service]) \in 1..7  BY MainLength DEF Init
<1>1. \A p \in Process : at[p] <= Len(Main[service])
  <2> TAKE p \in Process
  <2>1. 0 <= Len(Main[service])  BY <1>0
  <2>2. at[p] = 0  BY DEF Init
  <2> QED  BY <2>1, <2>2
<1> QED  BY <1>1 DEF Init, TypeOK

LEMMA AdvanceType ==
  ASSUME TypeOK, NEW p \in Process, NEW steps, Advance(p, steps)
  PROVE  /\ service' = service /\ status' = status /\ cut' = cut
         /\ at' \in [Process -> 0..7]
         /\ \A q \in Process : at'[q] <= Len(Main[service])
         /\ at[p] + 1 \in 1..Len(Main[service])
         /\ Main[service][at[p] + 1] \in steps
         /\ \A q \in Process : at'[q] = IF q = p THEN at[p] + 1 ELSE at[q]
<1>1. Len(Main[service]) \in 1..7  BY MainLength DEF TypeOK
<1>2. at[p] \in 0..7 /\ at[p] < Len(Main[service])  BY DEF TypeOK, Advance
<1>3. at[p] + 1 \in 1..Len(Main[service])  BY <1>1, <1>2
<1>4. \A q \in Process : at'[q] = IF q = p THEN at[p] + 1 ELSE at[q]
  BY DEF TypeOK, Advance
<1>5. \A q \in Process : at[q] <= Len(Main[service])  BY DEF TypeOK
<1>6. at' \in [Process -> 0..7]  BY <1>1, <1>3 DEF TypeOK, Advance
<1>7. \A q \in Process : at'[q] <= Len(Main[service])  BY <1>3, <1>4, <1>5
<1> QED  BY <1>3, <1>4, <1>6, <1>7 DEF Advance

LEMMA TypeStep == TypeOK /\ [Next]_vars => TypeOK'
<1> SUFFICES ASSUME TypeOK, [Next]_vars  PROVE  TypeOK'
  OBVIOUS
<1>1. ASSUME NEW p \in Process, Start(p) \/ Lose(p) \/ Stop(p) \/ End(p) \/ Cut(p) \/ Mend(p)
      PROVE  TypeOK'
  BY <1>1 DEF TypeOK, Start, Lose, Stop, End, Cut, Mend, process, registry
<1>2. ASSUME NEW p \in Process, Prepare(p)  PROVE  TypeOK'
  <2>1. Advance(p, {"tables", "bus", "listen", "connect"})  BY <1>2 DEF Prepare
  <2> QED  BY <1>2, <2>1, AdvanceType DEF TypeOK, Prepare, registry
<1>3. ASSUME NEW p \in Process, Grant(p)  PROVE  TypeOK'
  <2>1. Advance(p, {"grant"})  BY <1>3 DEF Grant
  <2> QED  BY <1>3, <2>1, AdvanceType DEF TypeOK, Grant
<1>4. ASSUME NEW p \in Process, Put(p)  PROVE  TypeOK'
  <2>1. Advance(p, {"put"})  BY <1>4 DEF Put
  <2> QED  BY <1>4, <2>1, AdvanceType DEF TypeOK, Put
<1>5. ASSUME NEW p \in Process, KeepAlive(p)  PROVE  TypeOK'
  <2>1. Advance(p, {"keepAlive"})  BY <1>5 DEF KeepAlive
  <2> QED  BY <1>5, <2>1, AdvanceType DEF TypeOK, KeepAlive, registry
<1>6. CASE Tick
  <2>1. \A p \in Process : Left(p) \in 0..TTL  BY DEF TypeOK, Left
  <2>2. lease' \in [Process -> 0..TTL]  BY <1>6, <2>1 DEF Tick
  <2> QED  BY <1>6, <2>2 DEF TypeOK, Tick, process
<1>7. CASE UNCHANGED vars  BY <1>7 DEF TypeOK, vars, process, registry
<1> QED  BY <1>1, <1>2, <1>3, <1>4, <1>5, <1>6, <1>7 DEF Next, ProcessStep

(* Type correctness: leases stay within the time they are granted for, and *)
(* no process goes past the end of its main (register.go, the mains).      *)
THEOREM TypeCorrect == Spec => []TypeOK
<1> QED  BY TypeInit, TypeStep, PTL DEF Spec

-----------------------------------------------------------------------------
(* What the steps of a main leave done.                                    *)
LEMMA DoneStays ==
  ASSUME TypeOK, NEW p \in Process, NEW q \in Process, NEW steps, NEW step,
         Advance(p, steps), Done(q, step)
  PROVE  Done(q, step)'
<1>1. PICK i \in 1..at[q] : Main[service][i] = step  BY DEF Done
<1>2. at'[q] \in 0..7 /\ at[q] \in 0..7 /\ at[q] <= at'[q] /\ service' = service
  BY AdvanceType DEF TypeOK
<1>3. i \in 1..at'[q]  BY <1>2
<1> QED  BY <1>1, <1>2, <1>3 DEF Done

LEMMA DoneNow ==
  ASSUME TypeOK, NEW p \in Process, NEW step, Advance(p, {step})
  PROVE  Done(p, step)'
<1>1. at'[p] = at[p] + 1 /\ at[p] \in 0..7 /\ service' = service
      /\ Main[service][at[p] + 1] = step
  BY AdvanceType DEF TypeOK
<1>2. at[p] + 1 \in 1..at'[p]  BY <1>1
<1> QED  BY <1>1, <1>2 DEF Done

LEMMA NotYetPut ==
  ASSUME TypeOK, NEW p \in Process, NEW step \in {"grant", "put"}, Advance(p, {step})
  PROVE  ~Done(p, "put")
<1> SUFFICES ASSUME NEW j \in 1..at[p], Main[service][j] = "put"  PROVE  FALSE
  BY DEF Done
<1>1. at[p] \in 0..7 /\ Len(Main[service]) \in 1..7 /\ service \in Service
  BY MainLength DEF TypeOK
<1>2. at[p] + 1 \in 1..Len(Main[service]) /\ Main[service][at[p] + 1] \in {"grant", "put"}
  BY AdvanceType
<1>3. j \in 1..Len(Main[service])  BY <1>1, <1>2
<1>4. at[p] + 1 <= j  BY <1>1, <1>2, <1>3, GrantBeforePut
<1> QED  BY <1>1, <1>4

LEMMA NobodyElsesPut ==
  ASSUME TypeOK, NEW p \in Process, NEW steps, Advance(p, steps), "put" \notin steps,
         NEW q \in Process, Done(q, "put")'
  PROVE  Done(q, "put")
<1>1. PICK i \in 1..at'[q] : Main[service'][i] = "put"  BY DEF Done
<1>2. /\ service' = service /\ at[q] \in 0..7
      /\ Main[service][at[p] + 1] \in steps
      /\ at'[q] = IF q = p THEN at[p] + 1 ELSE at[q]
  BY AdvanceType DEF TypeOK
<1>3. i \in 1..at[q]  BY <1>1, <1>2
<1> QED  BY <1>1, <1>2, <1>3 DEF Done

-----------------------------------------------------------------------------
(* The newest registration is listed while its lease lasts.                *)
LEMMA RegistryInit == Init => RegistryInv
BY DEF Init, RegistryInv, NewestIsListed

LEMMA GrantKeeps ==
  ASSUME TypeOK, RegistryInv, NEW p \in Process, Grant(p)
  PROVE  RegistryInv'
<1>1. Advance(p, {"grant"})  BY DEF Grant
<1>2. ~Done(p, "put")  BY <1>1, NotYetPut
<1>3. p # newest /\ p # key  BY <1>2 DEF RegistryInv, NewestIsListed
<1>4. \A q \in Process : q # p => lease'[q] = lease[q]  BY DEF Grant, TypeOK
<1>5. status' = status /\ key' = key /\ newest' = newest /\ stale' = stale
  BY DEF Grant, Advance
<1>6. newest # None => newest \in Process /\ lease'[newest] = lease[newest]
  BY <1>3, <1>4 DEF TypeOK
<1>7. newest # None => Done(newest, "put")'
  <2> SUFFICES ASSUME newest # None  PROVE  Done(newest, "put")'
    OBVIOUS
  <2>1. PICK q \in Process : q = newest  BY DEF TypeOK
  <2>2. Done(q, "put")'  BY <1>1, <2>1, DoneStays DEF RegistryInv
  <2> QED  BY <2>1, <2>2, <1>5 DEF Done
<1> QED  BY <1>5, <1>6, <1>7 DEF RegistryInv, NewestIsListed

LEMMA PutKeeps ==
  ASSUME TypeOK, RegistryInv, NEW p \in Process, Put(p)
  PROVE  RegistryInv'
<1>1. Advance(p, {"put"})  BY DEF Put
<1>2. Done(p, "put")'  BY <1>1, DoneNow
<1>3. status'[p] = "up"  BY <1>1 DEF Advance
<1>4. key' = p /\ newest' = p /\ stale' = 0 /\ lease' = lease /\ lease[p] > 0
  BY DEF Put
<1>5. lease[p] \in 0..TTL /\ TTL \in Nat  BY DEF TypeOK
<1>6. Done(newest, "put")'  BY <1>2, <1>4 DEF Done
<1> QED  BY <1>3, <1>4, <1>5, <1>6 DEF RegistryInv, NewestIsListed

LEMMA TickKeeps ==
  ASSUME TypeOK, RegistryInv, Tick
  PROVE  RegistryInv'
<1>0. newest # None => Done(newest, "put")'  BY DEF RegistryInv, Tick, process, Done
<1>1. status' = status /\ newest' = newest  BY DEF Tick, process
<1>2. ASSUME NEW q \in Process
      PROVE  lease'[q] = Left(q) /\ Left(q) \in 0..TTL /\ (lease[q] = 0 => Left(q) = 0)
  <2>1. lease'[q] = Left(q)  BY DEF Tick
  <2>2. lease[q] \in 0..TTL /\ TTL \in Nat  BY DEF TypeOK
  <2> QED  BY <2>1, <2>2 DEF Left
<1>3. CASE key = None
  <2>1. key' = None /\ stale' = stale  BY <1>3 DEF Tick
  <2>2. newest # None => lease'[newest] = 0
    <3> SUFFICES ASSUME newest # None  PROVE  lease'[newest] = 0
      OBVIOUS
    <3>1. PICK q \in Process : q = newest  BY DEF TypeOK
    <3>2. lease[q] = 0  BY <1>3, <3>1 DEF RegistryInv, NewestIsListed, TypeOK
    <3>3. lease'[q] = 0  BY <1>2, <3>2
    <3> QED  BY <3>1, <3>3
  <2> QED  BY <1>0, <1>1, <2>1, <2>2 DEF RegistryInv, NewestIsListed
<1>4. CASE key # None
  <2>1. PICK k \in Process : k = key  BY <1>4 DEF TypeOK
  <2>2. k = newest /\ lease[k] \in 1..TTL /\ stale \in Nat /\ k # None
    BY <1>4, <2>1 DEF RegistryInv, NewestIsListed, TypeOK
  <2>3. key' = IF Left(k) = 0 THEN None ELSE k  BY <1>4, <2>1 DEF Tick
  <2>4. newest' = k /\ lease'[k] = Left(k) /\ Left(k) \in 0..TTL
    <3>1. lease'[k] = Left(k) /\ Left(k) \in 0..TTL  BY <1>2
    <3> QED  BY <1>1, <2>2, <3>1
  <2>5. NewestIsListed'  BY <2>2, <2>3, <2>4 DEF NewestIsListed
  <2>6. stale + lease[k] <= TTL /\ (status[k] # "ended" => stale = 0)
    BY <2>1, <2>2 DEF RegistryInv
  <2>7. stale' + lease'[k] <= TTL /\ stale' <= TTL /\ (status[k] # "ended" => stale' = 0)
    <3>1. CASE status[k] = "ended"
      <4>1. stale' = stale + 1  BY <1>4, <2>1, <3>1 DEF Tick
      <4>2. Left(k) = lease[k] - 1  BY <2>2, <3>1 DEF Left, Renewed, Running
      <4> QED  BY <2>2, <2>4, <2>6, <3>1, <4>1, <4>2
    <3>2. CASE status[k] # "ended"
      <4>1. stale' = 0  BY <1>4, <2>1, <2>6, <3>2 DEF Tick
      <4> QED  BY <2>4, <4>1
    <3> QED  BY <3>1, <3>2
  <2> QED  BY <1>0, <1>1, <2>2, <2>3, <2>4, <2>5, <2>7 DEF RegistryInv
<1> QED  BY <1>3, <1>4

(* A step of a process that leaves the registry alone.                     *)
LEMMA OthersKeep ==
  ASSUME TypeOK, RegistryInv, registry' = registry,
         newest # None => Done(newest, "put")' /\ status'[newest] # "off",
         \A q \in Process : status[q] = "ended" <=> status'[q] = "ended"
  PROVE  RegistryInv'
<1>1. key' = key /\ newest' = newest /\ stale' = stale /\ lease' = lease
  BY DEF registry
<1> QED  BY <1>1 DEF RegistryInv, NewestIsListed, TypeOK, Done

LEMMA RegistryStep == TypeOK /\ RegistryInv /\ [Next]_vars => RegistryInv'
<1> SUFFICES ASSUME TypeOK, RegistryInv, [Next]_vars  PROVE  RegistryInv'
  OBVIOUS
<1>1. ASSUME NEW p \in Process, ProcessStep(p), service' = service, at' = at, registry' = registry,
             \A q \in Process : status[q] = "ended" <=> status'[q] = "ended",
             \A q \in Process : status[q] # "off" => status'[q] # "off"
      PROVE  RegistryInv'
  <2>1. newest' = newest  BY <1>1 DEF registry
  <2>2. newest # None => Done(newest, "put")' /\ status'[newest] # "off"
    BY <1>1, <2>1 DEF RegistryInv, TypeOK, Done
  <2> QED  BY <1>1, <2>2, OthersKeep
<1>2. ASSUME NEW p \in Process, NEW steps, Advance(p, steps), registry' = registry
      PROVE  RegistryInv'
  <2>1. status' = status /\ newest' = newest  BY <1>2 DEF Advance, registry
  <2>2. newest # None => Done(newest, "put")'
    <3> SUFFICES ASSUME newest # None  PROVE  Done(newest, "put")'
      OBVIOUS
    <3>1. PICK q \in Process : q = newest  BY DEF TypeOK
    <3>2. Done(q, "put")'  BY <1>2, <3>1, DoneStays DEF RegistryInv
    <3> QED  BY <2>1, <3>1, <3>2 DEF Done
  <2> QED  BY <1>2, <2>1, <2>2, OthersKeep DEF RegistryInv
<1>3. ASSUME NEW p \in Process, End(p)  PROVE  RegistryInv'
  <2>1. status' = [status EXCEPT ![p] = "ended"] /\ registry' = registry /\ at' = at
        /\ service' = service
    BY <1>3 DEF End
  <2>2. key' = key /\ newest' = newest /\ stale' = stale /\ lease' = lease
    BY <2>1 DEF registry
  <2>3. newest # None => status'[newest] # "off"  BY <2>1 DEF RegistryInv, TypeOK
  <2>4. key # None /\ status'[key] # "ended" => stale = 0  BY <2>1 DEF RegistryInv, TypeOK
  <2>5. newest # None => Done(newest, "put")'  BY <2>1, <2>2 DEF RegistryInv, Done
  <2> QED  BY <2>2, <2>3, <2>4, <2>5 DEF RegistryInv, NewestIsListed
<1>4. ASSUME NEW p \in Process, ProcessStep(p)  PROVE  RegistryInv'
  <2>1. CASE Start(p)  BY <1>1, <1>4, <2>1 DEF Start, TypeOK
  <2>2. CASE Prepare(p)  BY <1>2, <2>2 DEF Prepare
  <2>3. CASE Grant(p)  BY <2>3, GrantKeeps
  <2>4. CASE Put(p)  BY <2>4, PutKeeps
  <2>5. CASE KeepAlive(p)  BY <1>2, <2>5 DEF KeepAlive
  <2>6. CASE Lose(p)  BY <1>1, <1>4, <2>6 DEF Lose, process
  <2>7. CASE Stop(p)  BY <1>1, <1>4, <2>7 DEF Stop, Serving, TypeOK
  <2>8. CASE End(p)  BY <1>3, <2>8
  <2>9. CASE Cut(p) \/ Mend(p)  BY <1>1, <1>4, <2>9 DEF Cut, Mend, process
  <2> QED  BY <1>4, <2>1, <2>2, <2>3, <2>4, <2>5, <2>6, <2>7, <2>8, <2>9 DEF ProcessStep
<1>5. CASE Tick  BY <1>5, TickKeeps
<1>6. CASE UNCHANGED vars
  <2>1. newest' = newest /\ at' = at /\ service' = service /\ status' = status
        /\ registry' = registry
    BY <1>6 DEF vars, process, registry
  <2>2. newest # None => Done(newest, "put")' /\ status'[newest] # "off"
    BY <2>1 DEF RegistryInv, Done
  <2> QED  BY <2>1, <2>2, OthersKeep
<1> QED  BY <1>4, <1>5, <1>6 DEF Next

(* The newest registration is listed for as long as its lease lasts, and   *)
(* an entry's time without its owner is bounded by what is left of the     *)
(* lease (register.go:28-40).                                              *)
THEOREM RegistryInvariant == Spec => []RegistryInv
<1>1. Init => TypeOK /\ RegistryInv  BY TypeInit, RegistryInit
<1>2. TypeOK /\ RegistryInv /\ [Next]_vars => (TypeOK /\ RegistryInv)'
  BY TypeStep, RegistryStep
<1> QED  BY <1>1, <1>2, PTL DEF Spec

(* A listed process of the services that listen first answers, or has been *)
(* stopped or died (cart, order, payment and checkout main.go).            *)
THEOREM AddressesAnswer == Spec => []AddressAnswers
<1>1. ASSUME TypeOK, RegistryInv  PROVE  AddressAnswers
  <2> SUFFICES ASSUME key # None, service \notin {"auth", "user", "product"},
                      status[key] \notin {"stopping", "ended"}
               PROVE  Listening(key)
    BY DEF AddressAnswers
  <2>1. PICK k \in Process : k = key  BY <1>1 DEF TypeOK
  <2>2. Done(k, "put") /\ status[k] = "up"
    <3>1. key = newest /\ newest # None  BY <1>1 DEF RegistryInv, NewestIsListed
    <3> QED  BY <1>1, <2>1, <3>1 DEF RegistryInv, TypeOK
  <2>3. PICK i \in 1..at[k] : Main[service][i] = "put"  BY <2>2 DEF Done
  <2>4. at[k] \in 0..7 /\ at[k] <= Len(Main[service]) /\ Len(Main[service]) \in 1..7
    BY <1>1, MainLength DEF TypeOK
  <2>5. i \in 1..Len(Main[service])  BY <2>3, <2>4
  <2>6. Main[service][2] = "listen" /\ 2 <= i
    BY <1>1, <2>3, <2>5, ListenBeforePut DEF TypeOK
  <2>7. 2 \in 1..at[k]  BY <2>3, <2>4, <2>6
  <2> QED  BY <2>1, <2>2, <2>6, <2>7 DEF Listening, Done
<1> QED  BY <1>1, TypeCorrect, RegistryInvariant, PTL

-----------------------------------------------------------------------------
(* The registry implements AddressBook.                                    *)
BookUnkept == {p \in Process : ~Renewed(p)}
BookAnnounced == {p \in Process : Done(p, "put")}

LEMMA BookInit == Init => Book!Init
<1> SUFFICES ASSUME Init  PROVE  Book!Init
  OBVIOUS
<1>1. ASSUME NEW p \in Process  PROVE  ~Done(p, "put")
  <2>1. at[p] = 0  BY DEF Init
  <2> QED  BY <2>1 DEF Done
<1>2. \A p \in Process : ~Renewed(p)  BY DEF Init, Renewed, Running
<1> QED  BY <1>1, <1>2 DEF Init, Book!Init

(* A step that leaves the key and what has been put alone.                 *)
LEMMA BookWavers ==
  ASSUME key' = key, BookAnnounced' = BookAnnounced
  PROVE  Book!Waver
<1>1. BookUnkept' \in SUBSET Process  BY DEF BookUnkept
<1> QED  BY <1>1 DEF Book!Waver, BookUnkept, BookAnnounced

LEMMA BookAnnounces ==
  ASSUME TypeOK, NEW p \in Process, Put(p)
  PROVE  Book!Announce(p)
<1>1. Advance(p, {"put"}) /\ key' = p /\ keeper' = keeper  BY DEF Put
<1>2. ~Done(p, "put") /\ Done(p, "put")'  BY <1>1, NotYetPut, DoneNow
<1>3. ASSUME NEW q \in Process, q # p  PROVE  Done(q, "put")' <=> Done(q, "put")
  <2>1. at'[q] = at[q] /\ service' = service  BY <1>1, <1>3, AdvanceType
  <2> QED  BY <2>1 DEF Done
<1>4. BookAnnounced' = BookAnnounced \cup {p}  BY <1>2, <1>3 DEF BookAnnounced
<1>5. BookUnkept' = BookUnkept  BY <1>1 DEF BookUnkept, Renewed, Running, Advance
<1> QED  BY <1>1, <1>2, <1>4, <1>5 DEF Book!Announce, BookAnnounced, BookUnkept

LEMMA BookAdvance ==
  ASSUME TypeOK, NEW p \in Process, NEW steps, Advance(p, steps), "put" \notin steps,
         key' = key
  PROVE  Book!Waver
<1>1. ASSUME NEW q \in Process  PROVE  Done(q, "put")' <=> Done(q, "put")
  BY DoneStays, NobodyElsesPut
<1>2. BookAnnounced' = BookAnnounced  BY <1>1 DEF BookAnnounced
<1> QED  BY <1>2, BookWavers

LEMMA BookTick ==
  ASSUME TypeOK, RegistryInv, Tick
  PROVE  Book!Withdraw \/ UNCHANGED Book!vars
<1>1. status' = status /\ at' = at /\ service' = service /\ keeper' = keeper /\ cut' = cut
  BY DEF Tick, process
<1>2. BookAnnounced' = BookAnnounced  BY <1>1 DEF BookAnnounced, Done
<1>3. BookUnkept' = BookUnkept  BY <1>1 DEF BookUnkept, Renewed, Running
<1>4. CASE key' = key
  BY <1>2, <1>3, <1>4 DEF Book!vars, BookAnnounced, BookUnkept
<1>5. CASE key' # key
  <2>1. key' = None /\ key # None  BY <1>5 DEF Tick
  <2>2. PICK k \in Process : k = key  BY <2>1 DEF TypeOK
  <2>3. lease[k] > 0 /\ lease[k] \in Nat
    BY <2>1, <2>2 DEF RegistryInv, NewestIsListed, TypeOK
  <2>4. Left(k) = 0  BY <1>5, <2>2 DEF Tick
  <2>5. ~Renewed(k)  BY <2>3, <2>4 DEF Left
  <2>6. key \in BookUnkept  BY <2>2, <2>5 DEF BookUnkept
  <2> QED  BY <1>2, <1>3, <2>1, <2>6 DEF Book!Withdraw, BookAnnounced, BookUnkept
<1> QED  BY <1>4, <1>5

LEMMA BookStep ==
  ASSUME TypeOK, RegistryInv, [Next]_vars
  PROVE  [Book!Next]_(Book!vars)
<1>1. ASSUME NEW p \in Process, at' = at, service' = service, key' = key
      PROVE  Book!Waver
  <2>1. BookAnnounced' = BookAnnounced  BY <1>1 DEF BookAnnounced, Done
  <2> QED  BY <1>1, <2>1, BookWavers
<1>2. ASSUME NEW p \in Process, ProcessStep(p)
      PROVE  Book!Waver \/ Book!Announce(p)
  <2>1. CASE Start(p) \/ Lose(p) \/ Stop(p) \/ End(p) \/ Cut(p) \/ Mend(p)
    BY <1>1, <2>1 DEF Start, Lose, Stop, End, Cut, Mend, process, registry
  <2>2. CASE Prepare(p)  BY <2>2, BookAdvance DEF Prepare, registry
  <2>3. CASE Grant(p)  BY <2>3, BookAdvance DEF Grant
  <2>4. CASE Put(p)  BY <2>4, BookAnnounces
  <2>5. CASE KeepAlive(p)  BY <2>5, BookAdvance DEF KeepAlive, registry
  <2> QED  BY <1>2, <2>1, <2>2, <2>3, <2>4, <2>5 DEF ProcessStep
<1>3. CASE UNCHANGED vars
  <2>1. /\ key' = key /\ status' = status /\ at' = at /\ service' = service
        /\ keeper' = keeper /\ cut' = cut
    BY <1>3 DEF vars, process, registry
  <2>2. BookAnnounced' = BookAnnounced  BY <2>1 DEF BookAnnounced, Done
  <2>3. BookUnkept' = BookUnkept  BY <2>1 DEF BookUnkept, Renewed, Running
  <2> QED  BY <2>1, <2>2, <2>3 DEF Book!vars, BookAnnounced, BookUnkept
<1> QED  BY <1>2, <1>3, BookTick DEF Next, Book!Next

(* The registry keeps one entry, of the newest process that has announced  *)
(* itself, which goes only when that process does not keep it; and a       *)
(* process whose keepalive channel closed is never listed again            *)
(* (register.go:45).                                                       *)
THEOREM RegistryImplementsBook == Spec => ImplementsAddressBook
<1>1. Init => Book!Init  BY BookInit
<1>2. TypeOK /\ RegistryInv /\ [Next]_vars => [Book!Next]_(Book!vars)  BY BookStep
<1> QED  BY <1>1, <1>2, TypeCorrect, RegistryInvariant, PTL
      DEF Spec, ImplementsAddressBook, Book!Spec
=============================================================================
