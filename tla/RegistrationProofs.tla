------------------------- MODULE RegistrationProofs -------------------------
(***************************************************************************)
(* Proofs about Registration, for any replicas, calls and emails and any   *)
(* bounds: accounts stay one per call, email and id, events are true, and  *)
(* the looking and writing at several replicas implements Accounts.        *)
(***************************************************************************)
EXTENDS Registration, TLAPS

IInv == TypeOK /\ RegInv

-----------------------------------------------------------------------------
(* Types.                                                                  *)

(* A call about to write has a row for the table.                          *)
LEMMA RowTyped ==
  ASSUME TypeOK, NEW r \in Request, CallFits(r), pc[r] = "insert" \/ Opened(r)
  PROVE  Row(r) \in User
<1>1. id[r] \in 1..MaxId
  BY RegistrationAssumption DEF TypeOK, CallFits
<1>2. email[r] \in Email
  BY DEF TypeOK, CallFits, Opened
<1> QED
  BY <1>1, <1>2 DEF Row, User

LEMMA InitTyped == Init => TypeOK
<1> SUFFICES ASSUME Init PROVE TypeOK
  OBVIOUS
<1>1. Len(topic) = 0 /\ topic \in Seq(User)
  BY DEF Init
<1> QED
  BY <1>1, RegistrationAssumption DEF Init, TypeOK, Pc

LEMMA NextTyped == TypeOK /\ CallsFit /\ [Next]_vars => TypeOK'
<1> SUFFICES ASSUME TypeOK, CallsFit, [Next]_vars PROVE TypeOK'
  OBVIOUS
<1> USE RegistrationAssumption
<1>1. ASSUME NEW r \in Request, NEW p \in Replica, NEW e \in Email, Begin(r, p, e)
      PROVE  TypeOK'
  BY <1>1 DEF TypeOK, Begin, Goto, Pc, bus
<1>2. ASSUME NEW r \in Request, CheckEmail(r) PROVE TypeOK'
  BY <1>2 DEF TypeOK, CheckEmail, Goto, Pc, bus
<1>3. ASSUME NEW r \in Request, Generate(r) PROVE TypeOK'
  <2>1. on[r] \in Replica
    BY <1>3 DEF Generate, CallsFit, CallFits
  <2>2. PICK i \in (last[on[r]] + 1)..MaxId :
          id' = [id EXCEPT ![r] = i] /\ last' = [last EXCEPT ![on[r]] = i]
    BY <1>3 DEF Generate
  <2>3. i \in 0..MaxId
    BY <2>1, <2>2 DEF TypeOK
  <2>4. id' \in [Request -> 0..MaxId] /\ last' \in [Replica -> 0..MaxId]
    BY <2>1, <2>2, <2>3 DEF TypeOK
  <2> QED
    BY <1>3, <2>4 DEF TypeOK, Generate, Goto, Pc, bus
<1>4. ASSUME NEW r \in Request, CheckId(r) PROVE TypeOK'
  <2>1. tries[r] < MaxRetries /\ tries[r] \in Nat /\ MaxRetries \in Nat
    BY <1>4 DEF CheckId, CallsFit, CallFits, TypeOK
  <2>2. tries[r] + 1 \in 0..MaxRetries
    BY <2>1
  <2>3. tries' \in [Request -> 0..MaxRetries]
    BY <1>4, <2>2 DEF CheckId, TypeOK
  <2>4. pc' \in [Request -> Pc]
    BY <1>4 DEF CheckId, TypeOK, Goto, Pc
  <2> QED
    BY <1>4, <2>3, <2>4 DEF TypeOK, CheckId, bus
<1>5. ASSUME NEW r \in Request, Insert(r) PROVE TypeOK'
  <2>1. Row(r) \in User
    BY <1>5, RowTyped DEF Insert, CallsFit
  <2> QED
    BY <1>5, <2>1 DEF TypeOK, Insert, Goto, Pc, bus
<1>6. ASSUME NEW r \in Request, Return(r) PROVE TypeOK'
  <2>1. Row(r) \in User
    BY <1>6, RowTyped DEF Return, CallsFit, Opened
  <2> QED
    BY <1>6, <2>1 DEF TypeOK, Return, Goto, Pc
<1>7. ASSUME NEW r \in Request, RegisterFails(r) PROVE TypeOK'
  BY <1>7 DEF TypeOK, RegisterFails, Goto, Pc, bus
<1>8. ASSUME NEW u \in pending, Send(u) PROVE TypeOK'
  <2>1. u \in User /\ pending' \subseteq User
    BY <1>8 DEF Send, TypeOK
  <2>2. topic' \in Seq(User) /\ Len(topic') = Len(topic) + 1 /\ Len(topic) \in Nat
    BY <1>8, <2>1 DEF Send, TypeOK
  <2>3. offset' \in [Replica -> 0..Len(topic')]
    BY <1>8, <2>2 DEF Send, TypeOK
  <2> QED
    BY <1>8, <2>1, <2>2, <2>3 DEF TypeOK, Send, calls
<1>9. ASSUME NEW u \in pending, SendFails(u) PROVE TypeOK'
  BY <1>9 DEF TypeOK, SendFails, calls
<1>10. ASSUME NEW p \in Replica, Deliver(p) PROVE TypeOK'
  <2>1. Len(topic) \in Nat /\ offset[p] \in Nat
    BY DEF TypeOK
  <2>2. topic[offset[p] + 1] \in User
    BY <1>10, <2>1 DEF Deliver, TypeOK
  <2>3. offset' \in [Replica -> 0..Len(topic)]
    BY <1>10, <2>1 DEF Deliver, TypeOK
  <2>4. seen' \in [Replica -> SUBSET User]
    BY <1>10, <2>2 DEF Deliver, TypeOK
  <2> QED
    BY <1>10, <2>3, <2>4 DEF TypeOK, Deliver, calls
<1>11. ASSUME NEW p \in Replica, Subscribe(p) PROVE TypeOK'
  <2>1. Len(topic) \in Nat
    BY DEF TypeOK
  <2>2. offset' \in [Replica -> 0..Len(topic)]
    BY <1>11, <2>1 DEF Subscribe, TypeOK
  <2> QED
    BY <1>11, <2>2 DEF TypeOK, Subscribe, calls
<1>12. ASSUME UNCHANGED vars PROVE TypeOK'
  BY <1>12 DEF TypeOK, vars, calls, bus
<1> QED
  BY <1>1, <1>2, <1>3, <1>4, <1>5, <1>6, <1>7, <1>8, <1>9, <1>10, <1>11, <1>12
     DEF Next, RegisterStep

-----------------------------------------------------------------------------
(* A call's own state.                                                     *)

(* A step of another call or of the bus leaves a call as it was, while the *)
(* table and the nodes' ids only grow.                                     *)
LEMMA OtherFits ==
  ASSUME TypeOK, TypeOK', NEW q \in Request, CallFits(q),
         pc'[q] = pc[q], on'[q] = on[q], email'[q] = email[q],
         id'[q] = id[q], tries'[q] = tries[q],
         users \subseteq users', \A p \in Replica : last[p] <= last'[p]
  PROVE  CallFits(q)'
<1>1. ASSUME id'[q] # 0 PROVE id'[q] <= last'[on'[q]]
  <2>1. on[q] \in Replica /\ id[q] <= last[on[q]]
    BY <1>1 DEF CallFits
  <2>2. last[on[q]] <= last'[on[q]] /\ last[on[q]] \in Nat /\ last'[on[q]] \in Nat /\ id[q] \in Nat
    BY <2>1 DEF TypeOK
  <2> QED
    BY <2>1, <2>2
<1> QED
  BY <1>1 DEF CallFits, Opened, Taken

(* Every step keeps the rows, and the ids of a node grow.                  *)
LEMMA Grows ==
  ASSUME TypeOK, CallsFit, [Next]_vars
  PROVE  users \subseteq users' /\ \A p \in Replica : last[p] <= last'[p]
<1>1. \A p \in Replica : last[p] \in Nat
  BY DEF TypeOK
<1>2. ASSUME NEW r \in Request, Generate(r)
      PROVE  users \subseteq users' /\ \A p \in Replica : last[p] <= last'[p]
  <2>1. PICK i \in (last[on[r]] + 1)..MaxId : last' = [last EXCEPT ![on[r]] = i]
    BY <1>2 DEF Generate
  <2>2. on[r] \in Replica
    BY <1>2 DEF Generate, CallsFit, CallFits
  <2>3. last[on[r]] <= i
    BY <1>1, <2>1, <2>2
  <2>4. \A p \in Replica : last[p] <= last'[p]
    BY <1>1, <2>1, <2>3 DEF TypeOK
  <2> QED
    BY <1>2, <2>4 DEF Generate
<1>3. ASSUME UNCHANGED last, users \subseteq users'
      PROVE  users \subseteq users' /\ \A p \in Replica : last[p] <= last'[p]
  BY <1>1, <1>3
<1> QED
  BY <1>2, <1>3 DEF Next, RegisterStep, Begin, CheckEmail, CheckId, Insert, Return,
     RegisterFails, Send, SendFails, Deliver, Subscribe, vars

LEMMA NextFits == TypeOK /\ CallsFit /\ [Next]_vars => CallsFit'
<1> SUFFICES ASSUME TypeOK, CallsFit, [Next]_vars PROVE CallsFit'
  OBVIOUS
<1>1. TypeOK'
  BY NextTyped
<1>2. users \subseteq users' /\ \A p \in Replica : last[p] <= last'[p]
  BY Grows
<1>3. \A q \in Request : CallFits(q)
  BY DEF CallsFit
<1>4. ASSUME UNCHANGED calls PROVE CallsFit'
  BY <1>1, <1>2, <1>3, <1>4, OtherFits DEF calls, CallsFit
<1>5. ASSUME NEW r \in Request, CallFits(r)',
             \A q \in Request \ {r} : /\ pc'[q] = pc[q] /\ on'[q] = on[q]
                                      /\ email'[q] = email[q] /\ id'[q] = id[q]
                                      /\ tries'[q] = tries[q]
      PROVE  CallsFit'
  BY <1>1, <1>2, <1>3, <1>5, OtherFits DEF CallsFit
<1>6. ASSUME NEW r \in Request, NEW p \in Replica, NEW e \in Email, Begin(r, p, e)
      PROVE  CallsFit'
  <2>1. CallFits(r)'
    BY <1>3, <1>6, RegistrationAssumption DEF Begin, Goto, TypeOK, CallFits, Opened
  <2> QED
    BY <1>5, <1>6, <2>1 DEF Begin, Goto, TypeOK
<1>7. ASSUME NEW r \in Request, CheckEmail(r) PROVE CallsFit'
  <2>1. CallFits(r)'
    BY <1>3, <1>7, RegistrationAssumption DEF CheckEmail, Goto, TypeOK, CallFits, Opened, Taken
  <2> QED
    BY <1>5, <1>7, <2>1 DEF CheckEmail, Goto, TypeOK
<1>8. ASSUME NEW r \in Request, Generate(r) PROVE CallsFit'
  <2>1. PICK i \in (last[on[r]] + 1)..MaxId :
          id' = [id EXCEPT ![r] = i] /\ last' = [last EXCEPT ![on[r]] = i]
    BY <1>8 DEF Generate
  <2>2. on[r] \in Replica
    BY <1>3, <1>8 DEF Generate, CallFits
  <2>3. last'[on[r]] = i /\ i # 0 /\ i \in Nat /\ id'[r] = i
    BY <2>1, <2>2 DEF TypeOK
  <2>4. CallFits(r)'
    BY <1>3, <1>8, <2>2, <2>3 DEF Generate, Goto, TypeOK, CallFits, Opened
  <2> QED
    BY <1>5, <1>8, <2>1, <2>4 DEF Generate, Goto, TypeOK
<1>9. ASSUME NEW r \in Request, CheckId(r) PROVE CallsFit'
  <2>1. tries[r] \in Nat /\ tries[r] < MaxRetries /\ MaxRetries \in Nat
    BY <1>3, <1>9, RegistrationAssumption DEF CheckId, CallFits, TypeOK
  <2>2. CallFits(r)'
    BY <1>3, <1>9, <2>1 DEF CheckId, Goto, TypeOK, CallFits, Opened
  <2> QED
    BY <1>5, <1>9, <2>2 DEF CheckId, Goto, TypeOK
<1>10. ASSUME NEW r \in Request, Insert(r) PROVE CallsFit'
  <2>1. CallFits(r)'
    BY <1>3, <1>10 DEF Insert, Goto, TypeOK, CallFits, Opened
  <2> QED
    BY <1>5, <1>10, <2>1 DEF Insert, Goto, TypeOK
<1>11. ASSUME NEW r \in Request, Return(r) PROVE CallsFit'
  <2>1. CallFits(r)'
    BY <1>3, <1>11 DEF Return, Goto, TypeOK, CallFits, Opened
  <2> QED
    BY <1>5, <1>11, <2>1 DEF Return, Goto, TypeOK
<1>12. ASSUME NEW r \in Request, RegisterFails(r) PROVE CallsFit'
  <2>1. CallFits(r)'
    BY <1>3, <1>12 DEF RegisterFails, Goto, TypeOK, CallFits, Opened
  <2> QED
    BY <1>5, <1>12, <2>1 DEF RegisterFails, Goto, TypeOK
<1> QED
  BY <1>4, <1>6, <1>7, <1>8, <1>9, <1>10, <1>11, <1>12
     DEF Next, RegisterStep, Send, SendFails, Deliver, Subscribe, vars

-----------------------------------------------------------------------------
(* Ids and accounts.                                                       *)

LEMMA NextClash ==
  TypeOK /\ CallsFit /\ IdsClashAcrossReplicas /\ [Next]_vars => IdsClashAcrossReplicas'
<1> SUFFICES ASSUME TypeOK, CallsFit, IdsClashAcrossReplicas, [Next]_vars
             PROVE  IdsClashAcrossReplicas'
  OBVIOUS
<1>1. ASSUME NEW r \in Request, NEW p \in Replica, NEW e \in Email, Begin(r, p, e)
      PROVE  IdsClashAcrossReplicas'
  <2>1. id[r] = 0
    BY <1>1 DEF Begin, CallsFit, CallFits
  <2> QED
    BY <1>1, <2>1 DEF Begin, IdsClashAcrossReplicas, TypeOK
<1>2. ASSUME NEW r \in Request, Generate(r) PROVE IdsClashAcrossReplicas'
  <2>1. PICK i \in (last[on[r]] + 1)..MaxId : id' = [id EXCEPT ![r] = i]
    BY <1>2 DEF Generate
  <2>2. on[r] \in Replica /\ last[on[r]] \in Nat /\ i \in Nat /\ last[on[r]] < i
    BY <1>2, <2>1 DEF Generate, CallsFit, CallFits, TypeOK
  <2>3. \A s \in Request : id[s] # 0 /\ on[s] = on[r] => id[s] < i
    <3> SUFFICES ASSUME NEW s \in Request, id[s] # 0, on[s] = on[r] PROVE id[s] < i
      OBVIOUS
    <3>1. id[s] <= last[on[r]] /\ id[s] \in Nat
      BY DEF CallsFit, CallFits, TypeOK
    <3> QED
      BY <2>2, <3>1
  <2>4. \A s \in Request \ {r} : id[s] = i => on[s] # on[r]
    BY <2>2, <2>3
  <2> QED
    BY <1>2, <2>1, <2>4 DEF Generate, IdsClashAcrossReplicas, TypeOK
<1>3. ASSUME UNCHANGED <<id, on>> PROVE IdsClashAcrossReplicas'
  BY <1>3 DEF IdsClashAcrossReplicas
<1> QED
  BY <1>1, <1>2, <1>3 DEF Next, RegisterStep, CheckEmail, CheckId, Insert, Return,
     RegisterFails, Send, SendFails, Deliver, Subscribe, vars, calls

(* A step that opens no account, and leaves the rows of those that have    *)
(* one, keeps the accounts apart.                                          *)
LEMMA SameAccounts ==
  ASSUME AccountsAreOwn, UNCHANGED users,
         \A q \in Request : Opened(q)' = Opened(q),
         \A q \in Request : Opened(q) => id'[q] = id[q] /\ email'[q] = email[q]
  PROVE  AccountsAreOwn'
BY DEF AccountsAreOwn, Row

(* An insert that is not refused is of an email and an id of nobody else.  *)
LEMMA InsertOwn ==
  ASSUME TypeOK, AccountsAreOwn, NEW r \in Request, pc[r] = "insert", ~Clashes(r),
         pc' = [pc EXCEPT ![r] = "created"], users' = users \cup {Row(r)},
         UNCHANGED <<email, id>>
  PROVE  AccountsAreOwn'
<1>1. \A q \in Request : Opened(q)' <=> (Opened(q) \/ q = r)
  BY DEF TypeOK, Opened
<1>2. \A q \in Request : Row(q)' = Row(q)
  BY DEF Row
<1>3. \A q \in Request : Opened(q) => email[q] # email[r] /\ id[q] # id[r]
  BY DEF AccountsAreOwn, Clashes, Row
<1>4. \A q \in Request : Opened(q)' => Row(q)' \in users'
  BY <1>1, <1>2 DEF AccountsAreOwn
<1>5. \A q, s \in Request :
        Opened(q)' /\ Opened(s)' /\ q # s => email'[q] # email'[s] /\ id'[q] # id'[s]
  BY <1>1, <1>3 DEF AccountsAreOwn
<1>6. \A u \in users' : \E q \in Request : Opened(q)' /\ Row(q)' = u
  BY <1>1, <1>2 DEF AccountsAreOwn
<1> QED
  BY <1>4, <1>5, <1>6 DEF AccountsAreOwn

(* Only an insert that is not refused opens an account, its call's.        *)
LEMMA OpenedOnlyByInsert ==
  ASSUME TypeOK, [Next]_vars, ~ \E r \in Request : Insert(r) /\ ~Clashes(r)
  PROVE  /\ UNCHANGED users
         /\ \A q \in Request : Opened(q)' = Opened(q)
         /\ \A q \in Request : Opened(q) => id'[q] = id[q] /\ email'[q] = email[q]
<1> DEFINE Same ==
      /\ UNCHANGED users
      /\ \A q \in Request : Opened(q)' = Opened(q)
      /\ \A q \in Request : Opened(q) => id'[q] = id[q] /\ email'[q] = email[q]
<1>1. ASSUME NEW r \in Request, NEW p \in Replica, NEW e \in Email, Begin(r, p, e)
      PROVE  Same
  BY <1>1 DEF Begin, Goto, Opened, TypeOK
<1>2. ASSUME NEW r \in Request, CheckEmail(r) PROVE Same
  BY <1>2 DEF CheckEmail, Goto, Opened, TypeOK
<1>3. ASSUME NEW r \in Request, Generate(r) PROVE Same
  BY <1>3 DEF Generate, Goto, Opened, TypeOK
<1>4. ASSUME NEW r \in Request, CheckId(r) PROVE Same
  BY <1>4 DEF CheckId, Goto, Opened, TypeOK
<1>5. ASSUME NEW r \in Request, Insert(r) PROVE Same
  <2>1. Clashes(r)
    BY <1>5
  <2> QED
    BY <1>5, <2>1 DEF Insert, Goto, Opened, TypeOK
<1>6. ASSUME NEW r \in Request, Return(r) PROVE Same
  BY <1>6 DEF Return, Goto, Opened, TypeOK
<1>7. ASSUME NEW r \in Request, RegisterFails(r) PROVE Same
  BY <1>7 DEF RegisterFails, Goto, Opened, TypeOK
<1>8. ASSUME UNCHANGED <<users, calls>> PROVE Same
  BY <1>8 DEF calls, Opened
<1> HIDE DEF Same
<1>9. Same
  BY <1>1, <1>2, <1>3, <1>4, <1>5, <1>6, <1>7, <1>8
     DEF Next, RegisterStep, Send, SendFails, Deliver, Subscribe, vars
<1> QED
  BY <1>9 DEF Same

LEMMA NextOwn == TypeOK /\ AccountsAreOwn /\ [Next]_vars => AccountsAreOwn'
<1> SUFFICES ASSUME TypeOK, AccountsAreOwn, [Next]_vars PROVE AccountsAreOwn'
  OBVIOUS
<1>1. CASE \E r \in Request : Insert(r) /\ ~Clashes(r)
  <2>1. PICK r \in Request : Insert(r) /\ ~Clashes(r)
    BY <1>1
  <2> QED
    BY <2>1, InsertOwn DEF Insert, Goto
<1>2. CASE ~ \E r \in Request : Insert(r) /\ ~Clashes(r)
  BY <1>2, OpenedOnlyByInsert, SameAccounts
<1> QED
  BY <1>1, <1>2

LEMMA InitInv == Init => IInv /\ EventsAreTrue
<1> SUFFICES ASSUME Init PROVE IInv /\ EventsAreTrue
  OBVIOUS
<1>1. TypeOK
  BY InitTyped
<1>2. CallsFit
  BY DEF Init, CallsFit, CallFits, Opened
<1>3. IdsClashAcrossReplicas
  BY DEF Init, IdsClashAcrossReplicas
<1>4. AccountsAreOwn
  BY DEF Init, AccountsAreOwn, Opened
<1>5. EventsAreTrue
  BY DEF Init, EventsAreTrue
<1> QED
  BY <1>1, <1>2, <1>3, <1>4, <1>5 DEF IInv, RegInv

LEMMA NextInv == IInv /\ [Next]_vars => IInv'
BY NextTyped, NextFits, NextClash, NextOwn DEF IInv, RegInv

(* Every variable of the user service holds values of its type: a call     *)
(* tries no more ids than the code allows, and no consumer is ahead of the *)
(* topic.                                                                  *)
THEOREM TypeCorrect == Spec => []TypeOK
<1>1. IInv => TypeOK
  BY DEF IInv
<1> QED
  BY <1>1, InitInv, NextInv, PTL DEF Spec

(* However calls of Register interleave, fail and share ids, the accounts  *)
(* are those of calls that have opened one, each in its own id and email.  *)
THEOREM AccountsStayOwn == Spec => []RegInv
<1>1. IInv => RegInv
  BY DEF IInv
<1> QED
  BY <1>1, InitInv, NextInv, PTL DEF Spec

(* No event is published, stored or delivered but of a user in the table.  *)
THEOREM EventsStayTrue == Spec => []EventsAreTrue
<1>1. IInv /\ EventsAreTrue /\ [Next]_vars => EventsAreTrue'
  <2> SUFFICES ASSUME IInv, EventsAreTrue, [Next]_vars PROVE EventsAreTrue'
    OBVIOUS
  <2>1. users \subseteq users'
    BY Grows DEF IInv, RegInv
  <2>2. ASSUME NEW r \in Request, Return(r) PROVE EventsAreTrue'
    <3>1. Row(r) \in users
      BY <2>2 DEF Return, IInv, RegInv, AccountsAreOwn, Opened
    <3> QED
      BY <2>2, <3>1 DEF Return, EventsAreTrue
  <2>3. ASSUME NEW u \in pending, Send(u) PROVE EventsAreTrue'
    <3>1. topic \in Seq(User) /\ u \in User
      BY DEF IInv, TypeOK
    <3>2. \A i \in DOMAIN topic' : topic'[i] \in users
      BY <2>3, <3>1 DEF Send, EventsAreTrue
    <3> QED
      BY <2>3, <3>2 DEF Send, EventsAreTrue
  <2>4. ASSUME NEW p \in Replica, Deliver(p) PROVE EventsAreTrue'
    <3>1. offset[p] + 1 \in DOMAIN topic
      BY <2>4 DEF Deliver, IInv, TypeOK
    <3>2. seen'[p] \subseteq users /\ \A q \in Replica \ {p} : seen'[q] = seen[q]
      BY <2>4, <3>1 DEF Deliver, EventsAreTrue, IInv, TypeOK
    <3> QED
      BY <2>4, <3>2 DEF Deliver, EventsAreTrue
  <2>5. ASSUME UNCHANGED <<topic, seen>>, pending' \subseteq pending PROVE EventsAreTrue'
    BY <2>1, <2>5 DEF EventsAreTrue
  <2> QED
    BY <2>2, <2>3, <2>4, <2>5
       DEF Next, RegisterStep, Begin, CheckEmail, Generate, CheckId, Insert, RegisterFails,
           SendFails, Subscribe, vars, bus
<1> QED
  BY <1>1, InitInv, NextInv, PTL DEF Spec

-----------------------------------------------------------------------------
(* Registration implements Accounts.                                       *)

OpenedAs(r) == IF Opened(r) THEN id[r] ELSE 0
Published   == {topic[i] : i \in DOMAIN topic}

(* A step that answers no call and opens no account is none of Accounts,   *)
(* or is an Announce.                                                      *)
LEMMA SameMapped ==
  ASSUME \A r \in Request : OpenedAs(r)' = OpenedAs(r),
         \A r \in Request : Told(r)' = Told(r)
  PROVE  /\ [r \in Request |-> OpenedAs(r)]' = [r \in Request |-> OpenedAs(r)]
         /\ [r \in Request |-> Told(r)]' = [r \in Request |-> Told(r)]
OBVIOUS

(* An answer that opens no account is an Answer of Accounts.               *)
LEMMA AnswerMaps ==
  ASSUME NEW r \in Request, email[r] # None, Told(r) = "none",
         NEW what \in {"ok", "exists", "error"}, Told(r)' = what,
         \A q \in Request \ {r} : Told(q)' = Told(q),
         \A q \in Request : OpenedAs(q)' = OpenedAs(q),
         what = "ok" => OpenedAs(r) # 0,
         what = "exists" => Taken(email[r]),
         UNCHANGED <<users, email, topic>>
  PROVE  Accounts!Next
<1>1. [q \in Request |-> OpenedAs(q)]' = [q \in Request |-> OpenedAs(q)]
  OBVIOUS
<1>2. [q \in Request |-> Told(q)]' = [[q \in Request |-> Told(q)] EXCEPT ![r] = what]
  OBVIOUS
<1>3. Published' = Published
  BY DEF Published
<1>4. Accounts!Answer(r, what)
  BY <1>1, <1>2, <1>3 DEF Accounts!Answer, Taken, OpenedAs, Published
<1> QED
  BY <1>4 DEF Accounts!Next

(* A step of a call that is not answered by it and opens nothing.          *)
LEMMA StutterMaps ==
  ASSUME \A q \in Request : Told(q)' = Told(q),
         \A q \in Request : OpenedAs(q)' = OpenedAs(q),
         UNCHANGED <<users, email, topic>>
  PROVE  UNCHANGED Accounts!vars
<1>1. Published' = Published
  BY DEF Published
<1> QED
  BY <1>1, SameMapped DEF Accounts!vars, OpenedAs, Published

LEMMA BeginMaps ==
  ASSUME IInv, NEW r \in Request, NEW p \in Replica, NEW e \in Email, Begin(r, p, e)
  PROVE  Accounts!Next
<1>1. email[r] = None /\ TypeOK
  BY DEF Begin, IInv, RegInv, CallsFit, CallFits
<1>2. \A q \in Request : OpenedAs(q)' = OpenedAs(q)
  BY <1>1 DEF Begin, Goto, OpenedAs, Opened, TypeOK
<1>3. \A q \in Request : Told(q)' = Told(q)
  BY <1>1 DEF Begin, Goto, Told, TypeOK
<1>4. Published' = Published
  BY DEF Begin, bus, Published
<1>5. Accounts!Ask(r, e)
  BY <1>1, <1>2, <1>3, <1>4, SameMapped DEF Begin, Accounts!Ask, OpenedAs, Published
<1> QED
  BY <1>5 DEF Accounts!Next

(* The statements of a call, but for the insert that is not refused: each  *)
(* answers it or is none of Accounts' steps.                               *)
LEMMA CallMaps ==
  ASSUME IInv, NEW r \in Request, RegisterStep(r), ~(Insert(r) /\ ~Clashes(r))
  PROVE  Accounts!Next \/ UNCHANGED Accounts!vars
<1>1. TypeOK /\ CallFits(r) /\ [Next]_vars /\ AccountsAreOwn
  BY DEF IInv, RegInv, CallsFit, Next
<1>2. pc[r] \in {"checkEmail", "generate", "checkId", "insert", "created"}
  BY DEF RegisterStep, CheckEmail, Generate, CheckId, Insert, Return, RegisterFails
<1>3. Told(r) = "none" /\ email[r] # None
  BY <1>1, <1>2 DEF Told, CallFits
<1>4. UNCHANGED <<users, email, topic>>
  BY DEF RegisterStep, CheckEmail, Generate, CheckId, Insert, Return, RegisterFails, bus
<1>5. \A q \in Request : OpenedAs(q)' = OpenedAs(q)
  <2>1. \A q \in Request : Opened(q)' = Opened(q)
    BY <1>1 DEF RegisterStep, CheckEmail, Generate, CheckId, Insert, Return, RegisterFails,
       Goto, Opened, TypeOK
  <2>2. \A q \in Request : Opened(q) => id'[q] = id[q]
    BY <1>1 DEF RegisterStep, CheckEmail, Generate, CheckId, Insert, Return, RegisterFails,
       Goto, Opened, TypeOK
  <2> QED
    BY <2>1, <2>2 DEF OpenedAs
<1>6. PICK to \in Pc : Goto(r, to)
  BY DEF RegisterStep, CheckEmail, Generate, CheckId, Insert, Return, RegisterFails, Pc
<1>7. pc' = [pc EXCEPT ![r] = to] /\ pc'[r] = to
  BY <1>1, <1>6 DEF Goto, TypeOK
<1>8. \A q \in Request \ {r} : Told(q)' = Told(q)
  BY <1>1, <1>7 DEF Told, TypeOK
<1>9. to # "new"
  BY <1>7 DEF RegisterStep, CheckEmail, Generate, CheckId, Insert, Return, RegisterFails,
     Goto, TypeOK
<1>10. CASE to = "ok"
  <2>1. pc[r] = "created"
    BY <1>1, <1>2, <1>7, <1>10
       DEF RegisterStep, CheckEmail, Generate, CheckId, Insert, Return, RegisterFails,
           Goto, TypeOK
  <2>2. OpenedAs(r) # 0
    BY <1>1, <2>1 DEF OpenedAs, Opened, CallFits
  <2>3. Told(r)' = "ok"
    BY <1>7, <1>10 DEF Told
  <2> QED
    BY <1>3, <1>4, <1>5, <1>8, <2>2, <2>3, AnswerMaps
<1>11. CASE to = "exists"
  <2>1. Taken(email[r])
    BY <1>1, <1>2, <1>7, <1>11
       DEF RegisterStep, CheckEmail, Generate, CheckId, Insert, Return, RegisterFails,
           Goto, TypeOK
  <2>2. Told(r)' = "exists"
    BY <1>7, <1>11 DEF Told
  <2> QED
    BY <1>3, <1>4, <1>5, <1>8, <2>1, <2>2, AnswerMaps
<1>12. CASE to \in {"error", "lost"}
  <2>1. Told(r)' = "error"
    BY <1>7, <1>12 DEF Told
  <2> QED
    BY <1>3, <1>4, <1>5, <1>8, <2>1, AnswerMaps
<1>13. CASE to \in {"checkEmail", "generate", "checkId", "insert", "created"}
  <2>1. Told(r)' = "none"
    BY <1>7, <1>13 DEF Told
  <2>2. \A q \in Request : Told(q)' = Told(q)
    BY <1>3, <1>8, <2>1
  <2> QED
    BY <1>4, <1>5, <2>2, StutterMaps
<1> QED
  BY <1>9, <1>10, <1>11, <1>12, <1>13 DEF Pc

(* An insert that is not refused opens the account at that instant.        *)
LEMMA InsertMaps ==
  ASSUME IInv, NEW r \in Request, Insert(r), ~Clashes(r)
  PROVE  Accounts!Next
<1>1. TypeOK /\ CallFits(r) /\ pc[r] = "insert"
  BY DEF IInv, RegInv, CallsFit, Insert
<1>2. /\ pc' = [pc EXCEPT ![r] = "created"] /\ users' = users \cup {Row(r)}
      /\ UNCHANGED <<email, id, topic>>
  BY DEF Insert, Goto, bus
<1>3. Row(r) \in Accounts!Account
  BY <1>1, RowTyped DEF User, Accounts!Account
<1>4. \A q \in Request : Told(q)' = Told(q)
  BY <1>1, <1>2 DEF Told, TypeOK
<1>5. OpenedAs(r) = 0 /\ OpenedAs(r)' = id[r] /\ \A q \in Request \ {r} : OpenedAs(q)' = OpenedAs(q)
  BY <1>1, <1>2 DEF OpenedAs, Opened, TypeOK
<1>6. [q \in Request |-> OpenedAs(q)]' = [[q \in Request |-> OpenedAs(q)] EXCEPT ![r] = id[r]]
  BY <1>5
<1>7. [q \in Request |-> Told(q)]' = [q \in Request |-> Told(q)] /\ Told(r) = "none"
  BY <1>1, <1>4 DEF Told
<1>8. Published' = Published
  BY <1>2 DEF Published
<1>9. PICK a \in Accounts!Account : a = Row(r)
  BY <1>3
<1>10. a.id = id[r] /\ a.email = email[r]
  BY <1>9 DEF Row
<1>11. \A b \in users : b.id # a.id /\ b.email # a.email
  BY <1>10 DEF Clashes
<1>12. Accounts!Open(r, a)
  BY <1>2, <1>5, <1>6, <1>7, <1>8, <1>9, <1>10, <1>11 DEF Accounts!Open, OpenedAs, Published
<1> QED
  BY <1>12 DEF Accounts!Next

(* A message in the topic announces its account, the second time too.      *)
LEMMA SendMaps ==
  ASSUME IInv, EventsAreTrue, NEW u \in pending, Send(u)
  PROVE  Accounts!Next
<1>1. u \in users /\ u \in User /\ topic \in Seq(User)
  BY DEF EventsAreTrue, IInv, TypeOK
<1>2. Published' = Published \cup {u}
  <2>1. /\ DOMAIN topic = 1..Len(topic) /\ DOMAIN topic' = 1..(Len(topic) + 1)
        /\ Len(topic) \in Nat /\ topic'[Len(topic) + 1] = u
        /\ \A i \in DOMAIN topic : topic'[i] = topic[i]
    BY <1>1 DEF Send
  <2> QED
    BY <2>1 DEF Published
<1>3. \A q \in Request : OpenedAs(q)' = OpenedAs(q) /\ Told(q)' = Told(q)
  BY DEF Send, calls, OpenedAs, Opened, Told
<1>4. Accounts!Announce(u)
  BY <1>1, <1>2, <1>3, SameMapped DEF Send, calls, Accounts!Announce, OpenedAs, Published
<1> QED
  BY <1>1, <1>4 DEF Accounts!Next

LEMMA InitMaps == Init => Accounts!Init
<1> SUFFICES ASSUME Init PROVE Accounts!Init
  OBVIOUS
<1>1. \A r \in Request : OpenedAs(r) = 0 /\ Told(r) = "none"
  BY DEF Init, OpenedAs, Opened, Told
<1>2. Published = {}
  BY DEF Init, Published
<1> QED
  BY <1>1, <1>2 DEF Init, Accounts!Init, OpenedAs, Published

(* Looking an email and an id up, inserting, and publishing afterwards, at *)
(* any number of replicas, opens each account at one instant and tells     *)
(* "ok" and "exists" only when it is so.                                   *)
THEOREM RegistrationImplementsAccounts == Spec => ImplementsAccounts
<1>1. IInv /\ EventsAreTrue /\ [Next]_vars => [Accounts!Next]_Accounts!vars
  <2> SUFFICES ASSUME IInv, EventsAreTrue, [Next]_vars PROVE [Accounts!Next]_Accounts!vars
    OBVIOUS
  <2>1. ASSUME NEW r \in Request, NEW p \in Replica, NEW e \in Email, Begin(r, p, e)
        PROVE  Accounts!Next
    BY <2>1, BeginMaps
  <2>2. ASSUME NEW r \in Request, RegisterStep(r)
        PROVE  Accounts!Next \/ UNCHANGED Accounts!vars
    BY <2>2, CallMaps, InsertMaps
  <2>3. ASSUME NEW u \in pending, Send(u) PROVE Accounts!Next
    BY <2>3, SendMaps
  <2>4. ASSUME UNCHANGED <<users, calls, topic>> PROVE UNCHANGED Accounts!vars
    <3>1. \A q \in Request : OpenedAs(q)' = OpenedAs(q) /\ Told(q)' = Told(q)
      BY <2>4 DEF calls, OpenedAs, Opened, Told
    <3> QED
      BY <2>4, <3>1, StutterMaps DEF calls
  <2> QED
    BY <2>1, <2>2, <2>3, <2>4 DEF Next, SendFails, Deliver, Subscribe, vars, bus
<1> QED
  BY <1>1, InitMaps, InitInv, NextInv, EventsStayTrue, PTL
     DEF Spec, ImplementsAccounts, Accounts!Spec
=============================================================================
