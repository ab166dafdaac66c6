-------------------------- MODULE PolicySyncProofs --------------------------
(***************************************************************************)
(* Proofs about PolicySync, for any gateways, rules, releases and bounds:  *)
(* a gateway that has handled what its watch was told has the groupings of *)
(* etcd, and no edit reaches etcd.                                         *)
(***************************************************************************)
EXTENDS PolicySync, TLAPS

IInv == TypeOK /\ PolicyInv

(* The conditions of one gateway in PolicyInv.                             *)
Follows(g) ==
  Up(g) /\ ~apart[g] /\ events[g] = 0 =>
    /\ loader[g] = "idle" => memory[g] = Loadable(etcd.policy)
    /\ loader[g] = "add" => memory[g] \cup Loadable(todo[g]) = Loadable(etcd.policy)

Local(g) ==
  /\ file[g] \cup saving[g] \cup todo[g] \subseteq UNION File
  /\ main[g] # "serving" => memory[g] \subseteq UNION File

LEMMA FileRules == ASSUME NEW f \in File PROVE f \subseteq Rule /\ f \subseteq UNION File
BY PolicyAssumption

LEMMA InitTyped == Init => TypeOK
<1> SUFFICES ASSUME Init PROVE TypeOK
  OBVIOUS
<1>1. DownIsEmpty
  BY DEF Init, DownIsEmpty
<1> QED
  BY <1>1 DEF Init, TypeOK, Main, Loader

LEMMA NextTyped == TypeOK /\ [Next]_vars => TypeOK'
<1> SUFFICES ASSUME TypeOK, [Next]_vars PROVE TypeOK'
  OBVIOUS
<1>1. ASSUME NEW g \in Gateway, NEW f \in File, Start(g, f) PROVE TypeOK'
  <2>1. f \subseteq Rule
    BY FileRules
  <2> QED
    BY <1>1, <2>1 DEF TypeOK, DownIsEmpty, Start, Goto, Up, Main, watch
<1>2. ASSUME NEW g \in Gateway, GetPolicy(g) PROVE TypeOK'
  BY <1>2 DEF TypeOK, DownIsEmpty, GetPolicy, Goto, Up, Main, watch, counts
<1>3. ASSUME NEW g \in Gateway, GetGroupingPolicy(g) PROVE TypeOK'
  BY <1>3 DEF TypeOK, DownIsEmpty, GetGroupingPolicy, Goto, Up, Main, watch, counts
<1>4. ASSUME NEW g \in Gateway, Put(g) PROVE TypeOK'
  <2>1. etcd' \in [policy : SUBSET Rule, saves : Nat]
    BY <1>4 DEF Put, TypeOK
  <2>2. \A h \in Gateway : Up(h)' <=> Up(h)
    BY <1>4 DEF Put, Goto, Up, TypeOK
  <2>3. events' \in [Gateway -> Nat] /\ \A h \in Gateway : ~Up(h) => events'[h] = 0
    BY <1>4 DEF Put, TypeOK
  <2>4. DownIsEmpty'
    BY <1>4, <2>2, <2>3 DEF Put, TypeOK, DownIsEmpty
  <2> QED
    BY <1>4, <2>1, <2>3, <2>4 DEF TypeOK, Put, Goto, Main, counts
<1>5. ASSUME NEW g \in Gateway, PutFails(g) PROVE TypeOK'
  BY <1>5 DEF TypeOK, DownIsEmpty, PutFails, Goto, Up, Main, watch, counts
<1>6. ASSUME NEW g \in Gateway, Crash(g) PROVE TypeOK'
  BY <1>6 DEF TypeOK, DownIsEmpty, Crash, Goto, Up, Main, Loader, counts
<1>7. ASSUME NEW g \in Gateway, TakeEvent(g) PROVE TypeOK'
  <2>1. Up(g)
    BY <1>7 DEF TakeEvent, TypeOK, DownIsEmpty
  <2> QED
    BY <1>7, <2>1 DEF TypeOK, DownIsEmpty, TakeEvent, Up, Loader, process, counts
<1>8. ASSUME NEW g \in Gateway, Load(g) PROVE TypeOK'
  <2>1. Up(g)
    BY <1>8 DEF Load, TypeOK, DownIsEmpty
  <2> QED
    BY <1>8, <2>1 DEF TypeOK, DownIsEmpty, Load, Up, Loader, process, counts
<1>9. ASSUME NEW g \in Gateway, LoadFails(g) PROVE TypeOK'
  BY <1>9 DEF TypeOK, DownIsEmpty, LoadFails, Up, Loader, process, counts
<1>10. ASSUME NEW g \in Gateway, AddRule(g) PROVE TypeOK'
  <2>1. Up(g)
    BY <1>10 DEF AddRule, TypeOK, DownIsEmpty
  <2>2. memory' \in [Gateway -> SUBSET Rule] /\ todo' \in [Gateway -> SUBSET Rule]
    BY <1>10 DEF AddRule, Loadable, TypeOK
  <2>3. \A h \in Gateway \ {g} : memory'[h] = memory[h] /\ todo'[h] = todo[h]
    BY <1>10 DEF AddRule, TypeOK
  <2>4. DownIsEmpty'
    BY <1>10, <2>1, <2>3 DEF AddRule, TypeOK, DownIsEmpty, Up, process
  <2> QED
    BY <1>10, <2>2, <2>4 DEF TypeOK, AddRule, process, counts
<1>11. ASSUME NEW g \in Gateway, Loaded(g) PROVE TypeOK'
  BY <1>11 DEF TypeOK, DownIsEmpty, Loaded, Up, Loader, process, counts
<1>12. ASSUME NEW g \in Gateway, NEW r \in Grouping, Edit(g, r) PROVE TypeOK'
  <2>1. memory' \in [Gateway -> SUBSET Rule] /\ \A h \in Gateway \ {g} : memory'[h] = memory[h]
    BY <1>12 DEF Edit, TypeOK, Rule
  <2>2. DownIsEmpty'
    BY <1>12, <2>1 DEF Edit, TypeOK, DownIsEmpty, Up, process, watch
  <2> QED
    BY <1>12, <2>1, <2>2 DEF TypeOK, Edit, process, watch
<1>13. ASSUME NEW g \in Gateway, LoadFile(g) PROVE TypeOK'
  <2>1. Up(g)
    BY <1>13 DEF LoadFile, TypeOK, DownIsEmpty
  <2> QED
    BY <1>13, <2>1 DEF TypeOK, DownIsEmpty, LoadFile, Up, process, watch, counts
<1>14. ASSUME NEW g \in Gateway, LoadFileFails(g) PROVE TypeOK'
  BY <1>14 DEF TypeOK, DownIsEmpty, LoadFileFails, Up, process, watch, counts
<1>15. ASSUME UNCHANGED vars PROVE TypeOK'
  BY <1>15 DEF TypeOK, DownIsEmpty, Up, vars, process, watch, counts
<1> QED
  BY <1>1, <1>2, <1>3, <1>4, <1>5, <1>6, <1>7, <1>8, <1>9, <1>10, <1>11, <1>12, <1>13,
     <1>14, <1>15 DEF Next, MainStep, LoaderStep

-----------------------------------------------------------------------------
(* A gateway follows etcd.                                                 *)

(* A step that leaves the key and a gateway's memory, watch and marks      *)
(* alone, and does not start it, leaves it where it was.                   *)
LEMMA SameFollows ==
  ASSUME NEW g \in Gateway, Follows(g), etcd' = etcd, memory'[g] = memory[g],
         events'[g] = events[g], loader'[g] = loader[g], todo'[g] = todo[g],
         apart'[g] = apart[g], Up(g)' => Up(g)
  PROVE  Follows(g)'
BY DEF Follows, Loadable

LEMMA NextFollows == IInv /\ [Next]_vars => FollowsEtcd'
<1> SUFFICES ASSUME TypeOK, FollowsEtcd, [Next]_vars PROVE FollowsEtcd'
  BY DEF IInv, PolicyInv
<1>1. \A h \in Gateway : Follows(h)
  BY DEF FollowsEtcd, Follows
<1>2. ASSUME \A h \in Gateway : Follows(h)' PROVE FollowsEtcd'
  BY <1>2 DEF FollowsEtcd, Follows
<1>3. ASSUME NEW g \in Gateway, Follows(g)', etcd' = etcd,
             \A h \in Gateway \ {g} :
               /\ memory'[h] = memory[h] /\ events'[h] = events[h] /\ loader'[h] = loader[h]
               /\ todo'[h] = todo[h] /\ apart'[h] = apart[h] /\ main'[h] = main[h]
      PROVE  FollowsEtcd'
  BY <1>1, <1>2, <1>3, SameFollows DEF Up
<1>4. ASSUME NEW g \in Gateway, NEW f \in File, Start(g, f) PROVE FollowsEtcd'
  <2>1. Follows(g)'
    BY <1>4 DEF Start, Follows, TypeOK
  <2> QED
    BY <1>3, <1>4, <2>1 DEF Start, Goto, TypeOK, watch
<1>5. ASSUME NEW g \in Gateway, GetPolicy(g) \/ GetGroupingPolicy(g) \/ PutFails(g)
      PROVE  FollowsEtcd'
  <2>1. Up(g) /\ UNCHANGED <<etcd, memory, events, loader, todo, apart>>
    BY <1>5 DEF GetPolicy, GetGroupingPolicy, PutFails, Up, watch
  <2>2. Follows(g)'
    BY <1>1, <2>1, SameFollows
  <2>3. \A h \in Gateway \ {g} : main'[h] = main[h]
    BY <1>5 DEF GetPolicy, GetGroupingPolicy, PutFails, Goto, TypeOK
  <2> QED
    BY <1>3, <2>1, <2>2, <2>3
<1>6. ASSUME NEW g \in Gateway, Put(g) PROVE FollowsEtcd'
  <2> SUFFICES ASSUME NEW h \in Gateway, Up(h)' PROVE events'[h] # 0
    BY <1>2 DEF Follows
  <2>1. Up(h)
    BY <1>6 DEF Put, Goto, Up, TypeOK
  <2>2. events'[h] = events[h] + 1 /\ events[h] \in Nat
    BY <1>6, <2>1 DEF Put, TypeOK
  <2> QED
    BY <2>2
<1>7. ASSUME NEW g \in Gateway, Crash(g) PROVE FollowsEtcd'
  <2>1. Follows(g)'
    BY <1>7 DEF Crash, Goto, Follows, Up, TypeOK
  <2> QED
    BY <1>3, <1>7, <2>1 DEF Crash, Goto, TypeOK
<1>8. ASSUME NEW g \in Gateway, TakeEvent(g) PROVE FollowsEtcd'
  <2>1. Follows(g)'
    BY <1>8 DEF TakeEvent, Follows, TypeOK
  <2> QED
    BY <1>3, <1>8, <2>1 DEF TakeEvent, TypeOK, process
<1>9. ASSUME NEW g \in Gateway, Load(g) PROVE FollowsEtcd'
  <2>1. loader'[g] = "add" /\ memory'[g] = {} /\ todo'[g] = etcd'.policy
    BY <1>9 DEF Load, TypeOK
  <2>2. Follows(g)'
    BY <2>1 DEF Follows
  <2> QED
    BY <1>3, <1>9, <2>2 DEF Load, TypeOK, process
<1>10. ASSUME NEW g \in Gateway, LoadFails(g) PROVE FollowsEtcd'
  <2>1. Follows(g)'
    BY <1>10 DEF LoadFails, Follows, TypeOK
  <2> QED
    BY <1>3, <1>10, <2>1 DEF LoadFails, TypeOK, process
<1>11. ASSUME NEW g \in Gateway, AddRule(g) PROVE FollowsEtcd'
  <2>1. PICK r \in todo[g] : /\ todo' = [todo EXCEPT ![g] = @ \ {r}]
                             /\ memory' = [memory EXCEPT ![g] = @ \cup Loadable({r})]
    BY <1>11 DEF AddRule
  <2>2. memory'[g] \cup Loadable(todo'[g]) = memory[g] \cup Loadable(todo[g])
    BY <2>1 DEF Loadable, TypeOK
  <2>3. Follows(g)'
    BY <1>1, <1>11, <2>2 DEF AddRule, Follows, Up, process
  <2> QED
    BY <1>3, <1>11, <2>1, <2>3 DEF AddRule, TypeOK, process
<1>12. ASSUME NEW g \in Gateway, Loaded(g) PROVE FollowsEtcd'
  <2>1. memory[g] \cup Loadable(todo[g]) = memory[g]
    BY <1>12 DEF Loaded, Loadable
  <2>2. Follows(g)'
    BY <1>1, <1>12, <2>1 DEF Loaded, Follows, Up, TypeOK, process
  <2> QED
    BY <1>3, <1>12, <2>2 DEF Loaded, TypeOK, process
<1>13. ASSUME NEW g \in Gateway, NEW r \in Grouping, Edit(g, r) PROVE FollowsEtcd'
  <2>1. Follows(g)'
    BY <1>13 DEF Edit, Follows, TypeOK
  <2> QED
    BY <1>3, <1>13, <2>1 DEF Edit, TypeOK, process, watch
<1>14. ASSUME NEW g \in Gateway, LoadFile(g) PROVE FollowsEtcd'
  <2>1. Follows(g)'
    BY <1>14 DEF LoadFile, Follows, TypeOK
  <2> QED
    BY <1>3, <1>14, <2>1 DEF LoadFile, TypeOK, process, watch
<1>15. ASSUME UNCHANGED <<etcd, memory, events, loader, todo, apart, main>> PROVE FollowsEtcd'
  BY <1>1, <1>2, <1>15, SameFollows DEF Up
<1> QED
  BY <1>4, <1>5, <1>6, <1>7, <1>8, <1>9, <1>10, <1>11, <1>12, <1>13, <1>14, <1>15
     DEF Next, MainStep, LoaderStep, LoadFileFails, vars, process, watch

-----------------------------------------------------------------------------
(* The rules in etcd are those of files.                                   *)

LEMMA NextLocal == IInv /\ [Next]_vars => EditsStayLocal'
<1> SUFFICES ASSUME TypeOK, EditsStayLocal, [Next]_vars PROVE EditsStayLocal'
  BY DEF IInv, PolicyInv
<1>1. \A h \in Gateway : Local(h)
  BY DEF EditsStayLocal, Local
<1>2. ASSUME NEW g \in Gateway, etcd' = etcd, Local(g)',
             \A h \in Gateway \ {g} :
               /\ file'[h] = file[h] /\ saving'[h] = saving[h] /\ todo'[h] = todo[h]
               /\ main'[h] = main[h] /\ memory'[h] = memory[h]
      PROVE  EditsStayLocal'
  <2>1. \A h \in Gateway : Local(h)'
    BY <1>1, <1>2 DEF Local
  <2> QED
    BY <1>2, <2>1 DEF EditsStayLocal, Local
<1>3. ASSUME NEW g \in Gateway, NEW f \in File, Start(g, f) PROVE EditsStayLocal'
  <2>1. Local(g)'
    BY <1>1, <1>3, FileRules DEF Start, Local, TypeOK, watch
  <2> QED
    BY <1>2, <1>3, <2>1 DEF Start, Goto, TypeOK, watch
<1>4. ASSUME NEW g \in Gateway, GetPolicy(g) \/ GetGroupingPolicy(g) PROVE EditsStayLocal'
  <2>1. main[g] # "serving" /\ memory' = memory /\ file' = file /\ todo' = todo /\ etcd' = etcd
    BY <1>4 DEF GetPolicy, GetGroupingPolicy, watch
  <2>2. saving'[g] \subseteq saving[g] \cup memory[g]
    BY <1>4 DEF GetPolicy, GetGroupingPolicy, TypeOK
  <2>3. Local(g)'
    BY <1>1, <2>1, <2>2 DEF Local
  <2> QED
    BY <1>2, <1>4, <2>1, <2>3 DEF GetPolicy, GetGroupingPolicy, Goto, TypeOK
<1>5. ASSUME NEW g \in Gateway, Put(g) PROVE EditsStayLocal'
  <2>1. etcd'.policy \subseteq UNION File
    BY <1>1, <1>5 DEF Put, Local
  <2>2. \A h \in Gateway : Local(h)'
    BY <1>1, <1>5 DEF Put, Goto, Local, TypeOK
  <2> QED
    BY <2>1, <2>2 DEF EditsStayLocal, Local
<1>6. ASSUME NEW g \in Gateway, PutFails(g) PROVE EditsStayLocal'
  <2>1. Local(g)'
    BY <1>1, <1>6 DEF PutFails, Goto, Local, TypeOK, watch
  <2> QED
    BY <1>2, <1>6, <2>1 DEF PutFails, Goto, TypeOK, watch
<1>7. ASSUME NEW g \in Gateway, Crash(g) PROVE EditsStayLocal'
  <2>1. Local(g)'
    BY <1>1, <1>7 DEF Crash, Local, TypeOK
  <2> QED
    BY <1>2, <1>7, <2>1 DEF Crash, Goto, TypeOK
<1>8. ASSUME NEW g \in Gateway, Load(g) PROVE EditsStayLocal'
  <2>1. Local(g)'
    BY <1>1, <1>8 DEF Load, Local, EditsStayLocal, TypeOK, process
  <2> QED
    BY <1>2, <1>8, <2>1 DEF Load, TypeOK, process
<1>9. ASSUME NEW g \in Gateway, AddRule(g) PROVE EditsStayLocal'
  <2>1. PICK r \in todo[g] : /\ todo' = [todo EXCEPT ![g] = @ \ {r}]
                             /\ memory' = [memory EXCEPT ![g] = @ \cup Loadable({r})]
    BY <1>9 DEF AddRule
  <2>2. todo'[g] \subseteq todo[g] /\ memory'[g] \subseteq memory[g] \cup todo[g]
    BY <2>1 DEF TypeOK, Loadable
  <2>3. Local(g)'
    BY <1>1, <1>9, <2>2 DEF AddRule, Local, process
  <2> QED
    BY <1>2, <1>9, <2>1, <2>3 DEF AddRule, TypeOK, process
<1>10. ASSUME NEW g \in Gateway, NEW r \in Grouping, Edit(g, r) PROVE EditsStayLocal'
  <2>1. Local(g)'
    BY <1>1, <1>10 DEF Edit, Local, process, watch
  <2> QED
    BY <1>2, <1>10, <2>1 DEF Edit, TypeOK, process, watch
<1>11. ASSUME NEW g \in Gateway, LoadFile(g) PROVE EditsStayLocal'
  <2>1. Local(g)'
    BY <1>1, <1>11 DEF LoadFile, Local, TypeOK, process, watch
  <2> QED
    BY <1>2, <1>11, <2>1 DEF LoadFile, TypeOK, process, watch
<1>12. ASSUME UNCHANGED <<etcd, process, todo, memory>> PROVE EditsStayLocal'
  BY <1>12 DEF EditsStayLocal, process
<1> QED
  BY <1>3, <1>4, <1>5, <1>6, <1>7, <1>8, <1>9, <1>10, <1>11, <1>12
     DEF Next, MainStep, LoaderStep, TakeEvent, LoadFails, Loaded, LoadFileFails, vars, watch

LEMMA InitInv == Init => IInv
<1> SUFFICES ASSUME Init PROVE IInv
  OBVIOUS
<1>1. PolicyInv
  BY DEF Init, PolicyInv, FollowsEtcd, EditsStayLocal
<1> QED
  BY <1>1, InitTyped DEF IInv

LEMMA NextInv == IInv /\ [Next]_vars => IInv'
BY NextTyped, NextFollows, NextLocal DEF IInv, PolicyInv

(* The policy, the memories and the watches hold values of their types,    *)
(* and a gateway that is down has none.                                    *)
THEOREM TypeCorrect == Spec => []TypeOK
<1>1. IInv => TypeOK
  BY DEF IInv
<1> QED
  BY <1>1, InitInv, NextInv, PTL DEF Spec

(* Whichever gateways save, load, edit, fail and restart, a gateway that   *)
(* has no change left to handle has the groupings of etcd, and etcd has    *)
(* rules of the files only.                                                *)
THEOREM GatewaysFollow == Spec => []PolicyInv
<1>1. IInv => PolicyInv
  BY DEF IInv
<1> QED
  BY <1>1, InitInv, NextInv, PTL DEF Spec
-----------------------------------------------------------------------------
(* The refinement of the board.                                            *)

Modes    == [g \in Gateway |-> Standing(g)]
Refusing == [g \in Gateway |-> Refuses(g)]

(* What the board sees of a gateway stays when these do.                   *)
Same(g) ==
  /\ Up(g)' <=> Up(g)
  /\ memory'[g] = memory[g] /\ events'[g] = events[g]
  /\ loader'[g] = loader[g] /\ apart'[g] = apart[g]

LEMMA SameSeen ==
  ASSUME NEW g \in Gateway, Same(g)
  PROVE  Standing(g)' = Standing(g) /\ Refuses(g)' = Refuses(g)
BY DEF Same, Standing, Told, Refuses

(* A step of one gateway changes the board at that gateway.                *)
LEMMA OneMoves ==
  ASSUME NEW g \in Gateway, \A h \in Gateway \ {g} : Same(h)
  PROVE  /\ Modes' = [Modes EXCEPT ![g] = Standing(g)']
         /\ Refusing' = [Refusing EXCEPT ![g] = Refuses(g)']
<1>1. \A h \in Gateway \ {g} : Standing(h)' = Standing(h) /\ Refuses(h)' = Refuses(h)
  BY SameSeen
<1> QED
  BY <1>1 DEF Modes, Refusing

(* A step that moves no gateway on the board, and saves nothing, stutters. *)
LEMMA BoardStays ==
  ASSUME etcd' = etcd,
         \A h \in Gateway : Standing(h)' = Standing(h) /\ Refuses(h)' = Refuses(h)
  PROVE  UNCHANGED Board!vars
BY DEF Board!vars, Loadable

LEMMA OneStays ==
  ASSUME etcd' = etcd, NEW g \in Gateway, \A h \in Gateway \ {g} : Same(h),
         Standing(g)' = Standing(g), Refuses(g)' = Refuses(g)
  PROVE  UNCHANGED Board!vars
BY SameSeen, BoardStays

(* A gateway that is apart, goes apart or still has to load may refuse     *)
(* anybody.                                                                *)
LEMMA OneChanges ==
  ASSUME etcd' = etcd, NEW g \in Gateway, \A h \in Gateway \ {g} : Same(h),
         Standing(g) # "down",
         Standing(g)' = IF Standing(g) = "told" THEN "told" ELSE "apart"
  PROVE  Board!Next
<1>1. /\ Modes' = [Modes EXCEPT ![g] = Standing(g)']
      /\ Refusing' = [Refusing EXCEPT ![g] = Refuses(g)']
  BY OneMoves
<1>2. Refuses(g)' \in SUBSET Grouping
  BY DEF Refuses
<1>3. Board!Change(g, Refuses(g)')
  BY <1>1 DEF Board!Change, Board!Running, Modes, Refusing, Loadable
<1> QED
  BY <1>2, <1>3 DEF Board!Next

LEMMA BoardStart ==
  ASSUME TypeOK, NEW g \in Gateway, NEW f \in File, Start(g, f)
  PROVE  Board!Next
<1>1. \A h \in Gateway \ {g} : Same(h)
  BY DEF Start, Goto, Same, Up, TypeOK, watch
<1>2. Standing(g) = "down" /\ Standing(g)' = "apart"
  BY DEF Start, Goto, Standing, Up, Told, TypeOK, DownIsEmpty, watch
<1>3. Refuses(g)' = f \cap Grouping
  BY DEF Start, Refuses, TypeOK
<1>4. etcd' = etcd
  BY DEF Start
<1>5. Board!Start(g, f)
  BY <1>1, <1>2, <1>3, <1>4, OneMoves
     DEF Board!Start, Board!Running, Board!Enter, Modes, Refusing, Loadable
<1> QED
  BY <1>5 DEF Board!Next

LEMMA BoardCrash ==
  ASSUME TypeOK, NEW g \in Gateway, Crash(g)
  PROVE  Board!Next
<1>1. \A h \in Gateway \ {g} : Same(h)
  BY DEF Crash, Goto, Same, Up, TypeOK
<1>2. Standing(g) # "down" /\ Standing(g)' = "down"
  BY DEF Crash, Goto, Standing, Up, Told, TypeOK
<1>3. Refuses(g)' = {} /\ etcd' = etcd
  BY DEF Crash, Refuses, TypeOK
<1>4. Board!Stop(g)
  BY <1>1, <1>2, <1>3, OneMoves
     DEF Board!Stop, Board!Running, Board!Enter, Modes, Refusing, Loadable
<1> QED
  BY <1>4 DEF Board!Next

(* A put tells every watch.                                                *)
LEMMA BoardPut ==
  ASSUME IInv, NEW g \in Gateway, Put(g)
  PROVE  Board!Next
<1>1. /\ Loadable(etcd.policy)' = Loadable(saving[g])
      /\ Loadable(saving[g]) \in SUBSET Grouping /\ Loadable(saving[g]) \subseteq UNION File
  BY DEF Put, Loadable, IInv, PolicyInv, EditsStayLocal
<1>2. ASSUME NEW h \in Gateway
      PROVE  /\ Standing(h)' = IF Standing(h) # "down" THEN "told" ELSE "down"
             /\ Refuses(h)' = Refuses(h)
  <2>1. Up(h)' <=> Up(h)
    BY DEF Put, Goto, Up, IInv, TypeOK
  <2>2. Up(h) => events'[h] > 0
    BY DEF Put, IInv, TypeOK
  <2> QED
    BY <2>1, <2>2 DEF Put, Standing, Told, Refuses
<1>3. Standing(g) # "down"
  BY DEF Put, Standing, Up, Told
<1>4. Board!Save(Loadable(saving[g]))
  BY <1>1, <1>2, <1>3 DEF Board!Save, Board!Running
<1> QED
  BY <1>1, <1>4 DEF Board!Next

(* The load of a gateway that has not been told again clears it.           *)
LEMMA BoardLoad ==
  ASSUME TypeOK, NEW g \in Gateway, Load(g)
  PROVE  Board!Next
<1>1. etcd' = etcd /\ \A h \in Gateway \ {g} : Same(h)
  BY DEF Load, Same, Up, TypeOK, process
<1>2. Up(g) /\ Up(g)' /\ events[g] \in Nat /\ events'[g] = events[g]
  BY DEF Load, Up, TypeOK, DownIsEmpty, process
<1>3. Standing(g) = "told"
  BY <1>2 DEF Load, Standing, Told
<1>4. CASE events[g] > 0
  <2>1. Standing(g)' = "told"
    BY <1>2, <1>4 DEF Standing, Told
  <2> QED
    BY <1>1, <1>3, <2>1, OneChanges
<1>5. CASE events[g] = 0
  <2>1. Standing(g)' = "loading" /\ Refuses(g)' = {}
    BY <1>2, <1>5 DEF Load, Standing, Told, Refuses, TypeOK
  <2>2. Board!Clear(g)
    BY <1>1, <1>3, <2>1, OneMoves DEF Board!Clear, Board!Enter, Modes, Refusing, Loadable
  <2> QED
    BY <2>2 DEF Board!Next
<1> QED
  BY <1>2, <1>4, <1>5

LEMMA BoardLoadFails ==
  ASSUME TypeOK, NEW g \in Gateway, LoadFails(g)
  PROVE  Board!Next \/ UNCHANGED Board!vars
<1>1. etcd' = etcd /\ \A h \in Gateway \ {g} : Same(h)
  BY DEF LoadFails, Same, Up, TypeOK, process
<1>2. Up(g) /\ Up(g)' /\ events[g] \in Nat /\ events'[g] = events[g] /\ Refuses(g)' = Refuses(g)
  BY DEF LoadFails, Refuses, Up, TypeOK, DownIsEmpty, process
<1>3. Standing(g) = "told"
  BY <1>2 DEF LoadFails, Standing, Told
<1>4. CASE events[g] > 0
  <2>1. Standing(g)' = "told"
    BY <1>2, <1>4 DEF Standing, Told
  <2> QED
    BY <1>1, <1>2, <1>3, <2>1, OneStays
<1>5. CASE events[g] = 0
  <2>1. Standing(g)' = "apart"
    BY <1>2, <1>5 DEF LoadFails, Standing, Told, TypeOK
  <2>2. Board!Fail(g)
    BY <1>1, <1>2, <1>3, <2>1, OneMoves DEF Board!Fail, Board!Enter, Modes, Refusing, Loadable
  <2> QED
    BY <2>2 DEF Board!Next
<1> QED
  BY <1>2, <1>4, <1>5

(* A rule that a loading gateway adds is of the policy saved last: nothing *)
(* has been saved since it was read.                                       *)
LEMMA BoardAddRule ==
  ASSUME IInv, NEW g \in Gateway, AddRule(g)
  PROVE  Board!Next \/ UNCHANGED Board!vars
<1>1. etcd' = etcd /\ \A h \in Gateway \ {g} : Same(h)
  BY DEF AddRule, Same, Up, IInv, TypeOK, process
<1>2. Up(g) /\ loader[g] = "add" /\ Standing(g)' = Standing(g)
  BY DEF AddRule, Standing, Told, Up, IInv, TypeOK, DownIsEmpty, process
<1>3. CASE Standing(g) \in {"told", "apart"}
  BY <1>1, <1>2, <1>3, OneChanges
<1>4. CASE Standing(g) = "loading"
  <2>1. PICK r \in todo[g] : memory' = [memory EXCEPT ![g] = @ \cup Loadable({r})]
    BY DEF AddRule
  <2>2. memory[g] \cup Loadable(todo[g]) = Loadable(etcd.policy)
    <3>1. ~apart[g] /\ ~(events[g] > 0)
      BY <1>2, <1>4 DEF Standing, Told
    <3>2. events[g] = 0
      BY <3>1 DEF IInv, TypeOK
    <3> QED
      BY <1>2, <3>1, <3>2 DEF IInv, PolicyInv, FollowsEtcd
  <2>3. CASE r \in Grouping
    <3>1. Refuses(g)' = Refuses(g) \cup {r} /\ r \in Loadable(etcd.policy)
      BY <2>1, <2>2, <2>3 DEF Refuses, Loadable, IInv, TypeOK
    <3>2. Board!Add(g)
      BY <1>1, <1>2, <1>4, <3>1, OneMoves DEF Board!Add, Modes, Refusing, Loadable
    <3> QED
      BY <3>2 DEF Board!Next
  <2>4. CASE r \notin Grouping
    <3>1. Refuses(g)' = Refuses(g)
      BY <2>1, <2>4 DEF Refuses, Loadable, IInv, TypeOK
    <3> QED
      BY <1>1, <1>2, <3>1, OneStays
  <2> QED
    BY <2>3, <2>4
<1> QED
  BY <1>2, <1>3, <1>4 DEF Standing

(* A load that is complete, and the last, has made the gateway follow.     *)
LEMMA BoardLoaded ==
  ASSUME IInv, NEW g \in Gateway, Loaded(g)
  PROVE  Board!Next \/ UNCHANGED Board!vars
<1>1. etcd' = etcd /\ \A h \in Gateway \ {g} : Same(h)
  BY DEF Loaded, Same, Up, IInv, TypeOK, process
<1>2. /\ Up(g) /\ Up(g)' /\ loader[g] = "add" /\ loader'[g] = "idle"
      /\ events'[g] = events[g] /\ apart'[g] = apart[g] /\ Refuses(g)' = Refuses(g)
  BY DEF Loaded, Refuses, Up, IInv, TypeOK, DownIsEmpty, process
<1>3. CASE Standing(g) \in {"told", "apart"}
  <2>1. Standing(g)' = Standing(g)
    BY <1>2, <1>3 DEF Standing, Told
  <2> QED
    BY <1>1, <1>2, <2>1, OneStays
<1>4. CASE Standing(g) = "loading"
  <2>1. ~apart[g] /\ ~(events[g] > 0)
    BY <1>2, <1>4 DEF Standing, Told
  <2>2. events[g] = 0
    BY <2>1 DEF IInv, TypeOK
  <2>3. memory[g] \cup Loadable(todo[g]) = Loadable(etcd.policy)
    BY <1>2, <2>1, <2>2 DEF IInv, PolicyInv, FollowsEtcd
  <2>4. Refuses(g) = Loadable(etcd.policy)
    BY <2>3 DEF Loaded, Refuses, Loadable
  <2>5. Standing(g)' = "follows"
    BY <1>2, <2>1 DEF Standing, Told
  <2>6. Board!Follow(g)
    BY <1>1, <1>2, <1>4, <2>4, <2>5, OneMoves
       DEF Board!Follow, Board!Enter, Modes, Refusing, Loadable
  <2> QED
    BY <2>6 DEF Board!Next
<1> QED
  BY <1>2, <1>3, <1>4 DEF Standing

LEMMA BoardEdit ==
  ASSUME TypeOK, NEW g \in Gateway, (\E r \in Grouping : Edit(g, r)) \/ LoadFile(g)
  PROVE  Board!Next
<1>1. etcd' = etcd
  BY DEF Edit, LoadFile
<1>2. ASSUME NEW h \in Gateway \ {g} PROVE Same(h)
  BY DEF Edit, LoadFile, Same, Up, TypeOK, process, watch
<1>3. Up(g) /\ Up(g)' /\ UNCHANGED <<events, loader>> /\ apart'[g] = TRUE
  BY DEF Edit, LoadFile, Up, TypeOK, DownIsEmpty, process, watch
<1>4. /\ Standing(g) # "down"
      /\ Standing(g)' = IF Standing(g) = "told" THEN "told" ELSE "apart"
  BY <1>3 DEF Standing, Told
<1> QED
  BY <1>1, <1>2, <1>4, OneChanges

LEMMA BoardStep == IInv /\ [Next]_vars => [Board!Next]_Board!vars
<1> SUFFICES ASSUME IInv, [Next]_vars
             PROVE  Board!Next \/ UNCHANGED Board!vars
  OBVIOUS
<1>1. TypeOK
  BY DEF IInv
<1>2. ASSUME NEW g \in Gateway, GetPolicy(g) \/ GetGroupingPolicy(g) \/ PutFails(g)
      PROVE  UNCHANGED Board!vars
  <2>1. etcd' = etcd /\ UNCHANGED <<memory, events, loader, apart>>
    BY <1>2 DEF GetPolicy, GetGroupingPolicy, PutFails, watch
  <2>2. ASSUME NEW h \in Gateway PROVE Up(h)' <=> Up(h)
    BY <1>1, <1>2 DEF GetPolicy, GetGroupingPolicy, PutFails, Goto, Up, TypeOK
  <2> QED
    BY <2>1, <2>2, SameSeen, BoardStays DEF Same
<1>3. ASSUME NEW g \in Gateway, TakeEvent(g)
      PROVE  UNCHANGED Board!vars
  <2>1. etcd' = etcd /\ \A h \in Gateway \ {g} : Same(h)
    BY <1>1, <1>3 DEF TakeEvent, Same, Up, TypeOK, process
  <2>2. Up(g) /\ Up(g)' /\ Told(g) /\ Told(g)'
    BY <1>1, <1>3 DEF TakeEvent, Told, Up, TypeOK, DownIsEmpty, process
  <2>3. Standing(g)' = Standing(g) /\ Refuses(g)' = Refuses(g)
    BY <1>3, <2>2 DEF TakeEvent, Standing, Refuses
  <2> QED
    BY <2>1, <2>3, OneStays
<1>4. ASSUME UNCHANGED <<etcd, main, memory, events, loader, apart>>
      PROVE  UNCHANGED Board!vars
  BY <1>4, SameSeen, BoardStays DEF Same, Up
<1> QED
  BY <1>1, <1>2, <1>3, <1>4, BoardStart, BoardCrash, BoardPut, BoardLoad, BoardLoadFails,
     BoardAddRule, BoardLoaded, BoardEdit
     DEF Next, MainStep, LoaderStep, LoadFileFails, vars, process, watch

(* The policy's synchronisation implements the board, whichever gateways   *)
(* start, save, edit, fail and stop, and however their steps interleave.   *)
THEOREM SyncImplementsBoard == Spec => ImplementsBoard
<1>1. Init => Board!Init
  BY DEF Init, Board!Init, Loadable, Standing, Up, Refuses
<1> QED
  BY <1>1, InitInv, NextInv, BoardStep, PTL DEF Spec, ImplementsBoard, Board!Spec
=============================================================================
