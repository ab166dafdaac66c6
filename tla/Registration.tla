---------------------------- MODULE Registration ----------------------------
(***************************************************************************)
(* The user service's Register, run by several replicas on one database,   *)
(* and the event that follows it over Kafka.  Every statement of Register  *)
(* is a step: the email is looked up, an id generated and looked up, and   *)
(* the row inserted, and other calls may come in between; only the unique  *)
(* indexes of the table keep two calls apart.  The replicas' snowflake     *)
(* nodes have one number, so that two replicas may generate one id.        *)
(***************************************************************************)
EXTENDS Naturals, Sequences

CONSTANTS
  Replica,
  Request,       \* calls of Register
  Email,
  None,          \* no email or replica yet
  MaxRetries,    \* ids a call tries (10 in the code)
  MaxId,         \* bounds on the ids and on the length of the topic
  MaxTopic,
  Faulty         \* may statements, publications and processes fail?

ASSUME RegistrationAssumption ==
  /\ None \notin Email \cup Replica
  /\ {MaxRetries, MaxId, MaxTopic} \subseteq Nat \ {0}
  /\ Faulty \in BOOLEAN

VARIABLES
  users,      \* table users: id and email of each row
  last,       \* the last id of each replica's snowflake node
  pc,
  on,         \* replica, email, id and tries of each call
  email,
  id,
  tries,
  pending,    \* events that goroutines are publishing
  topic,      \* the Kafka topic user.registered
  offset,     \* what each replica's consumer has read of it
  seen        \* events each replica has passed to its handlers

calls  == <<pc, on, email, id, tries>>
bus    == <<pending, topic, offset, seen>>
vars   == <<users, last, calls, bus>>

User == [id : 1..MaxId, email : Email]    \* also what an event says
Pc   == {"new", "checkEmail", "generate", "checkId", "insert", "created",
         "ok", "exists", "error", "lost"}

TypeOK ==
  /\ users \subseteq User
  /\ last \in [Replica -> 0..MaxId]
  /\ pc \in [Request -> Pc]
  /\ on \in [Request -> Replica \cup {None}]
  /\ email \in [Request -> Email \cup {None}]
  /\ id \in [Request -> 0..MaxId]
  /\ tries \in [Request -> 0..MaxRetries]
  /\ pending \subseteq User
  /\ topic \in Seq(User)
  /\ offset \in [Replica -> 0..Len(topic)]
  /\ seen \in [Replica -> SUBSET User]

Init ==
  /\ users = {}
  /\ last = [p \in Replica |-> 0]
  /\ pc = [r \in Request |-> "new"]
  /\ on = [r \in Request |-> None]
  /\ email = [r \in Request |-> None]
  /\ id = [r \in Request |-> 0]
  /\ tries = [r \in Request |-> 0]
  /\ pending = {}
  /\ topic = <<>>
  /\ offset = [p \in Replica |-> 0]
  /\ seen = [p \in Replica |-> {}]

-----------------------------------------------------------------------------
(* Register.                                                               *)

Goto(r, to) == pc' = [pc EXCEPT ![r] = to]

Begin(r, p, e) ==
  /\ pc[r] = "new"
  /\ Goto(r, "checkEmail")
  /\ on' = [on EXCEPT ![r] = p]
  /\ email' = [email EXCEPT ![r] = e]
  /\ UNCHANGED <<users, last, id, tries, bus>>

Taken(e) == \E u \in users : u.email = e

(* Mutant: an error of the lookup is taken for a row.                      *)
CheckEmailMistaken(r) ==
  /\ pc[r] = "checkEmail"
  /\ \/ Taken(email[r]) /\ Goto(r, "exists")
     \/ ~Taken(email[r]) /\ Goto(r, "generate")
     \/ Faulty /\ Goto(r, "exists")
  /\ UNCHANGED <<users, last, on, email, id, tries, bus>>

(* The row of the email is looked up; the lookup may fail.                 *)
CheckEmail(r) ==
  /\ pc[r] = "checkEmail"
  /\ \/ Taken(email[r]) /\ Goto(r, "exists")
     \/ ~Taken(email[r]) /\ Goto(r, "generate")
     \/ Faulty /\ Goto(r, "error")
  /\ UNCHANGED <<users, last, on, email, id, tries, bus>>

(* The replica's node gives ids that grow with time, after a restart too.  *)
Generate(r) ==
  /\ pc[r] = "generate"
  /\ \E i \in (last[on[r]] + 1)..MaxId :
       /\ id' = [id EXCEPT ![r] = i]
       /\ last' = [last EXCEPT ![on[r]] = i]
  /\ Goto(r, "checkId")
  /\ UNCHANGED <<users, on, email, tries, bus>>

(* The id is looked up.  Any outcome but "not found", an error too, is a   *)
(* reason to try another one, until MaxRetries have been tried.            *)
CheckId(r) ==
  /\ pc[r] = "checkId"
  /\ \/ /\ \A u \in users : u.id # id[r]
        /\ Goto(r, "insert")
        /\ UNCHANGED tries
     \/ /\ Faulty \/ \E u \in users : u.id = id[r]
        /\ tries' = [tries EXCEPT ![r] = @ + 1]
        /\ Goto(r, IF tries[r] + 1 = MaxRetries THEN "error" ELSE "generate")
  /\ UNCHANGED <<users, last, on, email, id, bus>>

Row(r) == [id |-> id[r], email |-> email[r]]

(* The primary key and the unique index on the email refuse the row.       *)
Clashes(r) == \E u \in users : u.id = id[r] \/ u.email = email[r]

(* Mutant: the error of the insert is not looked at.                       *)
InsertUnchecked(r) ==
  /\ pc[r] = "insert"
  /\ users' = IF Clashes(r) THEN users ELSE users \cup {Row(r)}
  /\ Goto(r, "created")
  /\ UNCHANGED <<last, on, email, id, tries, bus>>

(* Mutant: a table without a unique index on the email.                    *)
InsertUnindexed(r) ==
  /\ pc[r] = "insert"
  /\ \A u \in users : u.id # id[r]
  /\ Goto(r, "created")
  /\ users' = users \cup {Row(r)}
  /\ UNCHANGED <<last, on, email, id, tries, bus>>

Insert(r) ==
  /\ pc[r] = "insert"
  /\ \/ Clashes(r) /\ Goto(r, "error") /\ UNCHANGED users
     \/ ~Clashes(r) /\ Goto(r, "created") /\ users' = users \cup {Row(r)}
  /\ UNCHANGED <<last, on, email, id, tries, bus>>

(* A goroutine is started to publish the event, and the call answered.     *)
Return(r) ==
  /\ pc[r] = "created"
  /\ Goto(r, "ok")
  /\ pending' = pending \cup {Row(r)}
  /\ UNCHANGED <<users, last, on, email, id, tries, topic, offset, seen>>

(* An insert that fails, or is committed and not acknowledged, or a crash  *)
(* of the replica: the caller gets an error, and there may be a row.       *)
RegisterFails(r) ==
  /\ Faulty
  /\ pc[r] \in {"checkEmail", "generate", "checkId", "insert", "created"}
  /\ Goto(r, IF pc[r] = "created" THEN "lost" ELSE "error")
  /\ UNCHANGED <<users, last, on, email, id, tries, bus>>

-----------------------------------------------------------------------------
(* The event bus.                                                          *)

(* The message is in the topic; without an acknowledgement the producer    *)
(* sends it again.                                                         *)
Send(u) ==
  /\ u \in pending
  /\ Len(topic) < MaxTopic
  /\ topic' = Append(topic, u)
  /\ pending' = pending \ {u} \/ (Faulty /\ UNCHANGED pending)
  /\ UNCHANGED <<users, last, calls, offset, seen>>

(* The publication fails, which is only logged, or its process stops.      *)
SendFails(u) ==
  /\ Faulty
  /\ u \in pending
  /\ pending' = pending \ {u}
  /\ UNCHANGED <<users, last, calls, topic, offset, seen>>

(* A consumer passes the next message to the handlers.                     *)
Deliver(p) ==
  /\ offset[p] < Len(topic)
  /\ offset' = [offset EXCEPT ![p] = @ + 1]
  /\ seen' = [seen EXCEPT ![p] = @ \cup {topic[offset[p] + 1]}]
  /\ UNCHANGED <<users, last, calls, pending, topic>>

(* Mutant: a consumer that starts behind the next message.                 *)
SubscribeBehind(p) ==
  /\ Faulty
  /\ offset' = [offset EXCEPT ![p] = Len(topic) + 1]
  /\ UNCHANGED <<users, last, calls, pending, topic, seen>>

(* A consumer starts, with its replica, at the newest offset: what was     *)
(* published before is not read.                                           *)
Subscribe(p) ==
  /\ Faulty
  /\ offset' = [offset EXCEPT ![p] = Len(topic)]
  /\ UNCHANGED <<users, last, calls, pending, topic, seen>>

RegisterStep(r) ==
  \/ CheckEmail(r) \/ Generate(r) \/ CheckId(r) \/ Insert(r) \/ Return(r)
  \/ RegisterFails(r)

Next ==
  \/ \E r \in Request, p \in Replica, e \in Email : Begin(r, p, e)
  \/ \E r \in Request : RegisterStep(r)
  \/ \E u \in pending : Send(u) \/ SendFails(u)
  \/ \E p \in Replica : Deliver(p) \/ Subscribe(p)

Spec == Init /\ [][Next]_vars

-----------------------------------------------------------------------------
(* Properties.                                                             *)

Opened(r) == pc[r] \in {"created", "ok", "lost"}

(* A call that has opened an account has its own, in its email, and no     *)
(* two calls have one email or one id, although each has only looked       *)
(* before it wrote.                                                        *)
AccountsAreOwn ==
  /\ \A r \in Request : Opened(r) => Row(r) \in users
  /\ \A r, s \in Request :
       Opened(r) /\ Opened(s) /\ r # s => email[r] # email[s] /\ id[r] # id[s]
  /\ \A u \in users : \E r \in Request : Opened(r) /\ Row(r) = u

(* No event is under way, stored or delivered but of a user who exists,    *)
(* whatever is lost or sent twice.                                         *)
EventsAreTrue ==
  /\ pending \subseteq users
  /\ \A i \in DOMAIN topic : topic[i] \in users
  /\ \A p \in Replica : seen[p] \subseteq users

(* An id is generated twice only by different replicas, so that a row      *)
(* whose id was found free when it was looked up clashes in its id only    *)
(* with one of another replica.                                            *)
IdsClashAcrossReplicas ==
  \A r, s \in Request : r # s /\ id[r] # 0 /\ id[r] = id[s] => on[r] # on[s]

(* What the steps of a call rely on when others come in between.           *)
CallFits(r) ==
  /\ pc[r] = "new" <=> email[r] = None
  /\ pc[r] # "new" => on[r] \in Replica
  /\ id[r] # 0 => pc[r] # "new" /\ id[r] <= last[on[r]]
  /\ pc[r] \in {"checkId", "insert"} \/ Opened(r) => id[r] # 0
  /\ pc[r] \in {"generate", "checkId", "insert"} => tries[r] < MaxRetries
  /\ pc[r] \in {"new", "checkEmail"} => tries[r] = 0
  /\ pc[r] = "exists" => Taken(email[r])

CallsFit == \A r \in Request : CallFits(r)

(* Register, whatever fails and however calls interleave: accounts of its  *)
(* callers only, each with its own id and email.                           *)
RegInv == CallsFit /\ IdsClashAcrossReplicas /\ AccountsAreOwn

-----------------------------------------------------------------------------
Told(r) ==
  CASE pc[r] \in {"ok", "exists"}   -> pc[r]
    [] pc[r] \in {"error", "lost"}  -> "error"
    [] OTHER                        -> "none"

Accounts == INSTANCE Accounts WITH
  accounts <- users, wants <- email,
  opened <- [r \in Request |-> IF Opened(r) THEN id[r] ELSE 0],
  answer <- [r \in Request |-> Told(r)],
  announced <- {topic[i] : i \in DOMAIN topic}

(* Looking first and writing later, at several replicas, is as good as     *)
(* opening the account at one instant.                                     *)
ImplementsAccounts == Accounts!Spec
=============================================================================
