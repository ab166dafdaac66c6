------------------------------ MODULE Accounts ------------------------------
(***************************************************************************)
(* What the user service promises: an account is opened at one instant,    *)
(* under an id and an email no other account has; a call is told "ok" only *)
(* after it has opened one itself, and "exists" only when its email has    *)
(* one.  Accounts are announced, once or more often, after they are open.  *)
(***************************************************************************)
EXTENDS Naturals

CONSTANTS Request, Email, None, MaxId

Account == [id : 1..MaxId, email : Email]

VARIABLES
  accounts,
  wants,      \* the email each call asks for
  opened,     \* the id each call has opened an account under, or 0
  answer,     \* what each call is told
  announced

vars == <<accounts, wants, opened, answer, announced>>

Init ==
  /\ accounts = {}
  /\ wants = [r \in Request |-> None]
  /\ opened = [r \in Request |-> 0]
  /\ answer = [r \in Request |-> "none"]
  /\ announced = {}

Ask(r, e) ==
  /\ wants[r] = None
  /\ wants' = [wants EXCEPT ![r] = e]
  /\ UNCHANGED <<accounts, opened, answer, announced>>

Open(r, a) ==
  /\ wants[r] = a.email
  /\ answer[r] = "none"
  /\ opened[r] = 0
  /\ \A b \in accounts : b.id # a.id /\ b.email # a.email
  /\ accounts' = accounts \cup {a}
  /\ opened' = [opened EXCEPT ![r] = a.id]
  /\ UNCHANGED <<wants, answer, announced>>

Answer(r, what) ==
  /\ wants[r] # None
  /\ answer[r] = "none"
  /\ what = "ok" => opened[r] # 0
  /\ what = "exists" => \E a \in accounts : a.email = wants[r]
  /\ answer' = [answer EXCEPT ![r] = what]
  /\ UNCHANGED <<accounts, wants, opened, announced>>

Announce(a) ==
  /\ a \in accounts
  /\ announced' = announced \cup {a}
  /\ UNCHANGED <<accounts, wants, opened, answer>>

Next ==
  \/ \E r \in Request, e \in Email : Ask(r, e)
  \/ \E r \in Request, a \in Account : Open(r, a)
  \/ \E r \in Request, what \in {"ok", "exists", "error"} : Answer(r, what)
  \/ \E a \in accounts : Announce(a)

Spec == Init /\ [][Next]_vars
=============================================================================
