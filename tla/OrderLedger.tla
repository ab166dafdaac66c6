---------------------------- MODULE OrderLedger ----------------------------
(***************************************************************************)
(* What the order and payment services promise.  An order is placed once,  *)
(* for a user and an amount, and settled once; a payment is recorded once, *)
(* and neither is changed again.  As long as clients do not charge orders  *)
(* themselves, an order is paid for by at most one transaction, of its     *)
(* user and amount; as long as they do not mark them paid themselves, it   *)
(* is settled only once a payment by its user is recorded.                 *)
(***************************************************************************)
EXTENDS Naturals

CONSTANTS User, OrderId, TxnId, None, MaxQty, Direct   \* the routes clients use

VARIABLES
  placed,    \* ids of the orders placed
  settled,   \* ids of the orders marked paid
  due,       \* what each order is for
  payment    \* the transactions

vars == <<placed, settled, due, payment>>

NoTxn == [order |-> None, user |-> None, amount |-> 0]

Init ==
  /\ placed = {}
  /\ settled = {}
  /\ due = [o \in OrderId |-> [user |-> None, amount |-> 0]]
  /\ payment = [t \in TxnId |-> NoTxn]

PaidFor(o) == \E t \in TxnId : payment[t].order = o

Place(o, u, q) ==
  /\ o \notin placed
  /\ placed' = placed \cup {o}
  /\ due' = [due EXCEPT ![o] = [user |-> u, amount |-> q]]
  /\ UNCHANGED <<settled, payment>>

PaidByUser(o) == \E t \in TxnId : payment[t].order = o /\ payment[t].user = due[o].user

Pay(t, o, u, q) ==
  /\ payment[t] = NoTxn
  /\ "Charge" \notin Direct =>
       o \in placed /\ ~PaidFor(o) /\ due[o] = [user |-> u, amount |-> q]
  /\ payment' = [payment EXCEPT ![t] = [order |-> o, user |-> u, amount |-> q]]
  /\ UNCHANGED <<placed, settled, due>>

Settle(o) ==
  /\ o \in placed \ settled
  /\ "MarkOrderPaid" \notin Direct => PaidByUser(o)
  /\ settled' = settled \cup {o}
  /\ UNCHANGED <<placed, due, payment>>

Next ==
  \E o \in OrderId :
    \/ Settle(o)
    \/ \E u \in User, q \in 1..MaxQty : Place(o, u, q) \/ \E t \in TxnId : Pay(t, o, u, q)

Spec == Init /\ [][Next]_vars
=============================================================================
