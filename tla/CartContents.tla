---------------------------- MODULE CartContents ----------------------------
(***************************************************************************)
(* What the cart service promises its clients: one quantity per user and   *)
(* product.  A call that is answered without error took effect, as it was  *)
(* asked, at one instant before its answer; one that was not, did not.     *)
(***************************************************************************)
EXTENDS Naturals

CONSTANTS User, Product, Request, None, MaxQty

VARIABLES
  contents,   \* quantity of each product in each user's cart
  asked,      \* what each call asks for
  acked,      \* the calls that took effect
  answer      \* what each GetCart has read

vars == <<contents, asked, acked, answer>>

NoItems == [p \in Product |-> 0]

Call ==
  [op : {"add"}, user : User, product : Product, qty : 1..MaxQty] \cup
  [op : {"get", "empty"}, user : User, product : {None}, qty : {0}]

NoCall == [op |-> "none", user |-> None, product |-> None, qty |-> 0]

Init ==
  /\ contents = [u \in User |-> NoItems]
  /\ asked = [r \in Request |-> NoCall]
  /\ acked = {}
  /\ answer = [r \in Request |-> NoItems]

Ask(r, call) ==
  /\ asked[r] = NoCall
  /\ asked' = [asked EXCEPT ![r] = call]
  /\ UNCHANGED <<contents, acked, answer>>

Put(r) ==
  /\ asked[r].op = "add"
  /\ contents' = [contents EXCEPT ![asked[r].user][asked[r].product] = asked[r].qty]
  /\ UNCHANGED answer

Clear(r) ==
  /\ asked[r].op = "empty"
  /\ contents' = [contents EXCEPT ![asked[r].user] = NoItems]
  /\ UNCHANGED answer

Read(r) ==
  /\ asked[r].op = "get"
  /\ answer' = [answer EXCEPT ![r] = contents[asked[r].user]]
  /\ UNCHANGED contents

Ack(r) ==
  /\ r \notin acked
  /\ acked' = acked \cup {r}
  /\ Put(r) \/ Clear(r) \/ Read(r)
  /\ UNCHANGED asked

Next == \E r \in Request : Ack(r) \/ \E call \in Call : Ask(r, call)

Spec == Init /\ [][Next]_vars
=============================================================================
