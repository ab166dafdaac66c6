---------------------------- MODULE MCPurchase ----------------------------
(* Instances of Purchase for TLC. *)
EXTENDS Purchase, TLC

CONSTANTS u1, u2, c1, c2, o1, o2, t1, t2, g1

OneUser      == {u1}
TwoUsers     == {u1, u2}
OneCheckout  == {c1}
TwoCheckouts == {c1, c2}
OneOrder     == {o1}
TwoOrders    == {o1, o2}
OneTxn       == {t1}
TwoTxns      == {t1, t2}

(* The identifiers are interchangeable in Init, Next and the invariants.   *)
Symmetry == Permutations(Checkout) \cup Permutations(OrderId) \cup Permutations(TxnId)
              \cup Permutations(User)
=============================================================================
