------------------------------- MODULE MCShop -------------------------------
(* Instances of Shop for TLC. *)
EXTENDS Shop, Folds, TLC

CONSTANTS u1, u2, p1, p2, c1, o1, t1, r1, r2

TwoUsers     == {u1, u2}
TwoProducts  == {p1, p2}
OneCheckout  == {c1}
OneOrder     == {o1}
OneTxn       == {t1}
FourCalls    == {c1, o1, r1, r2}   \* two of them clients'

Symmetry == Permutations({u1, u2}) \cup Permutations({p1, p2}) \cup Permutations({r1, r2})

(* One price for every item: the quantities' sum.                          *)
SumOfItems == [held \in [Product -> 0..MaxQty] |->
                 MapThenFoldSet(+, 0, LAMBDA p : held[p], LAMBDA S : CHOOSE p \in S : TRUE, Product)]
=============================================================================
