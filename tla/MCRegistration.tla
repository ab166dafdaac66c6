--------------------------- MODULE MCRegistration ---------------------------
(* Instances of Registration for TLC. *)
EXTENDS Registration, TLC

CONSTANTS p1, p2, r1, r2, r3, e1, e2

TwoReplicas   == {p1, p2}
TwoEmails     == {e1, e2}
ThreeRequests == {r1, r2, r3}

(* Replicas, calls and emails are interchangeable.                         *)
Symmetry == Permutations(Replica) \cup Permutations(Request) \cup Permutations(Email)
=============================================================================
