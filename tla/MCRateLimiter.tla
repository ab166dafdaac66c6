--------------------------- MODULE MCRateLimiter ---------------------------
(* Instances of RateLimiter for TLC. *)
EXTENDS RateLimiter, TLC

CONSTANTS a1, a2, e1, r1, r2, r3, r4

TwoIps       == {a1, a2}
OneEmail     == {e1}
FourRequests == {r1, r2, r3, r4}

(* Addresses, emails and requests are interchangeable.                     *)
Symmetry == Permutations(Ip) \cup Permutations(Email) \cup Permutations(Request)
=============================================================================
