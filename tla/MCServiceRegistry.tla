------------------------- MODULE MCServiceRegistry -------------------------
(* Instances of ServiceRegistry for TLC. *)
EXTENDS ServiceRegistry, TLC
CONSTANTS p1, p2
=============================================================================
