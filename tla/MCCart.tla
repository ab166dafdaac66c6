------------------------------- MODULE MCCart -------------------------------
(* An instance of Cart for TLC.                                            *)
EXTENDS Cart

CONSTANTS u1, p1, r1, r2, r3

OneUser       == {u1}
OneProduct    == {p1}
ThreeRequests == {r1, r2, r3}
=============================================================================
