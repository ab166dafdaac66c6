---------------------------- MODULE MCPolicySync ----------------------------
(* Instances of PolicySync for TLC. *)
EXTENDS PolicySync

CONSTANTS g1, g2, p1, b1, b2

TwoGateways == {g1, g2}
OneRule     == {p1}
TwoBlocks   == {b1, b2}

(* Two releases: the second has taken a block back.  The other block is in *)
(* neither, so that an edit can be told.                                   *)
TwoReleases == {{p1, b1}, {p1}}
=============================================================================
