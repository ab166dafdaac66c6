----------------------------- MODULE AddressBook -----------------------------
(***************************************************************************)
(* What registering with etcd promises: one entry, which the process that  *)
(* announced itself last holds until another does or it fails to keep it.  *)
(* A process announces itself once, so one that lost its entry, or was     *)
(* replaced, never has it again.                                           *)
(***************************************************************************)
CONSTANTS Process, None

VARIABLES
  entry,      \* who is listed
  announced,  \* who has ever announced itself
  unkept      \* who is not keeping an entry at present

vars == <<entry, announced, unkept>>

Init == entry = None /\ announced = {} /\ unkept = Process

Announce(p) ==
  /\ p \notin announced
  /\ entry' = p
  /\ announced' = announced \cup {p}
  /\ unkept' = unkept

Withdraw ==
  /\ entry \in unkept
  /\ entry' = None
  /\ UNCHANGED <<announced, unkept>>

Waver ==
  /\ unkept' \in SUBSET Process
  /\ UNCHANGED <<entry, announced>>

Next == Withdraw \/ Waver \/ \E p \in Process : Announce(p)

Spec == Init /\ [][Next]_vars
=============================================================================
