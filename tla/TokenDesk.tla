------------------------------ MODULE TokenDesk ------------------------------
(***************************************************************************)
(* What logging in promises: whoever knows the password of an account is   *)
(* given a token of that account, signed not long before, or is refused.   *)
(***************************************************************************)
EXTENDS Naturals

CONSTANTS Login, User, None, Age  \* the greatest age of a token given out

VARIABLES
  now,     \* the time
  issued,  \* the tokens signed, each of a user and a moment
  who,     \* whose password each login has proved to know, or None
  given    \* the token each login was given, or None

vars == <<now, issued, who, given>>

Init ==
  /\ now = 0 /\ issued = {}
  /\ who = [l \in Login |-> None]
  /\ given = [l \in Login |-> None]

Prove(l, u) ==
  /\ who[l] = None
  /\ who' = [who EXCEPT ![l] = u]
  /\ UNCHANGED <<now, issued, given>>

Sign(u) ==
  /\ issued' = issued \cup {[user |-> u, at |-> now]}
  /\ UNCHANGED <<now, who, given>>

Give(l, t) ==
  /\ given[l] = None
  /\ t \in issued /\ t.user = who[l]
  /\ now <= t.at + Age
  /\ given' = [given EXCEPT ![l] = t]
  /\ UNCHANGED <<now, issued, who>>

Tick ==
  /\ now' = now + 1
  /\ UNCHANGED <<issued, who, given>>

Next ==
  \/ Tick
  \/ \E u \in User : Sign(u)
  \/ \E l \in Login : (\E u \in User : Prove(l, u)) \/ (\E t \in issued : Give(l, t))

Spec == Init /\ [][Next]_vars
=============================================================================
