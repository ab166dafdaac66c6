----------------------------- MODULE PolicyBoard -----------------------------
(***************************************************************************)
(* What the synchronisation of the policy promises of the groupings by     *)
(* which each gateway refuses users.  A save tells every gateway that      *)
(* runs; one that was told loses all it had before it follows, and gets    *)
(* nothing but what was saved last; one that follows has all of that, and  *)
(* one that went apart does not follow again before it is told.            *)
(***************************************************************************)
CONSTANTS Gateway, Grouping, File

VARIABLES
  policy,    \* the groupings saved last
  mode,      \* where each gateway is between saves
  refuses    \* the groupings it acts by

vars == <<policy, mode, refuses>>

Init ==
  /\ policy = {}
  /\ mode = [g \in Gateway |-> "down"]
  /\ refuses = [g \in Gateway |-> {}]

Running(g) == mode[g] # "down"

Enter(g, m) == mode' = [mode EXCEPT ![g] = m]

Start(g, f) ==
  /\ ~Running(g)
  /\ Enter(g, "apart")
  /\ refuses' = [refuses EXCEPT ![g] = f \cap Grouping]
  /\ UNCHANGED policy

Stop(g) ==
  /\ Running(g)
  /\ Enter(g, "down")
  /\ refuses' = [refuses EXCEPT ![g] = {}]
  /\ UNCHANGED policy

(* Only groupings of files are saved, by a gateway that runs.              *)
Save(p) ==
  /\ \E g \in Gateway : Running(g)
  /\ p \subseteq UNION File
  /\ policy' = p
  /\ mode' = [g \in Gateway |-> IF Running(g) THEN "told" ELSE "down"]
  /\ UNCHANGED refuses

(* A gateway that was told is still what it was, or at a policy that was   *)
(* saved before; one that changes its own groupings is apart from then on. *)
Change(g, s) ==
  /\ Running(g)
  /\ mode' = [mode EXCEPT ![g] = IF @ = "told" THEN "told" ELSE "apart"]
  /\ refuses' = [refuses EXCEPT ![g] = s]
  /\ UNCHANGED policy

Clear(g) ==
  /\ mode[g] = "told"
  /\ Enter(g, "loading")
  /\ refuses' = [refuses EXCEPT ![g] = {}]
  /\ UNCHANGED policy

Fail(g) ==
  /\ mode[g] = "told"
  /\ Enter(g, "apart")
  /\ UNCHANGED <<policy, refuses>>

Add(g) ==
  /\ mode[g] = "loading"
  /\ \E r \in policy : refuses' = [refuses EXCEPT ![g] = @ \cup {r}]
  /\ UNCHANGED <<policy, mode>>

Follow(g) ==
  /\ mode[g] = "loading"
  /\ refuses[g] = policy
  /\ Enter(g, "follows")
  /\ UNCHANGED <<policy, refuses>>

Next ==
  \/ \E p \in SUBSET Grouping : Save(p)
  \/ \E g \in Gateway :
       \/ \E f \in File : Start(g, f)
       \/ \E s \in SUBSET Grouping : Change(g, s)
       \/ Stop(g) \/ Clear(g) \/ Fail(g) \/ Add(g) \/ Follow(g)

Spec == Init /\ [][Next]_vars
=============================================================================
