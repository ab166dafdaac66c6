----------------------------- MODULE PolicySync -----------------------------
(***************************************************************************)
(* The access policy of the gateways.  Each has it in the enforcer's       *)
(* memory, reads it from the file of its release when it starts, and saves *)
(* it to one key of etcd; a watch on the key makes every gateway, the one  *)
(* that saved included, clear its policy and add the saved one rule by     *)
(* rule.  Nothing locks the enforcer: requests, the watch's goroutine and  *)
(* SavePolicy meet in it between any two rules.                            *)
(***************************************************************************)
EXTENDS Naturals

CONSTANTS
  Gateway,
  Permission,    \* the p rules, of four fields each in policy.csv
  Grouping,      \* the g rules, of two: a user's role, or that it is blocked
  File,          \* the policy files of the releases
  MaxStarts,     \* bounds on the starts of gateways and on edits
  MaxEdits,
  Faulty         \* may calls of etcd fail, and gateways stop?

Rule == Permission \cup Grouping

ASSUME PolicyAssumption ==
  /\ Permission \cap Grouping = {}
  /\ File \subseteq SUBSET Rule
  /\ {MaxStarts, MaxEdits} \subseteq Nat
  /\ Faulty \in BOOLEAN

VARIABLES
  etcd,       \* the policy at PolicyKey and how often it has been saved
  file,       \* the policy file of each gateway
  main,       \* where each gateway's main is
  saving,     \* the rules its SavePolicy has read
  memory,     \* the enforcer's rules
  events,     \* changes of the key its watch has not handled
  loader,     \* where the watch's goroutine is
  todo,       \* the rules it has read and not added
  editing,    \* is a rule changed in memory and the file not read again?
  apart,      \* did it start, edit or fail to load after the last save or load?
  starts,
  edits

process == <<file, main, saving>>
watch   == <<events, loader, todo>>
counts  == <<starts, edits>>
vars    == <<etcd, process, memory, watch, editing, apart, counts>>

Main   == {"down", "permissions", "groupings", "put", "serving"}
Loader == {"idle", "get", "add"}

Up(g) == main[g] # "down"

(* A gateway that is down has no memory.                                   *)
DownIsEmpty ==
  \A g \in Gateway : ~Up(g) => /\ memory[g] = {} /\ todo[g] = {} /\ saving[g] = {}
                               /\ events[g] = 0 /\ loader[g] = "idle" /\ ~editing[g]

TypeOK ==
  /\ etcd \in [policy : SUBSET Rule, saves : Nat]
  /\ file \in [Gateway -> SUBSET Rule]
  /\ main \in [Gateway -> Main]
  /\ saving \in [Gateway -> SUBSET Rule]
  /\ memory \in [Gateway -> SUBSET Rule]
  /\ events \in [Gateway -> Nat]
  /\ loader \in [Gateway -> Loader]
  /\ todo \in [Gateway -> SUBSET Rule]
  /\ editing \in [Gateway -> BOOLEAN]
  /\ apart \in [Gateway -> BOOLEAN]
  /\ starts \in Nat
  /\ edits \in Nat
  /\ DownIsEmpty

Init ==
  /\ etcd = [policy |-> {}, saves |-> 0]
  /\ file = [g \in Gateway |-> {}]
  /\ main = [g \in Gateway |-> "down"]
  /\ saving = [g \in Gateway |-> {}]
  /\ memory = [g \in Gateway |-> {}]
  /\ events = [g \in Gateway |-> 0]
  /\ loader = [g \in Gateway |-> "idle"]
  /\ todo = [g \in Gateway |-> {}]
  /\ editing = [g \in Gateway |-> FALSE]
  /\ apart = [g \in Gateway |-> TRUE]
  /\ starts = 0
  /\ edits = 0

-----------------------------------------------------------------------------
(* A gateway's main, and SavePolicy.                                       *)

Goto(g, to) == main' = [main EXCEPT ![g] = to]

(* The file is read and the watch created, in this order.                  *)
Start(g, f) ==
  /\ ~Up(g)
  /\ starts < MaxStarts
  /\ starts' = starts + 1
  /\ Goto(g, "permissions")
  /\ file' = [file EXCEPT ![g] = f]
  /\ memory' = [memory EXCEPT ![g] = f]
  /\ apart' = [apart EXCEPT ![g] = TRUE]
  /\ UNCHANGED <<etcd, saving, watch, editing, edits>>

(* GetPolicy and GetGroupingPolicy read the memory one after the other.    *)
GetPolicy(g) ==
  /\ main[g] = "permissions"
  /\ Goto(g, "groupings")
  /\ saving' = [saving EXCEPT ![g] = memory[g] \cap Permission]
  /\ UNCHANGED <<etcd, file, memory, watch, editing, apart, counts>>

GetGroupingPolicy(g) ==
  /\ main[g] = "groupings"
  /\ Goto(g, "put")
  /\ saving' = [saving EXCEPT ![g] = @ \cup (memory[g] \cap Grouping)]
  /\ UNCHANGED <<etcd, file, memory, watch, editing, apart, counts>>

(* The key is written at every start, the first or not, and every watch    *)
(* is told.                                                                *)
Put(g) ==
  /\ main[g] = "put"
  /\ Goto(g, "serving")
  /\ etcd' = [policy |-> saving[g], saves |-> etcd.saves + 1]
  /\ events' = [h \in Gateway |-> IF Up(h) THEN events[h] + 1 ELSE 0]
  /\ apart' = [h \in Gateway |-> IF Up(h) THEN FALSE ELSE apart[h]]
  /\ UNCHANGED <<file, saving, memory, loader, todo, editing, counts>>

(* The error is logged, and the gateway serves.                            *)
PutFails(g) ==
  /\ Faulty
  /\ main[g] = "put"
  /\ Goto(g, "serving")
  /\ UNCHANGED <<etcd, file, saving, memory, watch, editing, apart, counts>>

(* Mutant: what the watch had been told is remembered over a restart.      *)
CrashRemembering(g) ==
  /\ Faulty
  /\ Up(g)
  /\ Goto(g, "down")
  /\ memory' = [memory EXCEPT ![g] = {}]
  /\ saving' = [saving EXCEPT ![g] = {}]
  /\ loader' = [loader EXCEPT ![g] = "idle"]
  /\ todo' = [todo EXCEPT ![g] = {}]
  /\ editing' = [editing EXCEPT ![g] = FALSE]
  /\ UNCHANGED <<etcd, file, events, apart, counts>>

(* The gateway stops, at any point; a request that reads the enforcer's    *)
(* maps while they are written stops it too.                               *)
Crash(g) ==
  /\ Faulty
  /\ Up(g)
  /\ Goto(g, "down")
  /\ memory' = [memory EXCEPT ![g] = {}]
  /\ saving' = [saving EXCEPT ![g] = {}]
  /\ events' = [events EXCEPT ![g] = 0]
  /\ loader' = [loader EXCEPT ![g] = "idle"]
  /\ todo' = [todo EXCEPT ![g] = {}]
  /\ editing' = [editing EXCEPT ![g] = FALSE]
  /\ UNCHANGED <<etcd, file, apart, counts>>

-----------------------------------------------------------------------------
(* The watch's goroutine.                                                  *)

TakeEvent(g) ==
  /\ loader[g] = "idle"
  /\ events[g] > 0
  /\ events' = [events EXCEPT ![g] = @ - 1]
  /\ loader' = [loader EXCEPT ![g] = "get"]
  /\ UNCHANGED <<etcd, process, memory, todo, editing, apart, counts>>

(* Mutant: the policy is not cleared.                                      *)
LoadUncleared(g) ==
  /\ loader[g] = "get"
  /\ loader' = [loader EXCEPT ![g] = "add"]
  /\ todo' = [todo EXCEPT ![g] = etcd.policy]
  /\ apart' = [apart EXCEPT ![g] = FALSE]
  /\ UNCHANGED <<etcd, process, memory, events, editing, counts>>

(* The policy is read, whatever it is by now, and the memory cleared.      *)
Load(g) ==
  /\ loader[g] = "get"
  /\ loader' = [loader EXCEPT ![g] = "add"]
  /\ todo' = [todo EXCEPT ![g] = etcd.policy]
  /\ memory' = [memory EXCEPT ![g] = {}]
  /\ apart' = [apart EXCEPT ![g] = FALSE]
  /\ UNCHANGED <<etcd, process, events, editing, counts>>

(* Mutant: the watch's goroutine returns when a load has failed.           *)
LoadFailsForGood(g) ==
  /\ Faulty
  /\ loader[g] = "get"
  /\ loader' = [loader EXCEPT ![g] = "ended"]
  /\ apart' = [apart EXCEPT ![g] = TRUE]
  /\ UNCHANGED <<etcd, process, memory, events, todo, editing, counts>>

(* The error is logged, and the goroutine goes on to the next change.      *)
LoadFails(g) ==
  /\ Faulty
  /\ loader[g] = "get"
  /\ loader' = [loader EXCEPT ![g] = "idle"]
  /\ apart' = [apart EXCEPT ![g] = TRUE]
  /\ UNCHANGED <<etcd, process, memory, events, todo, editing, counts>>

(* Of the rules read only those of three fields, which policy.csv has none *)
(* of, and of two are added: the p rules have four, and are gone.  The     *)
(* rules' order is left open.                                              *)
Loadable(rules) == rules \cap Grouping

AddRule(g) ==
  /\ loader[g] = "add"
  /\ \E r \in todo[g] :
       /\ todo' = [todo EXCEPT ![g] = @ \ {r}]
       /\ memory' = [memory EXCEPT ![g] = @ \cup Loadable({r})]
  /\ UNCHANGED <<etcd, process, events, loader, editing, apart, counts>>

Loaded(g) ==
  /\ loader[g] = "add"
  /\ todo[g] = {}
  /\ loader' = [loader EXCEPT ![g] = "idle"]
  /\ UNCHANGED <<etcd, process, memory, events, todo, editing, apart, counts>>

-----------------------------------------------------------------------------
(* UpdateUserRole, DisableUser, BlockUser(s) and UnblockUser(s), which no  *)
(* route calls yet: groupings are changed in memory, and then LoadPolicy   *)
(* reads the file, which does not have the change.                         *)

Edit(g, r) ==
  /\ main[g] = "serving"
  /\ edits < MaxEdits
  /\ edits' = edits + 1
  /\ \/ memory' = [memory EXCEPT ![g] = @ \cup {r}]
     \/ memory' = [memory EXCEPT ![g] = @ \ {r}]
  /\ editing' = [editing EXCEPT ![g] = TRUE]
  /\ apart' = [apart EXCEPT ![g] = TRUE]
  /\ UNCHANGED <<etcd, process, watch, starts>>

LoadFile(g) ==
  /\ editing[g]
  /\ memory' = [memory EXCEPT ![g] = file[g]]
  /\ editing' = [editing EXCEPT ![g] = FALSE]
  /\ apart' = [apart EXCEPT ![g] = TRUE]
  /\ UNCHANGED <<etcd, process, watch, counts>>

(* The file cannot be read: the edit stays, for as long as nothing loads.  *)
LoadFileFails(g) ==
  /\ Faulty
  /\ editing[g]
  /\ editing' = [editing EXCEPT ![g] = FALSE]
  /\ UNCHANGED <<etcd, process, memory, watch, apart, counts>>

-----------------------------------------------------------------------------
MainStep(g) == GetPolicy(g) \/ GetGroupingPolicy(g) \/ Put(g)

LoaderStep(g) == TakeEvent(g) \/ Load(g) \/ AddRule(g) \/ Loaded(g)

Next ==
  \/ \E g \in Gateway, f \in File : Start(g, f)
  \/ \E g \in Gateway : MainStep(g) \/ PutFails(g) \/ Crash(g)
  \/ \E g \in Gateway : LoaderStep(g) \/ LoadFails(g)
  \/ \E g \in Gateway, r \in Grouping : Edit(g, r)
  \/ \E g \in Gateway : LoadFile(g) \/ LoadFileFails(g)

Spec == Init /\ [][Next]_vars

(* etcd answers a gateway, and its goroutines run.                         *)
LiveSpec ==
  Spec /\ \A g \in Gateway : WF_vars(MainStep(g)) /\ WF_vars(LoaderStep(g))

-----------------------------------------------------------------------------
(* Properties.                                                             *)

(* The emails and users a gateway refuses, or gives a role.                *)
Refuses(g) == memory[g] \cap Grouping

(* A gateway has not yet read the policy of which its watch was told.      *)
Told(g) == events[g] > 0 \/ loader[g] = "get"

(* A gateway without changes to handle has in memory what can be loaded of *)
(* the policy in etcd, or is on its way there, whoever has saved and       *)
(* whatever came in between, unless its own edits or failures set it apart.*)
FollowsEtcd ==
  \A g \in Gateway : Up(g) /\ ~apart[g] /\ events[g] = 0 =>
    /\ loader[g] = "idle" => memory[g] = Loadable(etcd.policy)
    /\ loader[g] = "add" => memory[g] \cup Loadable(todo[g]) = Loadable(etcd.policy)

(* The policy in etcd is made of rules of the files only: an edit stays in *)
(* its gateway.                                                            *)
EditsStayLocal ==
  /\ etcd.policy \subseteq UNION File
  /\ \A g \in Gateway :
       /\ file[g] \cup saving[g] \cup todo[g] \subseteq UNION File
       /\ main[g] # "serving" => memory[g] \subseteq UNION File

(* Saves, loads and edits of any gateways, in any order, leave each with   *)
(* the groupings that are in etcd and etcd with rules of the files.        *)
PolicyInv == FollowsEtcd /\ EditsStayLocal

(* A save reaches every gateway that runs, whatever had set it apart       *)
(* before and however many changes and failed loads its watch has seen:    *)
(* once no more is saved and edited, each refuses whom the policy in etcd  *)
(* does (casbin_adapter.go:36-90).  The one that need not is apart: after  *)
(* the last save it has edited, its load failed, or it started and could   *)
(* not save.                                                               *)
SaveReachesAll ==
  <>[](\A g \in Gateway : Up(g) /\ ~apart[g] => Refuses(g) = etcd.policy \cap Grouping)
-----------------------------------------------------------------------------
(* What requests and the gateways' operators see of the synchronisation:   *)
(* where a gateway is between saves, and whom it refuses.                  *)
Standing(g) ==
  IF ~Up(g) THEN "down"
  ELSE IF Told(g) THEN "told"
  ELSE IF apart[g] THEN "apart"
  ELSE IF loader[g] = "add" THEN "loading"
  ELSE "follows"

Board == INSTANCE PolicyBoard
  WITH policy  <- Loadable(etcd.policy),
       mode    <- [g \in Gateway |-> Standing(g)],
       refuses <- [g \in Gateway |-> Refuses(g)]

(* The watches' queues, the loads rule by rule and the edits of any        *)
(* gateways implement the board: whatever comes in between, a gateway      *)
(* acts by a policy saved last, is on its way there and was told, or knows *)
(* to be apart, and it comes back from there by a save only.               *)
ImplementsBoard == Board!Spec
=============================================================================
