--------------------------- MODULE ServiceRegistry ---------------------------
(***************************************************************************)
(* How the seven services announce their addresses: the main functions and *)
(* etcd.RegisterService, over the lives of one service's processes.  A     *)
(* process is one life of a replica: a container that is started again is  *)
(* another process, with a lease of its own.  All of them put one key,     *)
(* /services/<name>, and etcd lets it go with the lease it was last put    *)
(* under.                                                                  *)
(***************************************************************************)
EXTENDS Naturals, Sequences

CONSTANTS
  Process,  \* lives of the service's replicas
  None,     \* no address
  TTL       \* time a lease lasts without a keepalive

ASSUME RegistryAssumption == None \notin Process /\ TTL \in Nat \ {0}

VARIABLES
  service,  \* the service whose replicas these are
  status,   \* of each process: "off", "up", "stopping" or "ended"
  at,       \* how many steps of its main it has taken
  lease,    \* time left of its lease, 0 if it has none
  keeper,   \* the channel of its keepalives: "none", "open" or "closed"
  cut,      \* the processes that etcd does not hear from, or they from it
  key,      \* whose address the key holds
  newest,   \* history: who put the key last
  stale     \* history: for how long its owner has been dead

process == <<service, status, at>>
registry == <<lease, key, newest, stale>>
vars == <<process, keeper, cut, registry>>

(* The steps of each main that can fail, up to its call of Serve.          *)
AuthMain == <<"connect", "grant", "put", "keepAlive", "listen">>
UserMain == <<"connect", "grant", "put", "keepAlive", "tables", "bus", "listen">>
ProductMain == <<"tables", "connect", "grant", "put", "keepAlive", "listen">>
(* Mutant: the cart service registers before it listens. *)
CartMainEarly == <<"tables", "connect", "grant", "put", "keepAlive", "listen">>
CartMain == <<"tables", "listen", "connect", "grant", "put", "keepAlive">>
OrderMain == <<"tables", "listen", "connect", "grant", "put", "keepAlive">>
PaymentMain == <<"tables", "listen", "connect", "grant", "put", "keepAlive">>
CheckoutMain == <<"tables", "listen", "connect", "grant", "put", "keepAlive">>

Service == {"auth", "user", "product", "cart", "order", "payment", "checkout"}

Main == [auth |-> AuthMain, user |-> UserMain, product |-> ProductMain, cart |-> CartMain,
         order |-> OrderMain, payment |-> PaymentMain, checkout |-> CheckoutMain]

(* The others have no handler for SIGTERM.                                 *)
Graceful == {"product", "cart", "order", "payment", "checkout"}

Done(p, step) == \E i \in 1..at[p] : Main[service][i] = step
Running(p) == status[p] \in {"up", "stopping"}
Serving(p) == status[p] = "up" /\ at[p] = Len(Main[service])
Listening(p) == status[p] = "up" /\ Done(p, "listen")
(* Mutant: keepalives go on after their channel has closed.                *)
RenewedAfterClose(p) == Running(p) /\ keeper[p] # "none" /\ p \notin cut
(* The client sends a keepalive every third of the lease.                  *)
Renewed(p) == Running(p) /\ keeper[p] = "open" /\ p \notin cut

Init ==
  /\ service \in Service
  /\ status = [p \in Process |-> "off"]
  /\ at = [p \in Process |-> 0]
  /\ lease = [p \in Process |-> 0]
  /\ keeper = [p \in Process |-> "none"]
  /\ cut = {}
  /\ key = None /\ newest = None /\ stale = 0

Start(p) ==
  /\ status[p] = "off"
  /\ status' = [status EXCEPT ![p] = "up"]
  /\ UNCHANGED <<service, at, keeper, cut, registry>>

Advance(p, steps) ==
  /\ status[p] = "up"
  /\ at[p] < Len(Main[service])
  /\ Main[service][at[p] + 1] \in steps
  /\ at' = [at EXCEPT ![p] = @ + 1]
  /\ UNCHANGED <<service, status, cut>>

Prepare(p) ==
  /\ Advance(p, {"tables", "bus", "listen", "connect"})
  /\ UNCHANGED <<keeper, registry>>

(* Mutant: the lease is asked for in milliseconds. *)
GrantLonger(p) ==
  /\ p \notin cut
  /\ Advance(p, {"grant"})
  /\ lease' = [lease EXCEPT ![p] = 1000 * TTL]
  /\ UNCHANGED <<keeper, key, newest, stale>>

Grant(p) ==
  /\ p \notin cut
  /\ Advance(p, {"grant"})
  /\ lease' = [lease EXCEPT ![p] = TTL]
  /\ UNCHANGED <<keeper, key, newest, stale>>

(* Mutant: the key is put without a lease that is alive. *)
PutUnleased(p) ==
  /\ p \notin cut
  /\ Advance(p, {"put"})
  /\ key' = p /\ newest' = p /\ stale' = 0
  /\ UNCHANGED <<keeper, lease>>

(* etcd refuses a lease that has ended.                                    *)
Put(p) ==
  /\ p \notin cut
  /\ lease[p] > 0
  /\ Advance(p, {"put"})
  /\ key' = p /\ newest' = p /\ stale' = 0
  /\ UNCHANGED <<keeper, lease>>

KeepAlive(p) ==
  /\ Advance(p, {"keepAlive"})
  /\ keeper' = [keeper EXCEPT ![p] = "open"]
  /\ UNCHANGED registry

(* Mutant: the process registers again when its lease is lost. *)
LoseAndRegister(p) ==
  /\ Running(p)
  /\ keeper[p] = "open"
  /\ p \notin cut /\ lease[p] = 0
  /\ lease' = [lease EXCEPT ![p] = TTL]
  /\ key' = p /\ newest' = p /\ stale' = 0
  /\ UNCHANGED <<process, cut, keeper>>

(* etcd answers that the lease is gone, or the client has had no answer    *)
(* for so long that it takes it to be; the goroutine goes on reading the   *)
(* closed channel and never registers again.                               *)
Lose(p) ==
  /\ Running(p)
  /\ keeper[p] = "open"
  /\ p \in cut \/ lease[p] = 0
  /\ keeper' = [keeper EXCEPT ![p] = "closed"]
  /\ UNCHANGED <<process, cut, registry>>

(* SIGTERM reaches a main that waits for it: GracefulStop closes the       *)
(* listener and lets the calls under way finish.                           *)
Stop(p) ==
  /\ Serving(p)
  /\ service \in Graceful
  /\ status' = [status EXCEPT ![p] = "stopping"]
  /\ UNCHANGED <<service, at, keeper, cut, registry>>

(* A failed step, a crash, a signal nobody handles, or GracefulStop is     *)
(* through.  Closing the client does not revoke its lease.                 *)
End(p) ==
  /\ Running(p)
  /\ status' = [status EXCEPT ![p] = "ended"]
  /\ UNCHANGED <<service, at, keeper, cut, registry>>

Cut(p) ==
  /\ Running(p) /\ p \notin cut
  /\ cut' = cut \cup {p}
  /\ UNCHANGED <<process, keeper, registry>>

Mend(p) ==
  /\ p \in cut
  /\ cut' = cut \ {p}
  /\ UNCHANGED <<process, keeper, registry>>

(* Time passes in etcd: leases run down but for those kept alive, and a    *)
(* lease that ends takes the key along if that was last put under it.      *)
Left(p) == IF lease[p] = 0 THEN 0 ELSE IF Renewed(p) THEN TTL ELSE lease[p] - 1

Tick ==
  /\ lease' = [p \in Process |-> Left(p)]
  /\ key' = IF key # None /\ Left(key) = 0 THEN None ELSE key
  /\ stale' = IF key # None /\ status[key] = "ended" THEN stale + 1 ELSE stale
  /\ UNCHANGED <<process, keeper, cut, newest>>

ProcessStep(p) ==
  \/ Start(p) \/ Prepare(p) \/ Grant(p) \/ Put(p) \/ KeepAlive(p) \/ Lose(p)
  \/ Stop(p) \/ End(p) \/ Cut(p) \/ Mend(p)

Next == Tick \/ \E p \in Process : ProcessStep(p)

Spec == Init /\ [][Next]_vars

(* Time passes; no process has to start, and none has to stay connected.   *)
LiveSpec == Spec /\ WF_vars(Tick)
-----------------------------------------------------------------------------
TypeOK ==
  /\ service \in Service
  /\ status \in [Process -> {"off", "up", "stopping", "ended"}]
  /\ at \in [Process -> 0..7]
  /\ \A p \in Process : at[p] <= Len(Main[service])
  /\ lease \in [Process -> 0..TTL]
  /\ keeper \in [Process -> {"none", "open", "closed"}]
  /\ cut \subseteq Process
  /\ key \in Process \cup {None}
  /\ newest \in Process \cup {None}
  /\ stale \in Nat

(* register.go:35 puts the key under the process's own lease.  So the end  *)
(* of an older life's lease, or of another replica's, does not take the    *)
(* address of the newest away: it is listed for as long as its own lease   *)
(* lasts, and not one moment longer.                                       *)
NewestIsListed ==
  /\ key # None => key = newest /\ lease[key] > 0
  /\ newest # None /\ lease[newest] > 0 => key = newest

(* A process that died, between the steps of its start or while it served, *)
(* stays listed for one lease at most, whatever the others do.  What it    *)
(* takes to show both: who put last has passed that step, and the time its *)
(* owner has been dead and what is left of its lease add up.               *)
RegistryInv ==
  /\ NewestIsListed
  /\ newest # None => Done(newest, "put") /\ status[newest] # "off"
  /\ key # None => stale + lease[key] <= TTL
  /\ key # None /\ status[key] # "ended" => stale = 0
  /\ stale <= TTL

(* The cart, order, payment and checkout services listen before they       *)
(* register, so a listed process of theirs answers unless it was stopped   *)
(* or has died; the other three list an address nobody listens on yet.     *)
AddressAnswers ==
  key # None => \/ Listening(key)
                \/ status[key] \in {"stopping", "ended"}
                \/ service \in {"auth", "user", "product"}

(* The registry keeps one entry and a process announces itself once: one   *)
(* whose keepalive channel closed (register.go:45) is never listed again,  *)
(* and no entry goes while its process is alive, connected and keeping it. *)
Book == INSTANCE AddressBook WITH
  entry <- key,
  announced <- {p \in Process : Done(p, "put")},
  unkept <- {p \in Process : ~Renewed(p)}

ImplementsAddressBook == Book!Spec

(* The address of a process that is dead, or has lost its lease, leaves    *)
(* the registry, even when the process serves on.                          *)
UnkeptLeaves ==
  \A p \in Process :
    key = p /\ (status[p] = "ended" \/ keeper[p] = "closed") ~> key # p
=============================================================================
