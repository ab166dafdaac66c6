# TKMall in TLA+

TKMall is a shop made of Go micro-services: an HTTP gateway, seven gRPC services
(user, auth, product, cart, order, payment, checkout), MySQL databases behind
them, Redis for cached replies, etcd for service addresses and the access policy,
Kafka for events. This directory models the parts of it whose correctness depends
on order, concurrency and failure, checks the models with TLC and proves the main
properties with TLAPS.

## The system

| Component | Source | State it keeps | Operations | What it talks to |
|---|---|---|---|---|
| gateway | `cmd/gateway/{main,router,rpc,service_ctx,config}.go` | one gRPC client per service | one HTTP route per RPC | every service, directly (not through the proxy) |
| rate limiter | `cmd/gateway/middleware/rate_limiter.go` | a token bucket per address and per email | the middleware, the cleanup job | every request passes it |
| login checks, authorization | `middleware/{auth,authorization}.go` | the whitelist, the enforcer's policy in memory | decide a request; block, unblock, change roles | policy file |
| policy synchronisation | `middleware/casbin_adapter.go` | policy in etcd, a watch | save, reload on a watch event | etcd, the other gateways |
| user | `cmd/user/service`, `cmd/user/model` | table users | Register, Login | auth (proxy), event bus |
| user events | `cmd/user/events/handlers.go` | none | handle a registration | event bus |
| auth | `cmd/auth/service` | none (a token carries what is known of it) | sign and verify a token | |
| product | `cmd/product/service` | table products (never written), Redis cache | get, list, search | |
| cart | `cmd/cart/service`, `cmd/cart/model` | tables carts, cart_items | AddItem, GetCart, EmptyCart | |
| order | `cmd/order/service`, `cmd/order/model` | tables orders, order_items | PlaceOrder, MarkOrderPaid, ListOrder | cart (EmptyCart, proxy) |
| payment | `cmd/payment/service`, `cmd/payment/model` | tables credit_cards, transactions | Charge | order (MarkOrderPaid, proxy) |
| checkout | `cmd/checkout/service` | none | Checkout | cart, order, payment (proxy) |
| service proxy | `common/proxy/proxy.go` | connections, Redis reply cache, hystrix circuits | Call | used by user, order, payment, checkout |
| event bus | `common/events/event.go` | handler table, Kafka topics | Publish, Subscribe | Kafka |
| saga | `common/saga/saga.go` | steps, executed steps | AddStep, Execute | nothing uses it |
| service registration | `common/etcd/register.go`, the `main.go` files | a lease and an address key | register, keep alive, stop | etcd |
| configuration, logging, models | `common/{config,log,model,util}` | | | |

Nothing but the databases, Redis, etcd and Kafka survives a restart. Most services
run as two replicas (`kubernetes/manifests`), so "two handlers at once" means two
goroutines or two processes alike: they share tables, not memory.

What makes the behaviour hard, and where:

* **Money moves across four services without a transaction over them.** A checkout
  is a chain of calls; each may fail, time out while its handler runs on, or be
  answered from a cache (`checkout.go:28-116`, `proxy.go:75-100`).
* **Check-then-act on tables without a lock or a unique index**
  (`order_mark_paid.go:26-44`, `cart_add.go:30`, `cart_add.go:49`, `register.go:29`).
* **A remote effect inside a local transaction** (`order_place.go:66-89`).
* **Shared tables in memory** (limiters, policy) that are rebuilt while requests use
  them.
* **Goroutines that outlive their cause**: keepalives, watches, event publication.

`PROJECT.json` lists every hazard at its line, with the properties that cover it.

## Modules

| Module | What it is |
|---|---|
| `Purchase` | checkout, order, payment and the proxy between them; the cart as one quantity per user |
| `OrderLedger` | abstract: orders placed once and never changed, paid at most once and settled only when paid, as far as clients leave charging and marking to the services |
| `PurchaseProofs` | invariants of `Purchase` proved; `Purchase` implements `OrderLedger` |
| `MCPurchase` | finite sets and symmetry for TLC |
| `Cart` | the cart service statement by statement over its two tables |
| `CartContents` | abstract: one quantity per user and product, changed at one instant per call |
| `CartProofs` | lists are as asked however AddItems overlap; the tables stay unique and `Cart` implements `CartContents` while a user's AddItems come one at a time, proved |
| `MCCart` | finite sets for TLC |
| `Shop` | `Purchase` and `Cart` composed: checkouts and orders call the cart's handlers, among clients' own calls |
| `ShopProofs` | `Shop` implements `Purchase`, and so a successful checkout of the shop is paid, proved |
| `MCShop` | finite sets, symmetry and a price for TLC |
| `RateLimiter` | the gateway's limiter tables, by their critical sections, and the cleanup |
| `RateBuckets` | abstract: one token bucket per address and email, there from the start |
| `RateLimiterProofs` | one limiter per key and cleanup, emails held to one bucket and addresses to one per cleanup, `RateLimiter` implements `RateBuckets`, proved |
| `MCRateLimiter` | finite sets and symmetry for TLC |
| `Registration` | Register at several replicas, the shared table of users, and the event on its way to the handlers |
| `Accounts` | abstract: accounts opened at one instant, under an id and an email nobody else has |
| `RegistrationProofs` | accounts stay apart, events are true, `Registration` implements `Accounts`, proved |
| `MCRegistration` | finite sets and symmetry for TLC |
| `PolicySync` | the gateways' access policy: file, memory, etcd, and the watch that loads it |
| `PolicyBoard` | abstract: whom each gateway refuses between saves: told of one, loading, following it, or apart |
| `PolicySyncProofs` | a gateway that has handled its changes has the groupings of etcd, `PolicySync` implements `PolicyBoard`, proved |
| `MCPolicySync` | finite sets for TLC |
| `ServiceRegistry` | the main functions and RegisterService over the lives of a service's processes, with leases in etcd |
| `AddressBook` | abstract: one entry, announced once by each process, that goes only when it is not kept |
| `ServiceRegistryProofs` | the newest registration is listed as long as its lease, the dead for one lease at most, `ServiceRegistry` implements `AddressBook`, proved |
| `MCServiceRegistry` | constants for TLC |
| `Sessions` | Login, the proxy's cache with its times, and auth's tokens |
| `TokenDesk` | abstract: whoever proves to know a password is given a token of that user that is not old |
| `SessionsProofs` | tokens are of the login's own user and last, `Sessions` implements `TokenDesk`, proved |
| `MCSessions` | constants for TLC |

`Purchase` takes of the cart service what a checkout sees of it: GetCart returns
the quantity at one instant, EmptyCart zeroes it at one instant. `Shop` puts the real
one, `Cart`, in its place and is shown to implement `Purchase`. `Sessions` looks at the
same proxy for one callee with the times that `Purchase` leaves open: when a cached reply
expires and when hystrix gives up.

### Purchase

State: `cart` (what `cart_get.go` would list), `orders` and `txns` (the tables),
and one handler per call: `checkouts`, `getCart`, `places`, `emptyCart`,
`charges`, `marks`. A PlaceOrder handler is named by the order id it generates and
a Charge by its transaction id, which is why ids are unique by construction; a
duplicate snowflake id would be refused by the tables' unique indexes, which is
one of the failures of `PlaceFails` and `ChargeFails`. `cache` holds the keys of
the cached replies.

A `pc` value is a place between two statements of the handler. For `places`:
`insert` (`order_place.go:65`), `emptyCart` (77), `waitEmpty` (82), `commit` (88),
`rollback` (85 or any failure; the call's context is still alive), `error` and
`ok` (answered), `replied` (the answer has reached the caller's proxy).

`GrpcProxy.Call` is modelled by what its callers can observe:

* *cache hit*: the key is in `cache`; the call is not made. The decoded reply is a
  map, so `Checkout`, which asserts a type, fails, and `PlaceOrder` and `Charge`,
  which ignore the reply, go on.
* *call*: the remote handler starts; `Reply...` is `doCall` returning: the reply is
  cached, and then handed to the caller.
* *refused or timed out*: `CheckoutFails`, `PlaceFails`, `ChargeFails` under
  `Faulty`, at any moment. The handler runs on, and until its caller has returned
  (which cancels the context of the Redis command) its reply may still be cached:
  this is what `failing` and `rollback` are for.
* *expiry*: `Expire`, at any moment, so that it also stands for an evicted key and
  for a `Set` that failed.

A crash of a service is the same to everybody else as the failure of the handlers
it ran: transactions are rolled back by the database and callers get an error. A
commit whose acknowledgement is lost is a committed handler whose caller times out.

Three outcomes the comments of the code do not promise are actions of the model.
`CallEmptyCart` with a cached reply leaves the cart as it is, although the order is
placed. An error from EmptyCart rolls the order back, where `order_place.go:84` says
that it is only logged. An error from MarkOrderPaid fails a Charge whose transaction
is saved, where `charge.go:121` says the same.

A cached reply to GetCart, whose key names the user alone, refuses the checkout with a
format error (`checkout.go:35`): a user whose cart a checkout has read within five
minutes is answered, but cannot check out again until the reply expires. `EveryCheckoutAnswered` and
`PlacedIsEventuallyPaid` hold with it, since neither asks for a success.

The reply to Charge is cached too, under a request that names the new order, so
the key can never be looked up again and is left out. PlaceOrder's key is the
request; with one address and email per user that is the user and the items.
Amounts are in units of 100 yuan, the price `checkout.go:48` gives every item: an
amount is a quantity, and the difference between the `float32` and the `float64`
sum (`checkout.go:86`, `order_place.go:35`) is out of the model.

### Cart

State: `carts` and `items` are the tables, by key; `live` is gorm's soft delete.
`req` are the handlers, each between two statements. The transactions
(`cart_add.go:51-79`, `cart_empty.go:32-44`) read nothing and take their row locks
in the order items, then cart, so each is one step; the lookups before them are
steps of their own, and any other handler can run in between. `WriteItem` follows
gorm's `Save`: an update of the row that was found, and, when EmptyCart has
deleted that row since, an insert under the same key that brings it back.

`SerialAdds` says whether a user has at most one AddItem outstanding (a page that
waits for its answer). With it the tables stay unique; without it they do not, and
`cart_two_rows` shows how: two AddItems that each find no row insert one each. In
the same way two first AddItems of a user find no cart and create two
(`cart_add.go:30`; FirstOrCreate is a SELECT and an INSERT, and `cart.go:13` has no
unique index); what went to the one of the larger key is never listed again.

### Shop

`Shop` extends `Cart` with the state of `Purchase` other than the cart and the two calls
of it, and instantiates `Purchase` over both: the cart of `Purchase` is what the tables
hold of a user's products, `getCart` and `emptyCart` are the handlers of `Cart` that are
named by their checkout and their order, and `answered` tells a call that has ended from
one whose reply has reached its caller. A call is one step of the caller and one of the
handler's start (`CallGetCart`, `CallEmptyCart`), a reply changes the caller alone
(`ReplyGetCart`, `ReplyEmptyCart`), the handler's statements are `Cart`'s (`CartStep`),
and everything that does not concern the cart service is a step of `Purchase` that
leaves it alone (`ServiceStep`). Clients add, list and empty through the same handlers.

What is left of the contents is their price: `Amount` is any function of them that is
zero for an empty cart only, since checkout.go prices an item by its quantity and no
quantity is zero. In the run it is the sum, so that carts of one price share a key of
PlaceOrder's cache, which can only refuse a checkout; the proof is for any prices, those
included that tell all contents apart. `Listed` and `Quantity` take the one row there is
of a product, which `CartInv` shows to be one while a user's AddItems come one at a time;
`Shop` is therefore checked and proved under `SerialAdds`. Without it `cart_two_rows`
shows what is lost. For the cart service every step of the shop is one of `Cart`'s own
(`ShopRunsCart`), so the shop's run is also where `Cart`'s properties are checked.

### RateLimiter

State: `limiters` holds every limiter ever created, `table` the current one of each
address and email (0: none). A request is `pc` and `stage` (asking the address's
limiter, then the email's) with its local variables `ip`, `user` and `held`, the
limiter it was handed. What `GetLimiter` and `CleanupJob` do under the RWMutex is
one step (`LookUp` 40-46, `Create` 46-58, `Cleanup` 60-71), and anything can run
between the read lock and the write lock, and between a limiter's hand-over and
the token taken from it (`Admit`, `Refuse`).

The model is of one path: the login path with a set of emails, any other with none,
since paths share no limiter. The limiter itself is the library `x/time/rate`; it
is modelled by its tokens, which come back at a `Tick` up to the burst. `MaxTicks`
and `MaxCleanups` bound the clock and the cleanups.

The comment at `rate_limiter.go:60` speaks of limiters that have expired; the job
drops all of them, those in use too. A request that still holds a dropped limiter
spends a token of that one, and the address starts again with a full bucket. So an
address gets a burst per cleanup on top of its rate, which is what
`AddressBounded` says; the table of the emails is never cleaned, so an email gets
one burst in all (`LoginsBounded`), and the table grows with every email tried.
`RateBuckets` shows the same as the user sees it: buckets that exist from the
start, where a request may be counted against the bucket before or after a reset.

### Registration

State: `users` is the table (id and email), `last` the newest id of each replica's
snowflake node, and `pc`, `on`, `email`, `id`, `tries` are the calls of Register with
their local variables. Each statement of `register.go` is a step: the lookup of the
email (`CheckEmail`), a generated id and its lookup, repeated up to `MaxRetries`
times (`Generate`, `CheckId`), the insert (`Insert`), and the start of the
publishing goroutine with the answer (`Return`). Hashing the password is left out.
The primary key and the unique email of `user.go:13-14` are what `Clashes` refuses.

All replicas use node number 1 (`cmd/user/main.go:65`), so a node's ids grow but two
replicas' may be equal; the two lookups find nothing and one insert is refused,
which the caller sees as an error although no account had its email or id when it
asked. `CheckId` follows line 43: every outcome but "not found", an error of the
database too, is a try lost. `RegisterFails` is a failed statement or a crash; after
the insert it leaves an account whose caller was told of an error (`lost`).

`pending` are the events goroutines are publishing, `topic` the Kafka topic,
`offset` and `seen` what each replica's consumer has read and handed to the
handlers. A producer without an acknowledgement sends again (`Send` keeps the event
pending), a failed publication is only logged (`SendFails`), and a consumer that
starts does so at the newest offset (`Subscribe`), so events are duplicated,
reordered, lost and skipped. `handleUserRegistered` then refuses every event, since
`handlers.go:29` asserts a struct where the decoded payload is a map; the model
ends where an event is handed over.

### PolicySync

State of a gateway: the `file` of its release, `main` (where the start is: between
SavePolicy's two reads, before its Put, serving), `saving` (what SavePolicy has
read), `memory` (the enforcer's rules), `events` (changes the watch has not handled),
`loader` and `todo` (the watch's goroutine and the rules it has yet to add). `etcd` is
the key with the number of times it was saved. A load is read-and-clear, then one
step per rule (`Load`, `AddRule`), and whatever another goroutine or gateway does can
come between; the enforcer has no lock, and a Go map read while it is written stops
the process, which `Crash` stands for. `apart` records that a gateway has started, edited
or failed to load since the last save it was told of and its last load.

Rules are `Permission` (the p rules, four fields in `policy.csv`) and `Grouping` (two
fields). The order in which a load adds rules is left open, since no property tells
one from another. A watch that etcd cancels for good (after a compaction) is not
modelled.

Three outcomes that the comments do not promise are actions of the model:

* `Loadable`: `loadPolicyFromEtcd` adds rules of three and of two fields
  (`casbin_adapter.go:70-83`) and SavePolicy writes p rules of four. So the first
  load, which a gateway's own Put starts, leaves it without p rules. Nothing here says
  that they should survive: no request is decided by them, as long as no user id is set.
* `Put`: `main.go:75` speaks of the first run, but every start saves. An older
  release's restart puts its file over a newer policy; and a gateway whose watch is
  told of another's Put before its own saves what that load has left so far, down to
  nothing. All gateways then load this.
* `LoadFile`: an edit (`authorization.go:126-200`) is followed by LoadPolicy, which
  reads the file and drops the edit. No route calls these operations yet.

What does hold is that the gateways follow etcd: `FollowsEtcd` (a gateway without
changes to handle, and not apart, has the groupings of etcd), `EditsStayLocal` (etcd
holds rules of files only), and `SaveReachesAll`: the last save brings every gateway that
runs to the groupings in etcd, whatever set it apart before, but for one that after that
save edits, fails to load, or starts and cannot save; of such a gateway nothing is
promised, and it may refuse other users for good. `PolicyBoard` says it as a history: a
gateway that went apart comes back by a save of which it was told and by nothing else,
loses all it had before it follows, and then gets only what was saved last.

### ServiceRegistry

A `Process` is one life of one replica: a container that is started again is another
process. `Main` lists, for each service, the steps of its main that can fail in the
order of its `main.go`, and `at` counts those a process has taken; `Grant`, `Put` and
`KeepAlive` are the three calls of RegisterService (`register.go:28-43`), `Prepare` is
every other step. cart, order, payment and checkout listen before they register;
auth, user and product register first, so that their address is listed before anybody
listens on it, and stays listed for a lease if a later step fails. user and auth have
no handler for SIGTERM (`Graceful`); the others finish their calls (`Stop`, `End`).
`End` is also a failed step (`log.Fatal`) and a crash: the client's Close does not
revoke the lease.

A lease is counted in ticks, its time left in `lease`. A process that runs, is not
`cut` from etcd and whose keepalive channel is open has a full lease at every `Tick`
(`Renewed`); the others' run down. The key goes with the lease it was last put under.
`Lose` is the channel's closing: the goroutine of `register.go:45-49` then reads a closed
channel for ever and nothing registers again, so a live process that was cut off for a
lease, or that another one replaced, is never listed any more. `newest`
and `stale` are history: who put last, and for how long the listed process has been
dead.

All replicas of a service use one key, whatever it is called: the cart service passes
a key that has the prefix already (`cart/main.go:118-132`, `register.go:34`), so its
own is `/services//services/cart`. Nothing under `src/` reads the keys (services find
each other by Kubernetes' names), and the gateway's `registerService`
(`gateway/main.go:21-45`) has no caller.

### Sessions

`pc` is where a Login is, `call` where the call to auth is that it made: asked, signed,
done (`doCall` returned and the reply was cached, or Redis failed). `FindUser` is the row
found and the password right, `Refuse` every earlier return. `Hit` is a cached reply,
under a key that names the user alone (`CacheKey`); unlike Checkout, Login takes the
token out of the decoded map (`login.go:76-81`), so that a second login within five
minutes gets the first one's token. `GiveUp` is an error, a refusal or hystrix's
timeout; until `ReturnError` the reply may still be cached, after it the context is
cancelled (`Store`).

`clock` counts time, in units of which `CallTime` (the timeout), `CacheLife` and
`TokenLife` (`jwt.go:15`) are multiples. hystrix's timer is not late: a `Tick` waits for a
login that is `Overdue`. That a token outlives the cache (`CallTime + CacheLife <
TokenLife`) is an assumption on the constants: a second, five minutes and a day in the
code. `Verifies` is VerifyTokenByRPC.

## Runs

| Run | Question | Bounds | Result |
|---|---|---|---|
| `purchase_checkouts` | do two checkouts of one cart keep their orders and charges apart, from those of clients too? is a paid order charged, and charged once? is the ledger kept? | 1 user, 2 checkouts among clients that empty carts and place orders, 2 orders, 2 transactions, quantities of 1, faults | `OwnedInv`, `PaidWasCharged`, `OneChargeSucceeds`, `ImplementsLedger` hold |
| `purchase_direct` | does a service ever believe an order paid that is not? is a checkout's success about its own order, and is every checkout answered whatever hangs? what is left of the ledger? | 1 checkout among clients that charge and mark orders themselves, 1 order, 2 charges, 1 gateway mark, faults; only checkouts are fair | `SuccessMeansPaid`, `ChargedIsPaid`, `OrdersOnlyAdvance`, `IndInv`, `ImplementsLedger`, `EveryCheckoutAnswered` hold |
| `purchase_progress` | does an order placed by a checkout get paid? | 2 checkouts among clients that empty carts and place orders, 2 orders, no faults, all handlers fair | `PlacedIsEventuallyPaid` holds |
| `purchase_cart_lost` | does a failed order leave the cart? | 1 checkout, faults | violated: rollback after EmptyCart |
| `purchase_charged_twice` | does the status check refuse a second charge? | 1 order, 2 direct charges | violated: stale check, or cached reply |
| `cart_two_rows` | does a product have one row? | 1 user, 3 requests | violated: two AddItems each insert one |
| `shop` | do the cart's tables stay unique and its handlers atomic while adds come one at a time, and does it do to a checkout and its order what `Purchase` takes it for? | 2 users, 2 products, quantities up to 2, 1 checkout, 1 order, 1 transaction, 2 calls of any kind by clients, faults | `CartInv`, `RepliesAreAsked`, `ImplementsContents`, `ImplementsPurchase` hold |
| `rate_logins` | does a key keep to one limiter while first requests race, and what can an address and an email be let through over refills and cleanups? | 2 addresses, 1 email, 4 requests, bursts of 1 and 2, 1 tick, 1 cleanup | `TypeOK`, `RateInv`, `LoginsBounded`, `AddressBounded`, `ImplementsBuckets` hold |
| `registrations` | are accounts kept apart with lookups that are stale at the insert, are answers and events true whatever fails? | 2 replicas, 3 calls, 2 emails, 2 tries, ids up to 2, 2 messages, faults | `TypeOK`, `RegInv`, `EventsAreTrue`, `ImplementsAccounts` hold |
| `policies` | does a save reach every gateway while they save and load at once, fail, restart and edit, and does each know whether it follows? | 2 gateways, 2 releases, 3 starts, 1 p rule, 2 g rules (one in no file), 1 edit, faults | `TypeOK`, `PolicyInv`, `ImplementsBoard`, `SaveReachesAll` hold |
| `registry` | who is listed while replicas start, fail, lose etcd and are replaced, and for how long? | 2 processes of each of the 7 services, a lease of 3 ticks | `TypeOK`, `RegistryInv`, `AddressAnswers`, `ImplementsAddressBook`, `UnkeptLeaves` hold |
| `logins` | whose token does a login get, how old, and is it answered? | 2 logins, 2 users, a timeout of 1, replies cached for 3, tokens of 5, time up to 5 | `TypeOK`, `SessionInv`, `TokensLast`, `ImplementsDesk`, `LoginAnswered` hold |

Why the bounds are enough: the races are between two handlers over one row, so
two orders, two charges and two checkouts of one user give every pair, and the
cache's keys name the user, so users interact only through it. A third actor only
repeats what the second does; the theorems below hold for any number. In `Shop`
the checkout's GetCart and the order's EmptyCart each meet two calls by clients, of its
own user or of another: two writers, a reader and an EmptyCart between them. In
`RateLimiter` two requests race to create, a third finds what they left and a
fourth overtakes a cleanup; of one address they are two more than its bursts before and
after the cleanup, and of one email two more than its burst. In `Registration` two emails and two ids for three
calls make every clash possible, of emails within and across replicas and of ids
across them, and a call has a first, a repeated and a last try; a topic of two
messages holds a duplicate and two orders of different users' events. In `PolicySync`
three starts of two gateways let both start at once and one start again with the
other release, and each start is a change that the other gateway is told of while it
loads the last. In `ServiceRegistry` the key sees one process after another, or two at
once, which is all that one key can tell apart, and a lease of three ticks can be
renewed in its middle. In `Sessions` two logins of one user can share a reply and two of
two users must not, and the time is long enough for a reply to be cached late and to
expire.

Deadlock is not checked: clients need not act, and a system whose requests are all
answered stops.

### Fairness

`AnswerSpec` assumes weak fairness of a checkout's own steps and nothing of the
services: hystrix's timer runs in the checkout's process and ends every wait
(`proxy.go:86`; commands without a configuration time out after a second).
`LiveSpec` adds weak fairness of the handlers and of the proxy's goroutines, which
the Go scheduler and the database give to running code. Clients and the expiry of
cached replies are never fair. `PolicySync`'s `LiveSpec` assumes weak fairness of a
gateway's main and of its watch's goroutine: etcd answers, or a failure is taken.
Starts, edits, crashes and failures are not fair. `ServiceRegistry`'s `LiveSpec` assumes
that time passes in etcd and nothing of the processes, `Sessions`' that a login's
goroutine and hystrix's timer run (`LoginStep`), and nothing of auth, Redis or the clock.

## What is proved

All theorems hold for any users, checkouts, orders, transactions, products,
requests and bounds on quantities, under the assumptions named in the modules
(sentinel values are distinct from the sets, bounds are positive).

* `PurchaseProofs` proves `TypeOK` and the inductive invariant `IndInv` from it.
  `IndInv` is needed because `SuccessMeansPaid` says nothing of a checkout that is
  still waiting: it is strengthened along the chain of calls, by `RowsAreCommitted`
  (a row exists exactly when its handler committed, with its values),
  `MarksAreTrue` (a mark past its check has seen a row of its user),
  `ChargesAreTrue` and `CheckoutsAreTrue` (a handler that waits or goes on has what
  its callee wrote). One lemma per action. `CachedMarkIsTrue`, `SuccessMeansPaid`,
  `ChargedIsPaid` and `OrdersOnlyAdvance` follow.
* `PurchaseProofs` also proves what checkouts keep to themselves, whichever of the
  services' routes clients use directly (`Direct`). `OwnedInv` is inductive with `IndInv`:
  an order or a charge names the one checkout it is of, or none. From it follow
  `OneChargeSucceeds` when clients do not charge orders (two charges of one order have
  one owner, and an owner one charge), and the refinement of `OrderLedger` for every
  `Direct`: committing is `Place`, the insert of the transaction is `Pay`, the first
  update is `Settle`, and every other step, the second update included, changes nothing.
  What the ledger promises depends on `Direct`: a client that charges may charge an order
  twice, or one that does not exist, and one that marks orders may settle what nobody
  paid. `PaidWasCharged` needs that clients do not mark.
* `CartProofs` proves two things of any AddItems (`AskInv`): `TypeOK`, and
  `RepliesAreAsked`, since a row keeps its cart and product for ever and every quantity
  in it was asked for by a call of the cart's user. Under `SerialAdds` it proves
  `CartInv`: what a lookup found, or found missing, is still so at the write it leads
  to, except for rows that EmptyCart deleted. `AddsHoldTheirPlace` is that statement;
  `OneCart` and `OneRow` follow from it at the two inserts. From these, `Cart`
  implements `CartContents`: the transactions are `Put` and `Clear`, listing the rows
  is `Read`, and a lookup that finds no cart is the moment of a GetCart or an EmptyCart.
* `ShopProofs` puts the two together. The inductive invariant is `CartInv`, `CallsMatch`
  (a call is made once, for its caller's user, and is answered when it has ended) and
  Purchase's `IndInv`, which has the user in it that a call is made for. For the cart
  service every step of the shop is one of its own, so that `CartContents` says what it
  does; a `Put` is then a client's AddItem in `Purchase`, a `Clear` the service of an
  order's EmptyCart or a client's, a `Read` the service of a checkout's GetCart, and a
  failed handler a call that returns an error. So `Shop` implements `Purchase`, and the
  theorems about `Purchase` hold of it: `ShopSuccessMeansPaid` states the one that
  matters most. The assumption is `SerialAdds`, as in `CartProofs`.
* `RateLimiterProofs` proves `RateInv`, an inductive invariant together with
  `TypeOK`: `OneLimiterPerReset` alone says nothing of the limiters that requests
  hold, and `Conserved` (tokens taken plus tokens left are within the burst and
  what came back) relies on each request holding a limiter of its own key
  (`HeldFits`). `LoginsBounded` follows, since an email has one limiter for ever, and
  `AddressBounded`: the requests an address had through are the union of what each of
  its limiters let through, and a set that falls into parts of at most some size has no
  more members than the parts times that size (`PartsBound`, by an injection into a
  product, since a sum's induction is out of the prover's reach).
  For the refinement, a bucket's tokens are those of the limiter in the table, or a
  full burst; looking up and creating are no step of `RateBuckets`, taking a token
  of a dropped limiter is a `DecideLate`, and a cleanup is a `Reset`.
* `RegistrationProofs` proves `RegInv`, inductive with `TypeOK`: what a call knows of
  its own variables (`CallFits`), that ids clash across replicas only, and
  `AccountsAreOwn`. The lookups are not needed for it, only the refusal of
  `Clashes`; they are needed for the answer "exists". `EventsAreTrue` follows since
  rows are never deleted. For the refinement an account opens at the insert that
  is not refused, and a message stored, once more or first, is an `Announce`.

* `PolicySyncProofs` proves `PolicyInv`, inductive with `TypeOK`. `FollowsEtcd` needs
  its second part, for the load under way: what is in memory and what is to come
  are together what can be loaded of etcd; a Put breaks neither, since it leaves
  every watch with a change to handle. `EditsStayLocal` needs that SavePolicy has read
  before any edit is possible. On the `PolicyBoard` a gateway is down, told (a change
  is queued or about to be read), apart, loading or following (`Standing`). A Put is a
  `Save`, the read of the last change is a `Clear`, an added rule an `Add`, and the end of a
  load is `Follow`, for which the invariant shows that all of the policy has been added;
  what a gateway does while it is told or apart is `Change` or nothing.
* `ServiceRegistryProofs` proves `RegistryInv`, inductive with `TypeOK`. That a dead
  process is listed for one lease at most needs the sum in it: the time the listed one
  has been dead and what is left of its lease are together no more than a lease.
  `AddressAnswers` follows, and so does `AddressBook`: a put is an
  `Announce`, a tick that ends the listed one's lease a `Withdraw`, for which the lease
  invariant shows that the process was not keeping it; everything else is `Waver`.
* `SessionsProofs` proves `SessionInv`, inductive with `TypeOK`: the age of a token is
  bounded along the call that brought it (`CallsAreOwn`), the cache (`CacheIsOwn`) and
  the answer (`TokensAreOwn`). `TokensLast` follows, and `TokenDesk`: a hit and a return
  are a `Give`.

The theorems by name (each has its statement in words above it):

| module | theorems |
|---|---|
| `PurchaseProofs` | `TypeCorrect`, `Invariance`, `CachedMarksAreTrue`, `SuccessIsPaid`, `ChargesArePaid`, `OrdersAdvance`, `PaidOrdersWereCharged`, `CheckoutsOwnOrders`, `CheckoutsChargeOnce`, `PurchaseImplementsLedger` |
| `CartProofs` | `TablesStayUnique`, `TypeCorrect`, `ListsAreAskedFor`, `CartImplementsContents` |
| `ShopProofs` | `ShopRunsCart`, `ShopImplementsPurchase`, `ShopSuccessMeansPaid` |
| `RateLimiterProofs` | `TypeCorrect`, `OneLimiterEach`, `LoginsAreBounded`, `AddressesAreBounded`, `LimiterImplementsBuckets` |
| `RegistrationProofs` | `TypeCorrect`, `AccountsStayOwn`, `EventsStayTrue`, `RegistrationImplementsAccounts` |
| `PolicySyncProofs` | `TypeCorrect`, `GatewaysFollow`, `SyncImplementsBoard` |
| `ServiceRegistryProofs` | `TypeCorrect`, `RegistryInvariant`, `AddressesAnswer`, `RegistryImplementsBook` |
| `SessionsProofs` | `TypeCorrect`, `SessionsAreOwn`, `TokensStayValid`, `SessionsImplementDesk` |

Every safety property of a passing run is proved. Liveness is only model-checked
(`EveryCheckoutAnswered`, `PlacedIsEventuallyPaid`, `SaveReachesAll`, `UnkeptLeaves`,
`LoginAnswered`): it is out of the prover's reach. The refuted statements have a finding
each in `PROJECT.json`, and so has the comment at `charge.go:121`: `ChargedIsPaid` holds
because the code does the opposite of it.

## Not modelled

* The saga (`common/saga/saga.go`): nothing under `src/` builds one, so there are no
  steps, no compensations and no order of calls to model; what is left is a loop over
  functions that do not exist.
* Amounts: neither TLC nor the provers have floating-point numbers. The sums of
  `checkout.go:86` and `order_place.go:35` and the unit price of `order_place.go:59` are
  out of the model; with the one price there is (100 yuan) both sums are exact up to
  2^24 yuan, and a quantity of zero makes the insert fail, which is `PlaceFails`.
* `product` only reads: nothing under `src/` writes a product, and no two of its calls
  can tell each other apart.
* Of the user events, what happens in the handlers: each refuses its payload. Of the
  event bus, the handler table, which changes only before a service serves.
* Of the gateway, the HTTP binding and the reflection in `rpc.go`; of the login checks,
  the whitelist and AuthorizationMiddleware, which change nothing. AuthMiddleware is not
  installed by `router.go`.
* `ListOrder` reads one table. The proxy's connection table shares connections and
  decides nothing. `AsyncCall` has no caller. Hystrix's circuit (when it opens and
  closes) is a refusal at any moment.
* Configuration, logging, database helpers, generated code, manifests and scripts keep
  no protocol.

Each component has one or two runs that ask all of its questions; a refuted statement
has a run of its own.
