------------------------------ MODULE Purchase ------------------------------
(***************************************************************************)
(* The purchase path of the shop: a checkout reads the user's cart, places *)
(* an order, which empties the cart, and charges the card, which marks the *)
(* order paid.  Every hop between two services is one GrpcProxy.Call:      *)
(*                                                                         *)
(*   checkout --GetCart-->    cart                                         *)
(*   checkout --PlaceOrder--> order   --EmptyCart-->     cart              *)
(*   checkout --Charge-->     payment --MarkOrderPaid--> order             *)
(*                                                                         *)
(* A Call answers from the Redis cache when the same request succeeded in  *)
(* the last five minutes and is then not made at all; otherwise it runs    *)
(* the remote handler under hystrix, which may refuse it (open circuit, no *)
(* slot) or give up on it after a second while the handler runs on.  The   *)
(* handlers are identified by what they generate: a PlaceOrder by its      *)
(* order id, a Charge by its transaction id, the calls they make likewise. *)
(* Amounts are in units of 100 yuan, the price checkout.go gives an item,  *)
(* so a checkout's amount is the quantity in the cart.                     *)
(***************************************************************************)
EXTENDS Naturals, FiniteSets

CONSTANTS
  User,         \* users with a session at the gateway
  Checkout,     \* POST /checkout requests
  OrderId,      \* ids the order service can generate
  TxnId,        \* ids the payment service can generate
  GatewayMark,  \* POST /order/mark_paid requests
  None,         \* "no value yet", and "called by the gateway, not by a checkout"
  MaxQty,       \* bound on the quantity in a cart, and on an amount
  Direct,       \* gateway routes to the services' own handlers that clients use
  Faulty        \* may calls time out or be refused, and handlers fail?

Routes == {"EmptyCart", "PlaceOrder", "Charge", "MarkOrderPaid"}

ASSUME PurchaseAssumption ==
  /\ MaxQty \in Nat \ {0}
  /\ None \notin User \cup Checkout \cup OrderId \cup TxnId
  /\ GatewayMark \cap TxnId = {}
  /\ Direct \subseteq Routes
  /\ Faulty \in BOOLEAN

Qty    == 1..MaxQty
Marker == TxnId \cup GatewayMark   \* a MarkOrderPaid call: a charge's, or the gateway's

VARIABLES
  cart,        \* cart service: quantity in each user's cart
  checkouts,   \* checkout service: one Checkout handler per request
  getCart,     \* GetCart call of each checkout
  places,      \* order service: one PlaceOrder handler per order id
  emptyCart,   \* EmptyCart call of each PlaceOrder
  orders,      \* order service: the orders table
  charges,     \* payment service: one Charge handler per transaction id
  txns,        \* payment service: the transactions table
  marks,       \* order service: one MarkOrderPaid handler per call
  cache        \* Redis: keys of the cached replies, per method

vars == <<cart, checkouts, getCart, places, emptyCart, orders, charges, txns, marks, cache>>

CheckoutPc == {"idle", "getCart", "waitCart", "placeOrder", "waitOrder", "charge",
               "waitCharge", "failing", "error", "ok"}
PlacePc    == {"idle", "insert", "emptyCart", "waitEmpty", "commit", "rollback",
               "error", "ok", "replied"}
ChargePc   == {"idle", "save", "markPaid", "waitMark", "failing", "error", "ok"}
CallPc     == {"idle", "run", "ok", "error", "replied"}
MarkPc     == {"idle", "check", "update", "ok", "error", "replied"}

NoRow     == [status |-> "NONE", user |-> None, amount |-> 0]
NoTxn     == [order |-> None, user |-> None, amount |-> 0]
NoRequest == [pc |-> "idle", user |-> None, qty |-> 0, order |-> None, txn |-> None]

CheckoutRec == [pc : CheckoutPc, user : User \cup {None}, qty : 0..MaxQty,
                order : OrderId \cup {None}, txn : TxnId \cup {None}]
GetCartRec  == [pc : CallPc, qty : 0..MaxQty]
PlaceRec    == [pc : PlacePc, user : User \cup {None}, qty : 0..MaxQty,
                by : Checkout \cup {None}]
OrderRow    == [status : {"NONE", "CREATED", "PAID"}, user : User \cup {None},
                amount : 0..MaxQty]
ChargeRec   == [pc : ChargePc, user : User \cup {None}, order : OrderId \cup {None},
                amount : 0..MaxQty, by : Checkout \cup {None}]
TxnRow      == [order : OrderId \cup {None}, user : User \cup {None}, amount : 0..MaxQty]
MarkRec     == [pc : MarkPc, user : User \cup {None}, order : OrderId \cup {None}]
Cache       == [getCart : SUBSET User, emptyCart : SUBSET User,
                placeOrder : SUBSET (User \X Qty), markPaid : SUBSET (User \X OrderId)]

(* One type invariant for the tables, the handlers and the cache.          *)
TypeOK ==
  /\ cart \in [User -> 0..MaxQty]
  /\ checkouts \in [Checkout -> CheckoutRec]
  /\ getCart \in [Checkout -> GetCartRec]
  /\ places \in [OrderId -> PlaceRec]
  /\ emptyCart \in [OrderId -> CallPc]
  /\ orders \in [OrderId -> OrderRow]
  /\ charges \in [TxnId -> ChargeRec]
  /\ txns \in [TxnId -> TxnRow]
  /\ marks \in [Marker -> MarkRec]
  /\ cache \in Cache

Init ==
  /\ cart = [u \in User |-> 0]
  /\ checkouts = [c \in Checkout |-> NoRequest]
  /\ getCart = [c \in Checkout |-> [pc |-> "idle", qty |-> 0]]
  /\ places = [o \in OrderId |-> [pc |-> "idle", user |-> None, qty |-> 0, by |-> None]]
  /\ emptyCart = [o \in OrderId |-> "idle"]
  /\ orders = [o \in OrderId |-> NoRow]
  /\ charges = [t \in TxnId |-> [pc |-> "idle", user |-> None, order |-> None,
                                 amount |-> 0, by |-> None]]
  /\ txns = [t \in TxnId |-> NoTxn]
  /\ marks = [m \in Marker |-> [pc |-> "idle", user |-> None, order |-> None]]
  /\ cache = [getCart |-> {}, emptyCart |-> {}, placeOrder |-> {}, markPaid |-> {}]

-----------------------------------------------------------------------------
(* Clients of the gateway, and Redis.                                      *)

(* POST /cart/add leaves the user's cart with at least one item in it.     *)
AddItem(u) ==
  /\ \E q \in Qty : cart' = [cart EXCEPT ![u] = q]
  /\ UNCHANGED <<checkouts, getCart, places, emptyCart, orders, charges, txns, marks, cache>>

(* DELETE /cart/empty.                                                     *)
DirectEmptyCart(u) ==
  /\ "EmptyCart" \in Direct
  /\ cart' = [cart EXCEPT ![u] = 0]
  /\ UNCHANGED <<checkouts, getCart, places, emptyCart, orders, charges, txns, marks, cache>>

(* A cached reply outlives its five minutes.                               *)
Expire ==
  /\ \/ \E u \in cache.getCart : cache' = [cache EXCEPT !.getCart = @ \ {u}]
     \/ \E u \in cache.emptyCart : cache' = [cache EXCEPT !.emptyCart = @ \ {u}]
     \/ \E k \in cache.placeOrder : cache' = [cache EXCEPT !.placeOrder = @ \ {k}]
     \/ \E k \in cache.markPaid : cache' = [cache EXCEPT !.markPaid = @ \ {k}]
  /\ UNCHANGED <<cart, checkouts, getCart, places, emptyCart, orders, charges, txns, marks>>

-----------------------------------------------------------------------------
(* The checkout service.                                                   *)

(* POST /checkout, past the parameter checks.                              *)
CheckoutBegin(c, u) ==
  /\ checkouts[c].pc = "idle"
  /\ checkouts' = [checkouts EXCEPT ![c].pc = "getCart", ![c].user = u]
  /\ UNCHANGED <<cart, getCart, places, emptyCart, orders, charges, txns, marks, cache>>

CallGetCart(c) ==
  /\ checkouts[c].pc = "getCart"
  /\ checkouts[c].user \notin cache.getCart
  /\ checkouts' = [checkouts EXCEPT ![c].pc = "waitCart"]
  /\ getCart' = [getCart EXCEPT ![c].pc = "run"]
  /\ UNCHANGED <<cart, places, emptyCart, orders, charges, txns, marks, cache>>

(* The reply is in, and the cart has items: they become the order's items. *)
AwaitGetCart(c) ==
  /\ checkouts[c].pc = "waitCart"
  /\ getCart[c].pc = "replied"
  /\ getCart[c].qty > 0
  /\ checkouts' = [checkouts EXCEPT ![c].pc = "placeOrder", ![c].qty = getCart[c].qty]
  /\ UNCHANGED <<cart, getCart, places, emptyCart, orders, charges, txns, marks, cache>>

(* Mutant: a call that takes too long is made again.                       *)
CallPlaceOrderAgain(c) ==
  /\ checkouts[c].pc \in {"placeOrder", "waitOrder"}
  /\ <<checkouts[c].user, checkouts[c].qty>> \notin cache.placeOrder
  /\ \E o \in OrderId :
       /\ places[o].pc = "idle"
       /\ places' = [places EXCEPT ![o] = [pc |-> "insert", user |-> checkouts[c].user,
                                           qty |-> checkouts[c].qty, by |-> c]]
       /\ checkouts' = [checkouts EXCEPT ![c].pc = "waitOrder", ![c].order = o]
  /\ UNCHANGED <<cart, getCart, emptyCart, orders, charges, txns, marks, cache>>

CallPlaceOrder(c) ==
  /\ checkouts[c].pc = "placeOrder"
  /\ <<checkouts[c].user, checkouts[c].qty>> \notin cache.placeOrder
  /\ \E o \in OrderId :
       /\ places[o].pc = "idle"
       /\ places' = [places EXCEPT ![o] = [pc |-> "insert", user |-> checkouts[c].user,
                                           qty |-> checkouts[c].qty, by |-> c]]
       /\ checkouts' = [checkouts EXCEPT ![c].pc = "waitOrder", ![c].order = o]
  /\ UNCHANGED <<cart, getCart, emptyCart, orders, charges, txns, marks, cache>>

(* Mutant: the order id is answered before the transaction commits.        *)
AwaitPlaceOrderEarly(c) ==
  /\ checkouts[c].pc = "waitOrder"
  /\ places[checkouts[c].order].pc \in {"commit", "replied"}
  /\ checkouts' = [checkouts EXCEPT ![c].pc = "charge"]
  /\ UNCHANGED <<cart, getCart, places, emptyCart, orders, charges, txns, marks, cache>>

AwaitPlaceOrder(c) ==
  /\ checkouts[c].pc = "waitOrder"
  /\ places[checkouts[c].order].pc = "replied"
  /\ checkouts' = [checkouts EXCEPT ![c].pc = "charge"]
  /\ UNCHANGED <<cart, getCart, places, emptyCart, orders, charges, txns, marks, cache>>

(* Mutant: a charge that takes too long is made again.                     *)
CallChargeAgain(c) ==
  /\ checkouts[c].pc \in {"charge", "waitCharge"}
  /\ \E t \in TxnId :
       /\ charges[t].pc = "idle"
       /\ charges' = [charges EXCEPT ![t] =
                        [pc |-> "save", user |-> checkouts[c].user, by |-> c,
                         order |-> checkouts[c].order, amount |-> checkouts[c].qty]]
       /\ checkouts' = [checkouts EXCEPT ![c].pc = "waitCharge", ![c].txn = t]
  /\ UNCHANGED <<cart, getCart, places, emptyCart, orders, txns, marks, cache>>

(* The request names the fresh order, so no earlier reply to it is cached  *)
(* and its own reply, cached, is never looked up: its key is left out.     *)
CallCharge(c) ==
  /\ checkouts[c].pc = "charge"
  /\ \E t \in TxnId :
       /\ charges[t].pc = "idle"
       /\ charges' = [charges EXCEPT ![t] =
                        [pc |-> "save", user |-> checkouts[c].user, by |-> c,
                         order |-> checkouts[c].order, amount |-> checkouts[c].qty]]
       /\ checkouts' = [checkouts EXCEPT ![c].pc = "waitCharge", ![c].txn = t]
  /\ UNCHANGED <<cart, getCart, places, emptyCart, orders, txns, marks, cache>>

(* Mutant: an error from Charge is only logged.                            *)
AwaitChargeIgnoringError(c) ==
  /\ checkouts[c].pc = "waitCharge"
  /\ charges[checkouts[c].txn].pc \in {"ok", "error"}
  /\ checkouts' = [checkouts EXCEPT ![c].pc = "ok"]
  /\ UNCHANGED <<cart, getCart, places, emptyCart, orders, charges, txns, marks, cache>>

(* The charge went through: the client is told so.                         *)
AwaitCharge(c) ==
  /\ checkouts[c].pc = "waitCharge"
  /\ charges[checkouts[c].txn].pc = "ok"
  /\ checkouts' = [checkouts EXCEPT ![c].pc = "ok"]
  /\ UNCHANGED <<cart, getCart, places, emptyCart, orders, charges, txns, marks, cache>>

(* What makes the call a checkout is at fail, other than a fault of the    *)
(* call itself: a cached reply, which is a map and so fails the handler's  *)
(* type assertion; an empty cart; an error from the handler.               *)
CheckoutCallFailed(c) ==
  LET k == checkouts[c] IN
  \/ k.pc = "getCart" /\ k.user \in cache.getCart
  \/ k.pc = "waitCart" /\ getCart[c].pc = "error"
  \/ k.pc = "waitCart" /\ getCart[c].pc = "replied" /\ getCart[c].qty = 0
  \/ k.pc = "placeOrder" /\ <<k.user, k.qty>> \in cache.placeOrder
  \/ k.pc = "waitOrder" /\ places[k.order].pc = "error"
  \/ k.pc = "waitCharge" /\ charges[k.txn].pc = "error"

(* Mutant: calls are made without hystrix, and so without a timeout.       *)
CheckoutFailsUntimed(c) ==
  /\ checkouts[c].pc \in {"getCart", "waitCart", "placeOrder", "waitOrder", "charge", "waitCharge"}
  /\ CheckoutCallFailed(c)
  /\ checkouts' = [checkouts EXCEPT ![c].pc = "failing"]
  /\ UNCHANGED <<cart, getCart, places, emptyCart, orders, charges, txns, marks, cache>>

(* Any of these, or hystrix refusing the call or giving up on it.          *)
CheckoutFails(c) ==
  /\ checkouts[c].pc \in {"getCart", "waitCart", "placeOrder", "waitOrder", "charge", "waitCharge"}
  /\ Faulty \/ CheckoutCallFailed(c)
  /\ checkouts' = [checkouts EXCEPT ![c].pc = "failing"]
  /\ UNCHANGED <<cart, getCart, places, emptyCart, orders, charges, txns, marks, cache>>

(* The handler returns the error, which cancels the context of its calls.  *)
CheckoutReturnsError(c) ==
  /\ checkouts[c].pc = "failing"
  /\ checkouts' = [checkouts EXCEPT ![c].pc = "error"]
  /\ UNCHANGED <<cart, getCart, places, emptyCart, orders, charges, txns, marks, cache>>

(* Until then a call hystrix gave up on may still complete in its own      *)
(* goroutine.                                                              *)
CheckoutListens(c, wait) == checkouts[c].pc \in {wait, "failing"}

-----------------------------------------------------------------------------
(* The cart service, and the proxy calls that reach it.                    *)

ServeGetCart(c) ==
  /\ getCart[c].pc = "run"
  /\ \/ getCart' = [getCart EXCEPT ![c] = [pc |-> "ok", qty |-> cart[checkouts[c].user]]]
     \/ Faulty /\ getCart' = [getCart EXCEPT ![c].pc = "error"]
  /\ UNCHANGED <<cart, checkouts, places, emptyCart, orders, charges, txns, marks, cache>>

(* doCall has the reply: it is cached, then handed to the caller.          *)
ReplyGetCart(c) ==
  /\ getCart[c].pc = "ok"
  /\ CheckoutListens(c, "waitCart")
  /\ getCart' = [getCart EXCEPT ![c].pc = "replied"]
  /\ cache' = [cache EXCEPT !.getCart = @ \cup {checkouts[c].user}]
  /\ UNCHANGED <<cart, checkouts, places, emptyCart, orders, charges, txns, marks>>

ServeEmptyCart(o) ==
  /\ emptyCart[o] = "run"
  /\ \/ /\ cart' = [cart EXCEPT ![places[o].user] = 0]
        /\ emptyCart' = [emptyCart EXCEPT ![o] = "ok"]
     \/ /\ Faulty
        /\ emptyCart' = [emptyCart EXCEPT ![o] = "error"]
        /\ UNCHANGED cart
  /\ UNCHANGED <<checkouts, getCart, places, orders, charges, txns, marks, cache>>

ReplyEmptyCart(o) ==
  /\ emptyCart[o] = "ok"
  /\ places[o].pc \in {"waitEmpty", "rollback"}
  /\ emptyCart' = [emptyCart EXCEPT ![o] = "replied"]
  /\ cache' = [cache EXCEPT !.emptyCart = @ \cup {places[o].user}]
  /\ UNCHANGED <<cart, checkouts, getCart, places, orders, charges, txns, marks>>

-----------------------------------------------------------------------------
(* The order service: PlaceOrder.                                          *)

(* POST /order/place: any items, with or without a cart.                   *)
DirectPlaceOrder(o, u, q) ==
  /\ "PlaceOrder" \in Direct
  /\ places[o].pc = "idle"
  /\ places' = [places EXCEPT ![o] = [pc |-> "insert", user |-> u, qty |-> q, by |-> None]]
  /\ UNCHANGED <<cart, checkouts, getCart, emptyCart, orders, charges, txns, marks, cache>>

(* The order and its items are inserted in an open transaction.            *)
PlaceInsert(o) ==
  /\ places[o].pc = "insert"
  /\ places' = [places EXCEPT ![o].pc = "emptyCart"]
  /\ UNCHANGED <<cart, checkouts, getCart, emptyCart, orders, charges, txns, marks, cache>>

(* A cached reply to EmptyCart stands for the call: the cart is not        *)
(* touched, and the reply itself is not looked at.                         *)
CallEmptyCart(o) ==
  /\ places[o].pc = "emptyCart"
  /\ \/ /\ places[o].user \in cache.emptyCart
        /\ places' = [places EXCEPT ![o].pc = "commit"]
        /\ UNCHANGED emptyCart
     \/ /\ places[o].user \notin cache.emptyCart
        /\ places' = [places EXCEPT ![o].pc = "waitEmpty"]
        /\ emptyCart' = [emptyCart EXCEPT ![o] = "run"]
  /\ UNCHANGED <<cart, checkouts, getCart, orders, charges, txns, marks, cache>>

AwaitEmptyCart(o) ==
  /\ places[o].pc = "waitEmpty"
  /\ emptyCart[o] = "replied"
  /\ places' = [places EXCEPT ![o].pc = "commit"]
  /\ UNCHANGED <<cart, checkouts, getCart, emptyCart, orders, charges, txns, marks, cache>>

(* Mutant: a commit whose outcome is unknown is tried again.               *)
PlaceCommitAgain(o) ==
  /\ places[o].pc \in {"commit", "ok", "replied"}
  /\ orders' = [orders EXCEPT ![o] = [status |-> "CREATED", user |-> places[o].user,
                                      amount |-> places[o].qty]]
  /\ places' = [places EXCEPT ![o].pc = "ok"]
  /\ UNCHANGED <<cart, checkouts, getCart, emptyCart, charges, txns, marks, cache>>

PlaceCommit(o) ==
  /\ places[o].pc = "commit"
  /\ orders' = [orders EXCEPT ![o] = [status |-> "CREATED", user |-> places[o].user,
                                      amount |-> places[o].qty]]
  /\ places' = [places EXCEPT ![o].pc = "ok"]
  /\ UNCHANGED <<cart, checkouts, getCart, emptyCart, charges, txns, marks, cache>>

(* A failed insert, EmptyCart or commit, or a crash of the service: the    *)
(* transaction is rolled back.                                             *)
PlaceFails(o) ==
  /\ \/ places[o].pc = "waitEmpty" /\ emptyCart[o] = "error"
     \/ Faulty /\ places[o].pc \in {"insert", "emptyCart", "waitEmpty", "commit"}
  /\ places' = [places EXCEPT ![o].pc = "rollback"]
  /\ UNCHANGED <<cart, checkouts, getCart, emptyCart, orders, charges, txns, marks, cache>>

PlaceReturnsError(o) ==
  /\ places[o].pc = "rollback"
  /\ places' = [places EXCEPT ![o].pc = "error"]
  /\ UNCHANGED <<cart, checkouts, getCart, emptyCart, orders, charges, txns, marks, cache>>

(* The checkout's proxy has the reply, and caches it.                      *)
ReplyPlaceOrder(o) ==
  /\ places[o].pc = "ok"
  /\ places[o].by # None
  /\ CheckoutListens(places[o].by, "waitOrder")
  /\ places' = [places EXCEPT ![o].pc = "replied"]
  /\ cache' = [cache EXCEPT !.placeOrder = @ \cup {<<places[o].user, places[o].qty>>}]
  /\ UNCHANGED <<cart, checkouts, getCart, emptyCart, orders, charges, txns, marks>>

-----------------------------------------------------------------------------
(* The payment service: Charge.                                            *)

(* POST /payment/charge: a first payment of an order placed directly, or   *)
(* the retry of one whose outcome the client does not know.                *)
DirectCharge(t, u, o, q) ==
  /\ "Charge" \in Direct
  /\ charges[t].pc = "idle"
  /\ charges' = [charges EXCEPT ![t] = [pc |-> "save", user |-> u, order |-> o,
                                        amount |-> q, by |-> None]]
  /\ UNCHANGED <<cart, checkouts, getCart, places, emptyCart, orders, txns, marks, cache>>

(* Mutant: a failed insert of the transaction is ignored.                  *)
SaveTransactionUnchecked(t) ==
  /\ charges[t].pc = "save"
  /\ charges' = [charges EXCEPT ![t].pc = "markPaid"]
  /\ UNCHANGED <<cart, checkouts, getCart, places, emptyCart, orders, txns, marks, cache>>

(* The payment "always succeeds": the card and the COMPLETED transaction   *)
(* are saved, outside any database transaction.                            *)
SaveTransaction(t) ==
  /\ charges[t].pc = "save"
  /\ txns' = [txns EXCEPT ![t] = [order |-> charges[t].order, user |-> charges[t].user,
                                  amount |-> charges[t].amount]]
  /\ charges' = [charges EXCEPT ![t].pc = "markPaid"]
  /\ UNCHANGED <<cart, checkouts, getCart, places, emptyCart, orders, marks, cache>>

(* A cached reply says the order was marked already.                       *)
CallMarkOrderPaid(t) ==
  /\ charges[t].pc = "markPaid"
  /\ \/ /\ <<charges[t].user, charges[t].order>> \in cache.markPaid
        /\ charges' = [charges EXCEPT ![t].pc = "ok"]
        /\ UNCHANGED marks
     \/ /\ <<charges[t].user, charges[t].order>> \notin cache.markPaid
        /\ charges' = [charges EXCEPT ![t].pc = "waitMark"]
        /\ marks' = [marks EXCEPT ![t] = [pc |-> "check", user |-> charges[t].user,
                                          order |-> charges[t].order]]
  /\ UNCHANGED <<cart, checkouts, getCart, places, emptyCart, orders, txns, cache>>

(* Mutant: an error from MarkOrderPaid is only logged.                     *)
AwaitMarkIgnoringError(t) ==
  /\ charges[t].pc = "waitMark"
  /\ marks[t].pc \in {"replied", "error"}
  /\ charges' = [charges EXCEPT ![t].pc = "ok"]
  /\ UNCHANGED <<cart, checkouts, getCart, places, emptyCart, orders, txns, marks, cache>>

AwaitMarkOrderPaid(t) ==
  /\ charges[t].pc = "waitMark"
  /\ marks[t].pc = "replied"
  /\ charges' = [charges EXCEPT ![t].pc = "ok"]
  /\ UNCHANGED <<cart, checkouts, getCart, places, emptyCart, orders, txns, marks, cache>>

(* A failed insert, a failed MarkOrderPaid, or a crash of the service.     *)
ChargeFails(t) ==
  /\ \/ charges[t].pc = "waitMark" /\ marks[t].pc = "error"
     \/ Faulty /\ charges[t].pc \in {"save", "markPaid", "waitMark"}
  /\ charges' = [charges EXCEPT ![t].pc = "failing"]
  /\ UNCHANGED <<cart, checkouts, getCart, places, emptyCart, orders, txns, marks, cache>>

ChargeReturnsError(t) ==
  /\ charges[t].pc = "failing"
  /\ charges' = [charges EXCEPT ![t].pc = "error"]
  /\ UNCHANGED <<cart, checkouts, getCart, places, emptyCart, orders, txns, marks, cache>>

-----------------------------------------------------------------------------
(* The order service: MarkOrderPaid reads the row, then updates it.        *)

(* POST /order/mark_paid.                                                  *)
DirectMarkOrderPaid(m, u, o) ==
  /\ "MarkOrderPaid" \in Direct
  /\ marks[m].pc = "idle"
  /\ marks' = [marks EXCEPT ![m] = [pc |-> "check", user |-> u, order |-> o]]
  /\ UNCHANGED <<cart, checkouts, getCart, places, emptyCart, orders, charges, txns, cache>>

(* Mutant: the status check inverted.                                      *)
PayableInverted(m) ==
  /\ orders[marks[m].order].status \notin {"NONE", "CREATED"}
  /\ orders[marks[m].order].user = marks[m].user

(* The order must exist, belong to the user, and be CREATED.               *)
Payable(m) ==
  /\ orders[marks[m].order].status = "CREATED"
  /\ orders[marks[m].order].user = marks[m].user

MarkCheck(m) ==
  /\ marks[m].pc = "check"
  /\ \/ Payable(m) /\ marks' = [marks EXCEPT ![m].pc = "update"]
     \/ (Faulty \/ ~Payable(m)) /\ marks' = [marks EXCEPT ![m].pc = "error"]
  /\ UNCHANGED <<cart, checkouts, getCart, places, emptyCart, orders, charges, txns, cache>>

MarkUpdate(m) ==
  /\ marks[m].pc = "update"
  /\ \/ /\ orders' = [orders EXCEPT ![marks[m].order].status = "PAID"]
        /\ marks' = [marks EXCEPT ![m].pc = "ok"]
     \/ /\ Faulty
        /\ marks' = [marks EXCEPT ![m].pc = "error"]
        /\ UNCHANGED orders
  /\ UNCHANGED <<cart, checkouts, getCart, places, emptyCart, charges, txns, cache>>

(* The payment service's proxy has the reply, and caches it.               *)
ReplyMarkOrderPaid(t) ==
  /\ marks[t].pc = "ok"
  /\ charges[t].pc \in {"waitMark", "failing"}
  /\ marks' = [marks EXCEPT ![t].pc = "replied"]
  /\ cache' = [cache EXCEPT !.markPaid = @ \cup {<<marks[t].user, marks[t].order>>}]
  /\ UNCHANGED <<cart, checkouts, getCart, places, emptyCart, orders, charges, txns>>

-----------------------------------------------------------------------------
CheckoutStep(c) ==
  \/ CallGetCart(c) \/ AwaitGetCart(c)
  \/ CallPlaceOrder(c) \/ AwaitPlaceOrder(c)
  \/ CallCharge(c) \/ AwaitCharge(c)
  \/ CheckoutFails(c) \/ CheckoutReturnsError(c)

GetCartStep(c) == ServeGetCart(c) \/ ReplyGetCart(c)

PlaceStep(o) ==
  \/ PlaceInsert(o) \/ CallEmptyCart(o) \/ AwaitEmptyCart(o)
  \/ PlaceCommit(o) \/ PlaceFails(o) \/ PlaceReturnsError(o)

PlaceCallStep(o) == ServeEmptyCart(o) \/ ReplyEmptyCart(o) \/ ReplyPlaceOrder(o)

ChargeStep(t) ==
  \/ SaveTransaction(t) \/ CallMarkOrderPaid(t) \/ AwaitMarkOrderPaid(t)
  \/ ChargeFails(t) \/ ChargeReturnsError(t)

MarkStep(m) == MarkCheck(m) \/ MarkUpdate(m)

ClientStep ==
  \/ \E u \in User : AddItem(u) \/ DirectEmptyCart(u)
  \/ \E c \in Checkout, u \in User : CheckoutBegin(c, u)
  \/ \E o \in OrderId, u \in User, q \in Qty : DirectPlaceOrder(o, u, q)
  \/ \E t \in TxnId, u \in User, o \in OrderId, q \in Qty : DirectCharge(t, u, o, q)
  \/ \E m \in GatewayMark, u \in User, o \in OrderId : DirectMarkOrderPaid(m, u, o)

Next ==
  \/ ClientStep
  \/ Expire
  \/ \E c \in Checkout : CheckoutStep(c) \/ GetCartStep(c)
  \/ \E o \in OrderId : PlaceStep(o) \/ PlaceCallStep(o)
  \/ \E t \in TxnId : ChargeStep(t) \/ ReplyMarkOrderPaid(t)
  \/ \E m \in Marker : MarkStep(m)

Spec == Init /\ [][Next]_vars

(* hystrix's timer ends every wait of a checkout, whatever the services    *)
(* it called do: nothing is assumed of them.                               *)
AnswerSpec == Spec /\ \A c \in Checkout : WF_vars(CheckoutStep(c))

(* Running handlers and calls also make progress.  Clients need not act,   *)
(* and cached replies need not expire.                                     *)
LiveSpec ==
  /\ AnswerSpec
  /\ \A c \in Checkout : WF_vars(GetCartStep(c))
  /\ \A o \in OrderId : WF_vars(PlaceStep(o)) /\ WF_vars(PlaceCallStep(o))
  /\ \A t \in TxnId : WF_vars(ChargeStep(t)) /\ WF_vars(ReplyMarkOrderPaid(t))
  /\ \A m \in Marker : WF_vars(MarkStep(m))

-----------------------------------------------------------------------------
Placed(o) == orders[o].status # "NONE"
Paid(o)   == orders[o].status = "PAID"

(* A checkout answered with an order id and a transaction id has what it   *)
(* says: its own order, paid, and a transaction of the order's amount.     *)
(* Neither the cache nor an abandoned call may stand in for either.        *)
SuccessMeansPaid ==
  \A c \in Checkout : checkouts[c].pc = "ok" =>
    LET o == checkouts[c].order
        t == checkouts[c].txn
    IN  /\ Paid(o)
        /\ orders[o].user = checkouts[c].user
        /\ orders[o].amount = checkouts[c].qty
        /\ txns[t] = [order |-> o, user |-> checkouts[c].user, amount |-> checkouts[c].qty]

(* A cached MarkOrderPaid reply, which stands for the call for five        *)
(* minutes, is about an order that is and stays paid, by its own user.     *)
CachedMarkIsTrue ==
  \A u \in User, o \in OrderId :
    <<u, o>> \in cache.markPaid => Paid(o) /\ orders[o].user = u

(* A Charge that answered without error has marked the order, also when    *)
(* the answer to MarkOrderPaid came from the cache.                        *)
ChargedIsPaid ==
  \A t \in TxnId : charges[t].pc = "ok" => Paid(txns[t].order)

(* The orders table only grows, and a row only moves from CREATED to PAID: *)
(* no late commit or late update undoes or rewrites one.                   *)
OrdersOnlyAdvance ==
  [][\A o \in OrderId : Placed(o) =>
       /\ Placed(o)'
       /\ Paid(o) => Paid(o)'
       /\ orders'[o].user = orders[o].user
       /\ orders'[o].amount = orders[o].amount]_vars

(* When clients do not mark orders themselves, a paid order has a          *)
(* completed transaction of its user: no path through the cache or a stale *)
(* read marks an order nobody charged for.                                 *)
PaidWasCharged ==
  \A o \in OrderId : Paid(o) =>
    \E t \in TxnId : txns[t].order = o /\ txns[t].user = orders[o].user

(* Every checkout is answered, with ids or with an error, even when every  *)
(* service it called hangs.                                                *)
EveryCheckoutAnswered ==
  \A c \in Checkout :
    checkouts[c].pc # "idle" ~> checkouts[c].pc \in {"ok", "error"}

(* Without faults, an order placed by a checkout gets paid: no cached      *)
(* reply on the way from PlaceOrder to MarkOrderPaid stops the checkout.   *)
PlacedIsEventuallyPaid ==
  \A o \in OrderId : Placed(o) /\ places[o].by # None ~> Paid(o)

-----------------------------------------------------------------------------
(* The inductive invariant of the path, by the state it relates.           *)

Committed(o) == places[o].pc \in {"ok", "replied"}

(* A running call has a running caller, whose arguments it uses.           *)
CallsHaveCallers ==
  /\ \A c \in Checkout : getCart[c].pc # "idle" => checkouts[c].user \in User
  /\ \A o \in OrderId :
       /\ emptyCart[o] # "idle" => places[o].pc # "idle"
       /\ places[o].pc # "idle" => places[o].user \in User /\ places[o].qty \in Qty

(* The orders table holds what the committed handlers wrote.               *)
RowsAreCommitted ==
  \A o \in OrderId :
    /\ Placed(o) <=> Committed(o)
    /\ Placed(o) => orders[o].user = places[o].user /\ orders[o].amount = places[o].qty

(* A MarkOrderPaid past its check has found a row of its user; one that    *)
(* succeeded has left the row paid.                                        *)
MarksAreTrue ==
  \A m \in Marker :
    /\ marks[m].pc # "idle" => marks[m].user \in User /\ marks[m].order \in OrderId
    /\ marks[m].pc = "update" =>
         Placed(marks[m].order) /\ orders[marks[m].order].user = marks[m].user
    /\ marks[m].pc \in {"ok", "replied"} =>
         Paid(marks[m].order) /\ orders[marks[m].order].user = marks[m].user

(* A charge past its inserts has its transaction, and calls MarkOrderPaid  *)
(* for that; one that succeeded is of a paid order.                        *)
ChargeTxn(t) == [order |-> charges[t].order, user |-> charges[t].user, amount |-> charges[t].amount]

ChargesAreTrue ==
  \A t \in TxnId :
    /\ charges[t].pc # "idle" =>
         charges[t].user \in User /\ charges[t].order \in OrderId /\ charges[t].amount \in Qty
    /\ charges[t].pc \in {"idle", "save", "markPaid"} => marks[t].pc = "idle"
    /\ charges[t].pc \in {"markPaid", "waitMark", "ok"} => txns[t] = ChargeTxn(t)
    /\ marks[t].pc # "idle" =>
         /\ txns[t] = ChargeTxn(t)
         /\ marks[t].user = charges[t].user /\ marks[t].order = charges[t].order
    /\ charges[t].pc = "ok" =>
         Paid(charges[t].order) /\ orders[charges[t].order].user = charges[t].user

(* A checkout past PlaceOrder has a committed order of its own; past       *)
(* Charge, a charge of that order.                                         *)
CheckoutOrder(c) ==
  LET o == checkouts[c].order IN
  /\ o \in OrderId
  /\ places[o].pc # "idle"
  /\ places[o].user = checkouts[c].user
  /\ places[o].qty = checkouts[c].qty

CheckoutCharge(c) ==
  LET t == checkouts[c].txn IN
  /\ t \in TxnId
  /\ charges[t].pc # "idle"
  /\ ChargeTxn(t) = [order |-> checkouts[c].order, user |-> checkouts[c].user,
                     amount |-> checkouts[c].qty]

CheckoutsAreTrue ==
  \A c \in Checkout :
    /\ checkouts[c].pc # "idle" => checkouts[c].user \in User
    /\ checkouts[c].pc = "placeOrder" => checkouts[c].qty \in Qty
    /\ checkouts[c].pc \in {"waitOrder", "charge", "waitCharge", "ok"} => CheckoutOrder(c)
    /\ checkouts[c].pc \in {"charge", "waitCharge", "ok"} => Committed(checkouts[c].order)
    /\ checkouts[c].pc \in {"waitCharge", "ok"} => CheckoutCharge(c)
    /\ checkouts[c].pc = "ok" => charges[checkouts[c].txn].pc = "ok"

IndInv ==
  /\ TypeOK
  /\ CallsHaveCallers
  /\ RowsAreCommitted
  /\ MarksAreTrue
  /\ CachedMarkIsTrue
  /\ ChargesAreTrue
  /\ CheckoutsAreTrue

(* A transaction is its charge's, and there is none before the insert.     *)
TxnsAreCharged ==
  \A t \in TxnId :
    IF charges[t].pc \in {"idle", "save"} THEN txns[t] = NoTxn
                                        ELSE txns[t] \in {NoTxn, ChargeTxn(t)}

(* When clients mark no orders, marks come from transactions.              *)
PaidInv ==
  /\ \A g \in GatewayMark : marks[g].pc = "idle"
  /\ PaidWasCharged

(* An order that a checkout has placed is its only one, and it is of no    *)
(* other; the others were placed by clients.                               *)
OrdersAreOwned ==
  /\ \A o \in OrderId :
       /\ places[o].pc = "idle" => places[o].by = None
       /\ places[o].pc # "idle" => places[o].by # None \/ "PlaceOrder" \in Direct
       /\ places[o].by # None => checkouts[places[o].by].order = o
  /\ \A c \in Checkout :
       /\ checkouts[c].order # None => places[checkouts[c].order].by = c
       /\ checkouts[c].pc \in {"idle", "getCart", "waitCart", "placeOrder"} =>
            checkouts[c].order = None

(* A charge that a checkout has made is its only one, for its own order,   *)
(* once committed, and that order's user and amount.                       *)
ChargesAreOwned ==
  /\ \A t \in TxnId : LET c == charges[t].by IN
       /\ charges[t].pc = "idle" => c = None
       /\ charges[t].pc # "idle" => c # None \/ "Charge" \in Direct
       /\ c # None =>
            /\ checkouts[c].txn = t
            /\ checkouts[c].order = charges[t].order
            /\ Committed(charges[t].order)
            /\ charges[t].user = places[charges[t].order].user
            /\ charges[t].amount = places[charges[t].order].qty
  /\ \A c \in Checkout :
       checkouts[c].pc \in {"idle", "getCart", "waitCart", "placeOrder", "waitOrder", "charge"} =>
         checkouts[c].txn = None

(* Checkouts keep their orders and charges apart, from each other's and    *)
(* from those that clients make themselves.                                *)
OwnedInv == OrdersAreOwned /\ ChargesAreOwned

-----------------------------------------------------------------------------
(* What comments in the code say of these handlers, and the code does not  *)
(* do: each is refuted by a run of its own.                                *)

(* order_place.go:65 puts order and cart in one transaction "to keep the   *)
(* data consistent"; a rollback does not bring the cart back.              *)
FailedOrderLeavesCart ==
  \A o \in OrderId : places[o].pc = "error" => emptyCart[o] \notin {"ok", "replied"}

(* order_mark_paid.go:30 checks the status of the order, so that an order  *)
(* paid before is refused; its cached reply, and the gap between the check *)
(* and the update, let two charges of one order that clients make succeed. *)
(* Checkouts alone never charge an order twice: they do not rely on it.    *)
OneChargeSucceeds ==
  \A t, r \in TxnId :
    charges[t].pc = "ok" /\ charges[r].pc = "ok" /\ charges[t].order = charges[r].order => t = r

-----------------------------------------------------------------------------
(* What the purchase path promises, whichever routes clients use           *)
(* themselves.                                                             *)
Ledger == INSTANCE OrderLedger
  WITH placed  <- {o \in OrderId : Placed(o)},
       settled <- {o \in OrderId : Paid(o)},
       due     <- [o \in OrderId |-> [user |-> orders[o].user, amount |-> orders[o].amount]],
       payment <- txns

(* Checkouts and the clients of the services together implement the ledger *)
(* of orders and payments.                                                 *)
ImplementsLedger == Ledger!Spec
=============================================================================
