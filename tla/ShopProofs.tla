----------------------------- MODULE ShopProofs -----------------------------
(***************************************************************************)
(* Proofs about Shop, for any users, products, calls, checkouts and ids,   *)
(* any prices that are zero for an empty cart only, with or without        *)
(* faults.  CartProofs has shown that the cart service acts at an instant  *)
(* for each call; here these instants are steps that Purchase takes, so    *)
(* what PurchaseProofs proves holds with the real cart service in place.   *)
(***************************************************************************)
EXTENDS Shop, CartProofs

USE CartAssumption

(* Purchase again, with what is proved about it.                           *)
PP == INSTANCE PurchaseProofs
  WITH MaxQty    <- MaxAmount,
       cart      <- [u \in User |-> Amount[[p \in Product |-> Quantity(u, p)]]],
       getCart   <- [c \in Checkout |-> [pc  |-> Call(c),
                                         qty |-> Amount[[p \in Product |-> Listed(c, p)]]]],
       emptyCart <- [o \in OrderId |-> Call(o)]

(* What Purchase assumes of its constants.                                 *)
LEMMA PurchaseConstants ==
  /\ MaxAmount \in Nat \ {0}
  /\ None \notin User \cup Checkout \cup OrderId \cup TxnId
  /\ GatewayMark \cap TxnId = {}
  /\ Direct \subseteq PP!Routes
  /\ Faulty \in BOOLEAN
BY ShopAssumption DEF PP!Routes

(* Both instances are the same.                                            *)
LEMMA SameInit == P!Init => PP!Init
BY Zenon DEF P!Init, PP!Init, P!NoRow, PP!NoRow, P!NoTxn, PP!NoTxn, P!NoRequest, PP!NoRequest,
   P!Marker, PP!Marker

LEMMA SameNext == [P!Next]_(P!vars) => [PP!Next]_(PP!vars)
BY Zenon DEF P!AddItem, PP!AddItem, P!DirectEmptyCart, PP!DirectEmptyCart,
            P!Expire, PP!Expire, P!CheckoutBegin, PP!CheckoutBegin,
            P!CallGetCart, PP!CallGetCart, P!AwaitGetCart, PP!AwaitGetCart,
            P!CallPlaceOrder, PP!CallPlaceOrder, P!AwaitPlaceOrder,
            PP!AwaitPlaceOrder, P!CallCharge, PP!CallCharge, P!AwaitCharge,
            PP!AwaitCharge, P!CheckoutCallFailed, PP!CheckoutCallFailed,
            P!CheckoutFails, PP!CheckoutFails, P!CheckoutReturnsError,
            PP!CheckoutReturnsError, P!CheckoutListens, PP!CheckoutListens,
            P!ServeGetCart, PP!ServeGetCart, P!ReplyGetCart, PP!ReplyGetCart,
            P!ServeEmptyCart, PP!ServeEmptyCart, P!ReplyEmptyCart,
            PP!ReplyEmptyCart, P!DirectPlaceOrder, PP!DirectPlaceOrder,
            P!PlaceInsert, PP!PlaceInsert, P!CallEmptyCart, PP!CallEmptyCart,
            P!AwaitEmptyCart, PP!AwaitEmptyCart, P!PlaceCommit,
            PP!PlaceCommit, P!PlaceFails, PP!PlaceFails, P!PlaceReturnsError,
            PP!PlaceReturnsError, P!ReplyPlaceOrder, PP!ReplyPlaceOrder,
            P!DirectCharge, PP!DirectCharge, P!SaveTransaction,
            PP!SaveTransaction, P!CallMarkOrderPaid, PP!CallMarkOrderPaid,
            P!AwaitMarkOrderPaid, PP!AwaitMarkOrderPaid, P!ChargeFails,
            PP!ChargeFails, P!ChargeReturnsError, PP!ChargeReturnsError,
            P!DirectMarkOrderPaid, PP!DirectMarkOrderPaid, P!Payable,
            PP!Payable, P!MarkCheck, PP!MarkCheck, P!MarkUpdate,
            PP!MarkUpdate, P!ReplyMarkOrderPaid, PP!ReplyMarkOrderPaid,
            P!CheckoutStep, PP!CheckoutStep, P!GetCartStep, PP!GetCartStep,
            P!PlaceStep, PP!PlaceStep, P!PlaceCallStep, PP!PlaceCallStep,
            P!ChargeStep, PP!ChargeStep, P!MarkStep, PP!MarkStep,
            P!ClientStep, PP!ClientStep, P!Next, PP!Next, P!Qty, PP!Qty,
            P!Marker, PP!Marker, P!vars, PP!vars

LEMMA SameSuccess == PP!SuccessMeansPaid => P!SuccessMeansPaid
BY Zenon DEF P!SuccessMeansPaid, PP!SuccessMeansPaid, P!Paid, PP!Paid

-----------------------------------------------------------------------------
(* A call of a checkout or an order is made once, is what its caller asked *)
(* for, for the caller's user, and is answered when it has ended.          *)
CallsMatch ==
  /\ \A c \in Checkout :
       /\ checkouts[c].pc \in {"idle", "getCart"} => req[c].pc = "idle"
       /\ req[c].pc # "idle" => req[c].op = "get" /\ req[c].user = checkouts[c].user
  /\ \A o \in OrderId :
       /\ places[o].pc \in {"idle", "insert", "emptyCart"} => req[o].pc = "idle"
       /\ req[o].pc # "idle" => req[o].op = "empty" /\ req[o].user = places[o].user
  /\ \A r \in ClientCall : req[r].op = "empty" => "EmptyCart" \in Direct
  /\ answered \subseteq {r \in Checkout \cup OrderId : req[r].pc = "ok"}

(* The inductive invariant: the cart's tables are unique, calls are what   *)
(* their callers asked for, and callers have what Purchase says they have. *)
Inv == CartInv /\ CallsMatch /\ PP!IndInv

(* What Purchase takes for the cart and for the calls of it.               *)
CartOf     == [u \in User |-> Amount[[p \in Product |-> Quantity(u, p)]]]
GetCarts   == [c \in Checkout |-> [pc  |-> Call(c),
                                   qty |-> Amount[[p \in Product |-> Listed(c, p)]]]]
EmptyCarts == [o \in OrderId |-> Call(o)]

LEMMA Views ==
  /\ \A u \in User : CartOf[u] = Amount[InCarts[u]]
  /\ \A c \in Checkout : GetCarts[c] = [pc |-> Call(c), qty |-> Amount[Answers[c]]]
  /\ \A o \in OrderId : EmptyCarts[o] = Call(o)
<1>1. \A u \in User : InCarts[u] = [p \in Product |-> Quantity(u, p)]
  BY DEF InCarts
<1>2. \A c \in Checkout : Answers[c] = [p \in Product |-> Listed(c, p)]
  BY ShopAssumption, Zenon DEF Answers
<1> QED
  BY <1>1, <1>2 DEF CartOf, GetCarts, EmptyCarts

(* The same after a step.                                                  *)
LEMMA ViewsBecome ==
  /\ \A u \in User : CartOf'[u] = Amount[InCarts'[u]]
  /\ \A c \in Checkout : GetCarts'[c] = [pc |-> Call(c)', qty |-> Amount[Answers'[c]]]
  /\ \A o \in OrderId : EmptyCarts'[o] = Call(o)'
<1>1. (/\ \A u \in User : CartOf[u] = Amount[InCarts[u]]
       /\ \A c \in Checkout : GetCarts[c] = [pc |-> Call(c), qty |-> Amount[Answers[c]]]
       /\ \A o \in OrderId : EmptyCarts[o] = Call(o))'
  BY Views, PTL
<1> QED
  BY <1>1

(* What is in a cart, and what a GetCart lists, is a quantity per product. *)
LEMMA ContentsTyped ==
  ASSUME CartInv
  PROVE  InCarts \in [User -> [Product -> 0..MaxQty]]
<1>1. ASSUME NEW u \in User, NEW p \in Product
      PROVE  Quantity(u, p) \in 0..MaxQty
  <2>1. CASE Rows(u, p) = {}
    BY <2>1, QuantityIs
  <2>2. ASSUME NEW i \in Rows(u, p)
        PROVE  Quantity(u, p) \in 0..MaxQty
    <3>1. i \in DOMAIN items /\ items \in Seq(Item)
      BY DEF Rows, CartInv, TypeOK
    <3>2. items[i] \in Item
      BY <3>1
    <3>3. items[i].qty \in Qty
      BY <3>2 DEF Item
    <3> QED
      BY <3>3, QuantityIs DEF Qty
  <2> QED
    BY <2>1, <2>2
<1> QED
  BY <1>1 DEF InCarts

LEMMA ContentsBecomeTyped ==
  ASSUME CartInv'
  PROVE  InCarts' \in [User -> [Product -> 0..MaxQty]]
<1>1. (CartInv => InCarts \in [User -> [Product -> 0..MaxQty]])'
  BY ContentsTyped, PTL
<1> QED
  BY <1>1

(* An item in the cart costs something. *)
LEMMA ItemsCost ==
  ASSUME NEW held \in [Product -> 0..MaxQty], NEW p \in Product, held[p] # 0
  PROVE  Amount[held] \in P!Qty
<1>1. held # [z \in Product |-> 0]
  OBVIOUS
<1>2. Amount[held] \in 0..MaxAmount /\ Amount[held] # 0
  BY <1>1, ShopAssumption
<1> QED
  BY <1>2, ShopAssumption DEF P!Qty

LEMMA NothingCostsNothing == Amount[Contents!NoItems] = 0
<1>1. Contents!NoItems \in [Product -> 0..MaxQty]
  BY DEF Contents!NoItems
<1> QED
  BY <1>1, ShopAssumption DEF Contents!NoItems

-----------------------------------------------------------------------------
(* The steps of the cart service and of its clients.                       *)

(* A handler that steps is running and is then still running or ended.     *)
LEMMA StepMoves ==
  ASSUME CartInv, NEW r \in Request, Step(r)
  PROVE  /\ Running(r)
         /\ req'[r].pc # "idle"
         /\ req'[r].pc = "error" => Faulty
<1>1. req \in [Request -> ReqRec]
  BY DEF CartInv, TypeOK
<1>2. CASE FindCart(r)
  <2>1. req[r].op = "add" \/ req[r].op = "get" \/ req[r].op = "empty"
    BY <1>2, RunningHandler DEF FindCart, Running
  <2> QED
    BY <1>1, <1>2, <2>1 DEF FindCart, Running, ReqRec
<1>3. CASE CreateCart(r)
  BY <1>1, <1>3 DEF CreateCart, Running, ReqRec
<1>4. CASE FindItem(r)
  BY <1>1, <1>4 DEF FindItem, Running, ReqRec
<1>5. CASE WriteItem(r)
  BY <1>1, <1>5 DEF WriteItem, Running, ReqRec
<1>6. CASE ReadItems(r)
  BY <1>1, <1>6 DEF ReadItems, Running, ReqRec
<1>7. CASE DeleteItems(r)
  BY <1>1, <1>7 DEF DeleteItems, Running, ReqRec
<1>8. CASE Fail(r)
  BY <1>1, <1>8 DEF Fail, Running, ReqRec
<1> QED
  BY <1>2, <1>3, <1>4, <1>5, <1>6, <1>7, <1>8 DEF Step

(* A call that is answered acts; nothing else does.                        *)
LEMMA StepActs ==
  ASSUME CartInv, CartInv', NEW r \in Request, Step(r)
  PROVE  /\ req'[r].pc # "ok" => InCarts' = InCarts /\ Answers' = Answers
         /\ req'[r].pc = "ok" => Contents!Put(r) \/ Contents!Clear(r) \/ Contents!Read(r)
<1>1. req[r].pc # "ok"
  BY StepMoves DEF Running
<1>2. \A s \in Request \ {r} : req'[s].pc = req[s].pc
  BY StepKeepsCall
<1>3. Calls' = Calls
  BY StepKeepsCall, CallsStay
<1>4. [Contents!Next]_(Contents!vars)
  BY ContentsStep DEF Next
<1>5. \/ UNCHANGED <<InCarts, Answers, Acked>>
      \/ \E s \in Request : /\ s \notin Acked /\ Acked' = Acked \cup {s}
                            /\ Contents!Put(s) \/ Contents!Clear(s) \/ Contents!Read(s)
  BY <1>4 DEF Contents!Next, Contents!vars, Contents!Ask, Contents!Ack, InCarts, Answers, Acked
<1>6. CASE req'[r].pc # "ok"
  <2>1. Acked' = Acked
    BY <1>1, <1>2, <1>6, AckedStays
  <2> QED
    BY <1>5, <1>6, <2>1
<1>7. CASE req'[r].pc = "ok"
  <2>1. r \notin Acked /\ Acked' = Acked \cup {r}
    BY <1>1, <1>2, <1>7, AckedGrows
  <2> QED
    BY <1>5, <1>7, <2>1
<1> QED
  BY <1>6, <1>7

(* The same steps, as Purchase takes them. *)
LEMMA PurchaseStays ==
  ASSUME CartOf' = CartOf, GetCarts' = GetCarts, EmptyCarts' = EmptyCarts, UNCHANGED services
  PROVE  UNCHANGED P!vars
BY DEF P!vars, CartOf, GetCarts, EmptyCarts, services

LEMMA PurchaseAdds ==
  ASSUME NEW u \in User, NEW q \in P!Qty, CartOf' = [CartOf EXCEPT ![u] = q],
         GetCarts' = GetCarts, EmptyCarts' = EmptyCarts, UNCHANGED services
  PROVE  P!Next
<1>1. P!AddItem(u)
  BY DEF P!AddItem, CartOf, GetCarts, EmptyCarts, services
<1> QED
  BY <1>1 DEF P!Next, P!ClientStep

LEMMA PurchaseEmpties ==
  ASSUME NEW u \in User, "EmptyCart" \in Direct, CartOf' = [CartOf EXCEPT ![u] = 0],
         GetCarts' = GetCarts, EmptyCarts' = EmptyCarts, UNCHANGED services
  PROVE  P!Next
<1>1. P!DirectEmptyCart(u)
  BY DEF P!DirectEmptyCart, CartOf, GetCarts, EmptyCarts, services
<1> QED
  BY <1>1 DEF P!Next, P!ClientStep

LEMMA PurchaseServesGetCart ==
  ASSUME NEW c \in Checkout, GetCarts[c].pc = "run",
         \/ GetCarts' = [GetCarts EXCEPT ![c] = [pc |-> "ok", qty |-> CartOf[checkouts[c].user]]]
         \/ Faulty /\ GetCarts' = [GetCarts EXCEPT ![c].pc = "error"],
         CartOf' = CartOf, EmptyCarts' = EmptyCarts, UNCHANGED services
  PROVE  P!Next
<1>1. P!ServeGetCart(c)
  BY DEF P!ServeGetCart, CartOf, GetCarts, EmptyCarts, services
<1> QED
  BY <1>1 DEF P!Next, P!GetCartStep

LEMMA PurchaseServesEmptyCart ==
  ASSUME NEW o \in OrderId, EmptyCarts[o] = "run",
         \/ /\ CartOf' = [CartOf EXCEPT ![places[o].user] = 0]
            /\ EmptyCarts' = [EmptyCarts EXCEPT ![o] = "ok"]
         \/ /\ Faulty
            /\ EmptyCarts' = [EmptyCarts EXCEPT ![o] = "error"]
            /\ CartOf' = CartOf,
         GetCarts' = GetCarts, UNCHANGED services
  PROVE  P!Next
<1>1. P!ServeEmptyCart(o)
  BY DEF P!ServeEmptyCart, CartOf, GetCarts, EmptyCarts, services
<1> QED
  BY <1>1 DEF P!Next, P!PlaceCallStep

(* How the calls look to their callers after a step of one handler.        *)
LEMMA CallsLook ==
  ASSUME NEW r \in Request, \A s \in Request \ {r} : req'[s] = req[s], answered' = answered
  PROVE  \A s \in Request \ {r} : Call(s)' = Call(s)
BY DEF Call, Running

LEMMA StepLooks ==
  ASSUME CartInv, CallsMatch, NEW r \in Request, Step(r), answered' = answered
  PROVE  /\ Call(r) = "run"
         /\ Call(r)' \in {"run", "ok", "error"}
         /\ Call(r)' = "ok" <=> req'[r].pc = "ok"
         /\ Call(r)' = "error" => Faulty
         /\ \A s \in Request \ {r} : Call(s)' = Call(s)
<1>1. Running(r) /\ req'[r].pc # "idle" /\ (req'[r].pc = "error" => Faulty)
  BY StepMoves
<1>2. r \notin answered'
  BY <1>1 DEF CallsMatch, Running
<1> QED
  BY <1>1, <1>2, StepKeepsCall, CallsLook DEF Call, Running

(* Prices follow the contents and the answers. *)
LEMMA PricesStay ==
  /\ InCarts' = InCarts => CartOf' = CartOf
  /\ Answers' = Answers /\ (\A c \in Checkout : Call(c)' = Call(c)) => GetCarts' = GetCarts
  /\ (\A o \in OrderId : Call(o)' = Call(o)) => EmptyCarts' = EmptyCarts
<1>1. CartOf = [u \in User |-> CartOf[u]] /\ CartOf' = [u \in User |-> CartOf'[u]]
  BY DEF CartOf
<1>2. GetCarts = [c \in Checkout |-> GetCarts[c]] /\ GetCarts' = [c \in Checkout |-> GetCarts'[c]]
  BY DEF GetCarts
<1>3. EmptyCarts = [o \in OrderId |-> Call(o)] /\ EmptyCarts' = [o \in OrderId |-> Call(o)']
  BY DEF EmptyCarts
<1>4. InCarts' = InCarts => CartOf' = CartOf
  BY <1>1, Views, ViewsBecome
<1>5. Answers' = Answers /\ (\A c \in Checkout : Call(c)' = Call(c)) => GetCarts' = GetCarts
  BY <1>2, Views, ViewsBecome
<1> QED
  BY <1>3, <1>4, <1>5

(* What the actions of the contents do, call by call. *)
LEMMA ActsMean ==
  ASSUME NEW r \in Request
  PROVE  /\ Contents!Put(r) =>
              /\ req[r].op = "add" /\ Answers' = Answers
              /\ InCarts' = [InCarts EXCEPT ![req[r].user][req[r].product] = req[r].qty]
         /\ Contents!Clear(r) =>
              /\ req[r].op = "empty" /\ Answers' = Answers
              /\ InCarts' = [InCarts EXCEPT ![req[r].user] = Contents!NoItems]
         /\ Contents!Read(r) =>
              /\ req[r].op = "get" /\ InCarts' = InCarts
              /\ Answers' = [Answers EXCEPT ![r] = InCarts[req[r].user]]
<1>1. Calls[r].op = req[r].op /\ Calls[r].user = req[r].user
      /\ Calls[r].product = req[r].product /\ Calls[r].qty = req[r].qty
  BY DEF Calls
<1>2. Contents!Put(r) =>
        /\ Calls[r].op = "add" /\ Answers' = Answers
        /\ InCarts' = [InCarts EXCEPT ![Calls[r].user][Calls[r].product] = Calls[r].qty]
  BY Zenon DEF Contents!Put, Calls, InCarts, Answers
<1>3. Contents!Clear(r) =>
        /\ Calls[r].op = "empty" /\ Answers' = Answers
        /\ InCarts' = [InCarts EXCEPT ![Calls[r].user] = Contents!NoItems]
  BY Zenon DEF Contents!Clear, Calls, InCarts, Answers
<1>4. Contents!Read(r) =>
        /\ Calls[r].op = "get" /\ InCarts' = InCarts
        /\ Answers' = [Answers EXCEPT ![r] = InCarts[Calls[r].user]]
  BY Zenon DEF Contents!Read, Calls, InCarts, Answers
<1> QED
  BY <1>1, <1>2, <1>3, <1>4

(* One user's cart is put something in, or emptied. *)
LEMMA PutPrices ==
  ASSUME CartInv, CartInv', NEW u \in User, NEW p \in Product, NEW q \in Qty,
         InCarts' = [InCarts EXCEPT ![u][p] = q]
  PROVE  \E n \in P!Qty : CartOf' = [CartOf EXCEPT ![u] = n]
<1>1. InCarts \in [User -> [Product -> 0..MaxQty]] /\ InCarts' \in [User -> [Product -> 0..MaxQty]]
  BY ContentsTyped, ContentsBecomeTyped
<1>2. InCarts'[u][p] = q /\ q # 0
  BY <1>1 DEF Qty
<1>3. Amount[InCarts'[u]] \in P!Qty
  BY <1>1, <1>2, ItemsCost
<1>4. \A v \in User \ {u} : InCarts'[v] = InCarts[v]
  BY <1>1
<1>5. \A v \in User : CartOf'[v] = IF v = u THEN Amount[InCarts'[u]] ELSE CartOf[v]
  BY <1>4, Views, ViewsBecome
<1>6. CartOf' = [CartOf EXCEPT ![u] = Amount[InCarts'[u]]]
  <2>1. CartOf = [v \in User |-> CartOf[v]] /\ CartOf' = [v \in User |-> CartOf'[v]]
    BY DEF CartOf
  <2> QED
    BY <1>5, <2>1
<1> QED
  BY <1>3, <1>6

LEMMA ClearPrices ==
  ASSUME NEW u \in User, InCarts' = [InCarts EXCEPT ![u] = Contents!NoItems]
  PROVE  CartOf' = [CartOf EXCEPT ![u] = 0]
<1>1. InCarts = [v \in User |-> InCarts[v]]
  BY DEF InCarts
<1>2. \A v \in User : InCarts'[v] = IF v = u THEN Contents!NoItems ELSE InCarts[v]
  BY <1>1
<1>3. \A v \in User : CartOf'[v] = IF v = u THEN 0 ELSE CartOf[v]
  BY <1>2, NothingCostsNothing, Views, ViewsBecome
<1>4. CartOf = [v \in User |-> CartOf[v]] /\ CartOf' = [v \in User |-> CartOf'[v]]
  BY DEF CartOf
<1> QED
  BY <1>3, <1>4

(* A GetCart reads the price of its user's cart. *)
LEMMA ReadPrices ==
  ASSUME NEW c \in Checkout, NEW u \in User, Call(c)' = "ok",
         \A d \in Checkout \ {c} : Call(d)' = Call(d),
         Answers' = [Answers EXCEPT ![c] = InCarts[u]]
  PROVE  GetCarts' = [GetCarts EXCEPT ![c] = [pc |-> "ok", qty |-> CartOf[u]]]
<1>1. c \in Request /\ Answers = [r \in Request |-> Answers[r]]
  BY ShopAssumption DEF Answers
<1>2. \A d \in Checkout : Answers'[d] = IF d = c THEN InCarts[u] ELSE Answers[d]
  <2>1. \A r \in Request : Answers'[r] = IF r = c THEN InCarts[u] ELSE Answers[r]
    BY <1>1
  <2>2. \A d \in Checkout : d \in Request
    BY ShopAssumption
  <2> QED
    BY <2>1, <2>2, Zenon
<1>3. \A d \in Checkout : GetCarts'[d] = IF d = c THEN [pc |-> "ok", qty |-> CartOf[u]]
                                                 ELSE GetCarts[d]
  <2>1. GetCarts'[c] = [pc |-> "ok", qty |-> Amount[InCarts[u]]]
    BY <1>2, ViewsBecome
  <2>2. ASSUME NEW d \in Checkout \ {c}
        PROVE  GetCarts'[d] = GetCarts[d]
    <3>1. Answers'[d] = Answers[d] /\ Call(d)' = Call(d)
      BY <1>2
    <3>2. GetCarts'[d] = [pc |-> Call(d)', qty |-> Amount[Answers'[d]]]
      BY ViewsBecome
    <3>3. GetCarts[d] = [pc |-> Call(d), qty |-> Amount[Answers[d]]]
      BY Views
    <3> QED
      BY <3>1, <3>2, <3>3
  <2> QED
    BY <2>1, <2>2, Views
<1>4. /\ GetCarts = [d \in Checkout |-> GetCarts[d]]
      /\ GetCarts' = [d \in Checkout |-> GetCarts'[d]]
  BY DEF GetCarts
<1> QED
  BY <1>3, <1>4

(* Nothing that the purchase path sees changes when a handler goes on, or  *)
(* answers a client's GetCart.                                             *)
LEMMA QuietCartStep ==
  ASSUME CartInv, CartInv', CallsMatch, NEW r \in Request, CartStep(r),
         Call(r)' = "run" \/ (r \in ClientCall /\ (Call(r)' = "ok" => req[r].op = "get"))
  PROVE  UNCHANGED P!vars
<1>1. Step(r) /\ UNCHANGED services /\ answered' = answered
  BY DEF CartStep
<1>2. /\ Call(r) = "run"
      /\ Call(r)' \in {"run", "ok", "error"}
      /\ Call(r)' = "ok" <=> req'[r].pc = "ok"
      /\ \A s \in Request \ {r} : Call(s)' = Call(s)
  BY <1>1, StepLooks
<1>3. \A s \in Checkout \cup OrderId : Call(s)' = Call(s)
  BY <1>2, ShopAssumption DEF ClientCall
<1>4. InCarts' = InCarts /\ \A s \in Checkout : Answers'[s] = Answers[s]
  <2>1. CASE Call(r)' # "ok"
    BY <1>1, <1>2, <2>1, StepActs
  <2>2. CASE Call(r)' = "ok"
    <3>1. InCarts' = InCarts /\ Answers' = [Answers EXCEPT ![r] = InCarts[req[r].user]]
      BY <1>1, <1>2, <2>2, StepActs, ActsMean
    <3>2. r \notin Checkout
      BY <1>2, <2>2 DEF ClientCall
    <3> QED
      BY <3>1, <3>2
  <2> QED
    BY <2>1, <2>2
<1>5. GetCarts' = GetCarts
  <2>1. ASSUME NEW c \in Checkout
        PROVE  GetCarts'[c] = GetCarts[c]
    <3>1. GetCarts'[c] = [pc |-> Call(c)', qty |-> Amount[Answers'[c]]]
      BY ViewsBecome
    <3>2. GetCarts[c] = [pc |-> Call(c), qty |-> Amount[Answers[c]]]
      BY Views
    <3> QED
      BY <1>3, <1>4, <3>1, <3>2
  <2>2. /\ GetCarts = [c \in Checkout |-> GetCarts[c]]
        /\ GetCarts' = [c \in Checkout |-> GetCarts'[c]]
    BY DEF GetCarts
  <2> QED
    BY <2>1, <2>2
<1> QED
  BY <1>1, <1>3, <1>4, <1>5, PricesStay, PurchaseStays

(* A client's AddItem or EmptyCart takes effect. *)
LEMMA ClientCartStep ==
  ASSUME CartInv, CartInv', CallsMatch, NEW r \in ClientCall, CartStep(r), Call(r)' = "ok",
         req[r].op # "get"
  PROVE  P!Next
<1>1. Step(r) /\ UNCHANGED services /\ answered' = answered /\ r \in Request
  BY DEF CartStep, ClientCall
<1>2. /\ req'[r].pc = "ok"
      /\ \A s \in Request \ {r} : Call(s)' = Call(s)
  BY <1>1, StepLooks
<1>3. \A s \in Checkout \cup OrderId : Call(s)' = Call(s)
  BY <1>2, ShopAssumption DEF ClientCall
<1>4. \/ Contents!Put(r) \/ Contents!Clear(r) \/ Contents!Read(r)
  BY <1>1, <1>2, StepActs
<1>5. Answers' = Answers
  BY <1>1, <1>4, ActsMean
<1>6. GetCarts' = GetCarts /\ EmptyCarts' = EmptyCarts
  BY <1>3, <1>5, PricesStay
<1>7. req[r].user \in User /\ (req[r].op = "add" => req[r].product \in Product /\ req[r].qty \in Qty)
  BY <1>1, StepMoves DEF Running, CartInv, HandlersAreAsked
<1>8. CASE Contents!Put(r)
  <2>1. /\ req[r].op = "add"
        /\ InCarts' = [InCarts EXCEPT ![req[r].user][req[r].product] = req[r].qty]
    BY <1>1, <1>8, ActsMean
  <2>2. PICK n \in P!Qty : CartOf' = [CartOf EXCEPT ![req[r].user] = n]
    BY <1>7, <2>1, PutPrices
  <2> QED
    BY <1>1, <1>6, <1>7, <2>2, PurchaseAdds
<1>9. CASE Contents!Clear(r)
  <2>1. /\ req[r].op = "empty"
        /\ InCarts' = [InCarts EXCEPT ![req[r].user] = Contents!NoItems]
    BY <1>1, <1>9, ActsMean
  <2>2. CartOf' = [CartOf EXCEPT ![req[r].user] = 0]
    BY <1>7, <2>1, ClearPrices
  <2>3. "EmptyCart" \in Direct
    BY <2>1 DEF CallsMatch
  <2> QED
    BY <1>1, <1>6, <1>7, <2>2, <2>3, PurchaseEmpties
<1> QED
  BY <1>1, <1>4, <1>8, <1>9, ActsMean

(* A checkout's GetCart is served. *)
LEMMA ServedGetCart ==
  ASSUME CartInv, CartInv', CallsMatch, NEW c \in Checkout, CartStep(c), Call(c)' # "run"
  PROVE  P!Next
<1>1. Step(c) /\ UNCHANGED services /\ answered' = answered /\ c \in Request
  BY ShopAssumption DEF CartStep
<1>2. /\ Call(c) = "run"
      /\ Call(c)' \in {"run", "ok", "error"}
      /\ Call(c)' = "ok" <=> req'[c].pc = "ok"
      /\ Call(c)' = "error" => Faulty
      /\ \A s \in Request \ {c} : Call(s)' = Call(s)
  BY <1>1, StepLooks
<1>3. /\ \A d \in Checkout \ {c} : Call(d)' = Call(d)
      /\ \A o \in OrderId : Call(o)' = Call(o)
  BY <1>2, ShopAssumption
<1>4. EmptyCarts' = EmptyCarts /\ GetCarts[c].pc = "run"
  <2>1. GetCarts[c] = [pc |-> Call(c), qty |-> Amount[Answers[c]]]
    BY Views
  <2> QED
    BY <1>2, <1>3, <2>1, PricesStay
<1>5. req[c].op = "get" /\ req[c].user = checkouts[c].user /\ req[c].user \in User
  BY <1>1, StepMoves DEF Running, CartInv, HandlersAreAsked, CallsMatch
<1>6. CASE Call(c)' = "ok"
  <2>1. /\ InCarts' = InCarts
        /\ Answers' = [Answers EXCEPT ![c] = InCarts[req[c].user]]
    BY <1>1, <1>2, <1>5, <1>6, StepActs, ActsMean
  <2>2. GetCarts' = [GetCarts EXCEPT ![c] = [pc |-> "ok", qty |-> CartOf[checkouts[c].user]]]
    BY <1>3, <1>5, <1>6, <2>1, ReadPrices
  <2> QED
    BY <1>1, <1>4, <2>1, <2>2, PricesStay, PurchaseServesGetCart
<1>7. CASE Call(c)' = "error"
  <2>1. InCarts' = InCarts /\ Answers' = Answers
    BY <1>1, <1>2, <1>7, StepActs
  <2>2. GetCarts' = [GetCarts EXCEPT ![c].pc = "error"]
    <3>1. ASSUME NEW d \in Checkout
          PROVE  GetCarts'[d] = [pc |-> IF d = c THEN "error" ELSE GetCarts[d].pc,
                                 qty |-> GetCarts[d].qty]
      <4>1. GetCarts'[d] = [pc |-> Call(d)', qty |-> Amount[Answers'[d]]]
        BY ViewsBecome
      <4>2. GetCarts[d] = [pc |-> Call(d), qty |-> Amount[Answers[d]]]
        BY Views
      <4> QED
        BY <1>3, <1>7, <2>1, <4>1, <4>2
    <3>2. /\ GetCarts = [d \in Checkout |-> [pc |-> GetCarts[d].pc, qty |-> GetCarts[d].qty]]
          /\ GetCarts' = [d \in Checkout |-> GetCarts'[d]]
      BY DEF GetCarts
    <3> QED
      BY <3>1, <3>2
  <2> QED
    BY <1>1, <1>2, <1>4, <1>7, <2>1, <2>2, PricesStay, PurchaseServesGetCart
<1> QED
  BY <1>2, <1>6, <1>7

(* An order's EmptyCart is served. *)
LEMMA ServedEmptyCart ==
  ASSUME CartInv, CartInv', CallsMatch, NEW o \in OrderId, CartStep(o), Call(o)' # "run"
  PROVE  P!Next
<1>1. Step(o) /\ UNCHANGED services /\ answered' = answered /\ o \in Request
  BY ShopAssumption DEF CartStep
<1>2. /\ Call(o) = "run"
      /\ Call(o)' \in {"run", "ok", "error"}
      /\ Call(o)' = "ok" <=> req'[o].pc = "ok"
      /\ Call(o)' = "error" => Faulty
      /\ \A s \in Request \ {o} : Call(s)' = Call(s)
  BY <1>1, StepLooks
<1>3. /\ \A z \in OrderId \ {o} : Call(z)' = Call(z)
      /\ \A c \in Checkout : Call(c)' = Call(c)
  BY <1>2, ShopAssumption
<1>4. EmptyCarts[o] = "run" /\ EmptyCarts' = [EmptyCarts EXCEPT ![o] = Call(o)']
  BY <1>2, <1>3 DEF EmptyCarts
<1>5. req[o].op = "empty" /\ req[o].user = places[o].user /\ req[o].user \in User
  BY <1>1, StepMoves DEF Running, CartInv, HandlersAreAsked, CallsMatch
<1>6. CASE Call(o)' = "ok"
  <2>1. /\ Answers' = Answers
        /\ InCarts' = [InCarts EXCEPT ![req[o].user] = Contents!NoItems]
    BY <1>1, <1>2, <1>5, <1>6, StepActs, ActsMean
  <2>2. CartOf' = [CartOf EXCEPT ![places[o].user] = 0]
    BY <1>5, <2>1, ClearPrices
  <2> QED
    BY <1>1, <1>3, <1>4, <1>6, <2>1, <2>2, PricesStay, PurchaseServesEmptyCart
<1>7. CASE Call(o)' = "error"
  <2>1. InCarts' = InCarts /\ Answers' = Answers
    BY <1>1, <1>2, <1>7, StepActs
  <2> QED
    BY <1>1, <1>2, <1>3, <1>4, <1>7, <2>1, PricesStay, PurchaseServesEmptyCart
<1> QED
  BY <1>2, <1>6, <1>7

(* All steps of the cart service together. *)
LEMMA CartStepIsPurchase ==
  ASSUME CartInv, CartInv', CallsMatch, NEW r \in Request, CartStep(r)
  PROVE  P!Next \/ UNCHANGED P!vars
<1>1. CASE Call(r)' = "run"
  BY <1>1, QuietCartStep
<1>2. CASE r \in ClientCall
  BY <1>2, QuietCartStep, ClientCartStep
<1>3. CASE r \in Checkout /\ Call(r)' # "run"
  BY <1>3, ServedGetCart
<1>4. CASE r \in OrderId /\ Call(r)' # "run"
  BY <1>4, ServedEmptyCart
<1> QED
  BY <1>1, <1>2, <1>3, <1>4 DEF ClientCall

(* A client's call arrives: the purchase path sees nothing of it. *)
LEMMA ClientCallArrives ==
  ASSUME CartInv, NEW r \in ClientCall, NEW op, NEW u, NEW p, NEW q,
         ClientAdds(r, u, p, q) \/ ClientCalls(r, op, u)
  PROVE  UNCHANGED P!vars
<1>1. /\ UNCHANGED <<carts, items>> /\ UNCHANGED services /\ answered' = answered
      /\ BeginAdd(r, u, p, q) \/ Begin(r, op, u)
  BY DEF ClientAdds, ClientCalls, BeginAdd, Begin
<1>2. r \in Request /\ req \in [Request -> ReqRec]
  BY DEF ClientCall, CartInv, TypeOK
<1>3. /\ \A s \in Request \ {r} : req'[s] = req[s]
      /\ req'[r].reply = req[r].reply
  <2>1. CASE BeginAdd(r, u, p, q)
    BY <1>2, <2>1 DEF BeginAdd, ReqRec
  <2>2. CASE Begin(r, op, u)
    BY <1>2, <2>2 DEF Begin, ReqRec
  <2> QED
    BY <1>1, <2>1, <2>2
<1>4. InCarts' = InCarts /\ Answers' = Answers
  BY <1>1, <1>3, InCartsStay, AnswersStay
<1>5. \A s \in Checkout \cup OrderId : Call(s)' = Call(s)
  BY <1>1, <1>2, <1>3, CallsLook, ShopAssumption DEF ClientCall
<1> QED
  BY <1>1, <1>4, <1>5, PricesStay, PurchaseStays

(* Every step of the shop is one of Purchase's, or changes nothing of it.  *)
LEMMA ShopStep ==
  ASSUME Inv, CartInv', [ShopNext]_shopVars
  PROVE  [P!Next]_(P!vars)
<1>1. CartInv /\ CallsMatch
  BY DEF Inv
<1>2. ASSUME NEW r \in ClientCall, NEW u \in User, NEW p \in Product, NEW q \in 0..MaxQty,
             ClientAdds(r, u, p, q)
      PROVE  UNCHANGED P!vars
  BY <1>1, <1>2, ClientCallArrives
<1>3. ASSUME NEW r \in ClientCall, NEW u \in User, NEW op \in {"get", "empty"},
             ClientCalls(r, op, u)
      PROVE  UNCHANGED P!vars
  BY <1>1, <1>3, ClientCallArrives
<1>4. ASSUME NEW r \in Request, CartStep(r)
      PROVE  P!Next \/ UNCHANGED P!vars
  BY <1>1, <1>4, CartStepIsPurchase
<1>5. ASSUME NEW c \in Checkout, CallGetCart(c) \/ ReplyGetCart(c)
      PROVE  P!Next
  BY <1>5 DEF CallGetCart, ReplyGetCart, P!Next, P!CheckoutStep, P!GetCartStep
<1>6. ASSUME NEW o \in OrderId, CallEmptyCart(o) \/ ReplyEmptyCart(o)
      PROVE  P!Next
  BY <1>6 DEF CallEmptyCart, ReplyEmptyCart, P!Next, P!PlaceStep, P!PlaceCallStep
<1>7. CASE ServiceStep
  BY <1>7 DEF ServiceStep
<1>8. CASE UNCHANGED shopVars
  <2>1. UNCHANGED <<carts, items>> /\ req' = req /\ answered' = answered /\ UNCHANGED services
    BY <1>8 DEF shopVars, vars
  <2>2. InCarts' = InCarts /\ Answers' = Answers
    BY <2>1, InCartsStay, AnswersStay
  <2>3. \A r \in Request : Call(r)' = Call(r)
    BY <2>1 DEF Call, Running
  <2> QED
    BY <2>1, <2>2, <2>3, PricesStay, PurchaseStays, ShopAssumption
<1> QED
  BY <1>2, <1>3, <1>4, <1>5, <1>6, <1>7, <1>8 DEF ShopNext

-----------------------------------------------------------------------------
(* The invariant. *)

(* A caller that has not called yet has not called before, and keeps the   *)
(* user it is working for.                                                 *)
CallersMove ==
  /\ \A c \in Checkout :
       /\ checkouts'[c].pc \in {"idle", "getCart"} => checkouts[c].pc \in {"idle", "getCart"}
       /\ checkouts[c].pc # "idle" => checkouts'[c].user = checkouts[c].user
  /\ \A o \in OrderId :
       /\ places'[o].pc \in {"idle", "insert", "emptyCart"} =>
            places[o].pc \in {"idle", "insert", "emptyCart"}
       /\ places[o].pc # "idle" => places'[o].user = places[o].user

LEMMA CallersStay ==
  ASSUME UNCHANGED <<checkouts, places>>
  PROVE  CallersMove
BY DEF CallersMove

LEMMA CheckoutCallersMove ==
  ASSUME PP!TypeOK, NEW c \in Checkout, PP!CheckoutStep(c)
  PROVE  CallersMove
<1>1. checkouts \in [Checkout -> PP!CheckoutRec] /\ places \in [OrderId -> PP!PlaceRec]
  BY DEF PP!TypeOK
<1>2. CASE PP!CallGetCart(c)
  BY <1>1, <1>2 DEF PP!CallGetCart, CallersMove, PP!CheckoutRec
<1>3. CASE PP!AwaitGetCart(c)
  BY <1>1, <1>3 DEF PP!AwaitGetCart, CallersMove, PP!CheckoutRec
<1>4. CASE PP!CallPlaceOrder(c)
  BY <1>1, <1>4 DEF PP!CallPlaceOrder, CallersMove, PP!CheckoutRec, PP!PlaceRec
<1>5. CASE PP!AwaitPlaceOrder(c)
  BY <1>1, <1>5 DEF PP!AwaitPlaceOrder, CallersMove, PP!CheckoutRec
<1>6. CASE PP!CallCharge(c)
  BY <1>1, <1>6 DEF PP!CallCharge, CallersMove, PP!CheckoutRec
<1>7. CASE PP!AwaitCharge(c)
  BY <1>1, <1>7 DEF PP!AwaitCharge, CallersMove, PP!CheckoutRec
<1>8. CASE PP!CheckoutFails(c)
  BY <1>1, <1>8 DEF PP!CheckoutFails, CallersMove, PP!CheckoutRec
<1>9. CASE PP!CheckoutReturnsError(c)
  BY <1>1, <1>9 DEF PP!CheckoutReturnsError, CallersMove, PP!CheckoutRec
<1> QED
  BY <1>2, <1>3, <1>4, <1>5, <1>6, <1>7, <1>8, <1>9 DEF PP!CheckoutStep

LEMMA PlaceCallersMove ==
  ASSUME PP!TypeOK, NEW o \in OrderId, PP!PlaceStep(o) \/ PP!PlaceCallStep(o)
  PROVE  CallersMove
<1>1. places \in [OrderId -> PP!PlaceRec]
  BY DEF PP!TypeOK
<1>2. CASE PP!PlaceInsert(o)
  BY <1>1, <1>2 DEF PP!PlaceInsert, CallersMove, PP!PlaceRec
<1>3. CASE PP!CallEmptyCart(o)
  BY <1>1, <1>3 DEF PP!CallEmptyCart, CallersMove, PP!PlaceRec
<1>4. CASE PP!AwaitEmptyCart(o)
  BY <1>1, <1>4 DEF PP!AwaitEmptyCart, CallersMove, PP!PlaceRec
<1>5. CASE PP!PlaceCommit(o)
  BY <1>1, <1>5 DEF PP!PlaceCommit, CallersMove, PP!PlaceRec
<1>6. CASE PP!PlaceFails(o)
  BY <1>1, <1>6 DEF PP!PlaceFails, CallersMove, PP!PlaceRec
<1>7. CASE PP!PlaceReturnsError(o)
  BY <1>1, <1>7 DEF PP!PlaceReturnsError, CallersMove, PP!PlaceRec
<1>8. CASE PP!ServeEmptyCart(o)
  BY <1>8, CallersStay DEF PP!ServeEmptyCart
<1>9. CASE PP!ReplyEmptyCart(o)
  BY <1>9, CallersStay DEF PP!ReplyEmptyCart
<1>10. CASE PP!ReplyPlaceOrder(o)
  BY <1>1, <1>10 DEF PP!ReplyPlaceOrder, CallersMove, PP!PlaceRec
<1> QED
  BY <1>2, <1>3, <1>4, <1>5, <1>6, <1>7, <1>8, <1>9, <1>10 DEF PP!PlaceStep, PP!PlaceCallStep

LEMMA ClientCallersMove ==
  ASSUME PP!TypeOK, PP!ClientStep
  PROVE  CallersMove
<1>1. checkouts \in [Checkout -> PP!CheckoutRec] /\ places \in [OrderId -> PP!PlaceRec]
  BY DEF PP!TypeOK
<1>2. ASSUME NEW u \in User, PP!AddItem(u) \/ PP!DirectEmptyCart(u)
      PROVE  CallersMove
  BY <1>2, CallersStay DEF PP!AddItem, PP!DirectEmptyCart
<1>3. ASSUME NEW c \in Checkout, NEW u \in User, PP!CheckoutBegin(c, u)
      PROVE  CallersMove
  BY <1>1, <1>3 DEF PP!CheckoutBegin, CallersMove, PP!CheckoutRec
<1>4. ASSUME NEW o \in OrderId, NEW u \in User, NEW q \in PP!Qty, PP!DirectPlaceOrder(o, u, q)
      PROVE  CallersMove
  BY <1>1, <1>4 DEF PP!DirectPlaceOrder, CallersMove, PP!PlaceRec
<1>5. ASSUME NEW t \in TxnId, NEW u \in User, NEW o \in OrderId, NEW q \in PP!Qty,
             PP!DirectCharge(t, u, o, q)
      PROVE  CallersMove
  BY <1>5, CallersStay DEF PP!DirectCharge
<1>6. ASSUME NEW m \in GatewayMark, NEW u \in User, NEW o \in OrderId,
             PP!DirectMarkOrderPaid(m, u, o)
      PROVE  CallersMove
  BY <1>6, CallersStay DEF PP!DirectMarkOrderPaid
<1> QED
  BY <1>2, <1>3, <1>4, <1>5, <1>6 DEF PP!ClientStep

LEMMA PurchaseCallersMove ==
  ASSUME PP!TypeOK, [PP!Next]_(PP!vars)
  PROVE  CallersMove
<1>1. CASE UNCHANGED PP!vars
  BY <1>1, CallersStay DEF PP!vars
<1>2. CASE PP!ClientStep
  BY <1>2, ClientCallersMove
<1>3. CASE PP!Expire
  BY <1>3, CallersStay DEF PP!Expire
<1>4. ASSUME NEW c \in Checkout, PP!CheckoutStep(c)
      PROVE  CallersMove
  BY <1>4, CheckoutCallersMove
<1>5. ASSUME NEW c \in Checkout, PP!GetCartStep(c)
      PROVE  CallersMove
  BY <1>5, CallersStay DEF PP!GetCartStep, PP!ServeGetCart, PP!ReplyGetCart
<1>6. ASSUME NEW o \in OrderId, PP!PlaceStep(o) \/ PP!PlaceCallStep(o)
      PROVE  CallersMove
  BY <1>6, PlaceCallersMove
<1>7. ASSUME NEW t \in TxnId, PP!ChargeStep(t) \/ PP!ReplyMarkOrderPaid(t)
      PROVE  CallersMove
  BY <1>7, CallersStay DEF PP!ChargeStep, PP!SaveTransaction, PP!CallMarkOrderPaid,
     PP!AwaitMarkOrderPaid, PP!ChargeFails, PP!ChargeReturnsError, PP!ReplyMarkOrderPaid
<1>8. ASSUME NEW m \in PP!Marker, PP!MarkStep(m)
      PROVE  CallersMove
  BY <1>8, CallersStay DEF PP!MarkStep, PP!MarkCheck, PP!MarkUpdate
<1> QED
  BY <1>1, <1>2, <1>3, <1>4, <1>5, <1>6, <1>7, <1>8 DEF PP!Next

(* A call of the cart service is for a user.                               *)
LEMMA CallersHaveUsers ==
  ASSUME Inv
  PROVE  /\ \A c \in Checkout : checkouts[c].pc # "idle" => checkouts[c].user \in User
         /\ \A o \in OrderId : places[o].pc # "idle" => places[o].user \in User
BY DEF Inv, PP!IndInv, PP!CheckoutsAreTrue, PP!CallsHaveCallers

(* To the cart service, every step of the shop is one of its own.          *)
LEMMA ShopIsCart ==
  ASSUME Inv, [ShopNext]_shopVars
  PROVE  [Next]_vars
<1>1. ASSUME NEW r \in ClientCall, NEW u \in User, NEW p \in Product, NEW q \in 0..MaxQty,
             ClientAdds(r, u, p, q)
      PROVE  Next
  BY <1>1 DEF ClientAdds, ClientCall, Next
<1>2. ASSUME NEW r \in ClientCall, NEW u \in User, NEW op \in {"get", "empty"},
             ClientCalls(r, op, u)
      PROVE  Next
  BY <1>2 DEF ClientCalls, ClientCall, Next
<1>3. ASSUME NEW r \in Request, CartStep(r)
      PROVE  Next
  BY <1>3 DEF CartStep, Next
<1>4. ASSUME NEW c \in Checkout, CallGetCart(c)
      PROVE  Next
  <2>1. c \in Request /\ checkouts[c].user \in User
    BY <1>4, CallersHaveUsers, ShopAssumption DEF CallGetCart, P!CallGetCart
  <2> QED
    BY <1>4, <2>1 DEF CallGetCart, Next
<1>5. ASSUME NEW o \in OrderId, CallEmptyCart(o)
      PROVE  Next
  <2>1. o \in Request /\ places[o].user \in User
    BY <1>5, CallersHaveUsers, ShopAssumption DEF CallEmptyCart, P!CallEmptyCart
  <2> QED
    BY <1>5, <2>1 DEF CallEmptyCart, Next
<1>6. CASE \/ \E c \in Checkout : ReplyGetCart(c)
           \/ \E o \in OrderId : ReplyEmptyCart(o)
           \/ ServiceStep
           \/ UNCHANGED shopVars
  BY <1>6 DEF ReplyGetCart, ReplyEmptyCart, ServiceStep, shopVars, vars
<1> QED
  BY <1>1, <1>2, <1>3, <1>4, <1>5, <1>6 DEF ShopNext

(* Calls match their callers while no call is made or answered.            *)
LEMMA MatchStays ==
  ASSUME CallsMatch, CallersMove, answered' = answered,
         \A s \in Request : /\ req'[s].op = req[s].op /\ req'[s].user = req[s].user
                            /\ req'[s].pc = "idle" <=> req[s].pc = "idle"
                            /\ req[s].pc = "ok" => req'[s].pc = "ok"
  PROVE  CallsMatch'
<1>1. Checkout \subseteq Request /\ OrderId \subseteq Request /\ ClientCall \subseteq Request
  BY ShopAssumption DEF ClientCall
<1>2. ASSUME NEW c \in Checkout
      PROVE  /\ checkouts'[c].pc \in {"idle", "getCart"} => req'[c].pc = "idle"
             /\ req'[c].pc # "idle" => req'[c].op = "get" /\ req'[c].user = checkouts'[c].user
  BY <1>1 DEF CallsMatch, CallersMove
<1>3. ASSUME NEW o \in OrderId
      PROVE  /\ places'[o].pc \in {"idle", "insert", "emptyCart"} => req'[o].pc = "idle"
             /\ req'[o].pc # "idle" => req'[o].op = "empty" /\ req'[o].user = places'[o].user
  BY <1>1 DEF CallsMatch, CallersMove
<1>4. \A r \in ClientCall : req'[r].op = "empty" => "EmptyCart" \in Direct
  BY <1>1 DEF CallsMatch
<1>5. answered' \subseteq {r \in Checkout \cup OrderId : req'[r].pc = "ok"}
  BY <1>1 DEF CallsMatch
<1> QED
  BY <1>2, <1>3, <1>4, <1>5 DEF CallsMatch, ClientCall

(* A step that makes one call.                                             *)
LEMMA MatchCalls ==
  ASSUME CartInv, CallsMatch, CallersMove, answered' = answered,
         NEW r \in Request, NEW op, NEW u, NEW p, NEW q,
         (BeginAdd(r, u, p, q) /\ op = "add") \/ Begin(r, op, u),
         r \in Checkout => op = "get" /\ u = checkouts'[r].user
                           /\ checkouts'[r].pc \notin {"idle", "getCart"},
         r \in OrderId => op = "empty" /\ u = places'[r].user
                          /\ places'[r].pc \notin {"idle", "insert", "emptyCart"},
         r \in ClientCall => (op = "empty" => "EmptyCart" \in Direct)
  PROVE  CallsMatch'
<1>1. Checkout \subseteq Request /\ OrderId \subseteq Request /\ ClientCall \subseteq Request
  BY ShopAssumption DEF ClientCall
<1>2. req \in [Request -> ReqRec]
  BY DEF CartInv, TypeOK
<1>3. /\ req[r].pc = "idle" /\ req'[r].op = op /\ req'[r].user = u /\ req'[r].pc = "findCart"
      /\ \A s \in Request \ {r} : req'[s] = req[s]
  <2>1. CASE BeginAdd(r, u, p, q) /\ op = "add"
    BY <1>2, <2>1 DEF BeginAdd, ReqRec
  <2>2. CASE Begin(r, op, u)
    BY <1>2, <2>2 DEF Begin, ReqRec
  <2> QED
    BY <2>1, <2>2
<1>4. ASSUME NEW c \in Checkout
      PROVE  /\ checkouts'[c].pc \in {"idle", "getCart"} => req'[c].pc = "idle"
             /\ req'[c].pc # "idle" => req'[c].op = "get" /\ req'[c].user = checkouts'[c].user
  <2>1. CASE c = r
    BY <1>3, <2>1
  <2>2. CASE c # r
    BY <1>1, <1>3, <2>2 DEF CallsMatch, CallersMove
  <2> QED
    BY <2>1, <2>2
<1>5. ASSUME NEW o \in OrderId
      PROVE  /\ places'[o].pc \in {"idle", "insert", "emptyCart"} => req'[o].pc = "idle"
             /\ req'[o].pc # "idle" => req'[o].op = "empty" /\ req'[o].user = places'[o].user
  <2>1. CASE o = r
    BY <1>3, <2>1
  <2>2. CASE o # r
    BY <1>1, <1>3, <2>2 DEF CallsMatch, CallersMove
  <2> QED
    BY <2>1, <2>2
<1>6. \A s \in ClientCall : req'[s].op = "empty" => "EmptyCart" \in Direct
  BY <1>1, <1>3 DEF CallsMatch
<1>7. answered' \subseteq {s \in Checkout \cup OrderId : req'[s].pc = "ok"}
  BY <1>1, <1>3 DEF CallsMatch
<1> QED
  BY <1>4, <1>5, <1>6, <1>7 DEF CallsMatch, ClientCall

(* A step that hands a reply to its caller.                                *)
LEMMA MatchReplies ==
  ASSUME CallsMatch, CallersMove, UNCHANGED vars,
         NEW r \in Checkout \cup OrderId, Call(r) = "ok", answered' = answered \cup {r}
  PROVE  CallsMatch'
<1>1. req' = req
  BY DEF vars
<1>2. req[r].pc = "ok"
  BY DEF Call
<1>3. ASSUME NEW c \in Checkout
      PROVE  /\ checkouts'[c].pc \in {"idle", "getCart"} => req'[c].pc = "idle"
             /\ req'[c].pc # "idle" => req'[c].op = "get" /\ req'[c].user = checkouts'[c].user
  BY <1>1 DEF CallsMatch, CallersMove
<1>4. ASSUME NEW o \in OrderId
      PROVE  /\ places'[o].pc \in {"idle", "insert", "emptyCart"} => req'[o].pc = "idle"
             /\ req'[o].pc # "idle" => req'[o].op = "empty" /\ req'[o].user = places'[o].user
  BY <1>1 DEF CallsMatch, CallersMove
<1>5. answered' \subseteq {s \in Checkout \cup OrderId : req'[s].pc = "ok"}
  BY <1>1, <1>2 DEF CallsMatch
<1> QED
  BY <1>1, <1>3, <1>4, <1>5 DEF CallsMatch, ClientCall

(* Calls match their callers after every step. *)
LEMMA MatchStep ==
  ASSUME Inv, CallersMove, [ShopNext]_shopVars
  PROVE  CallsMatch'
<1>1. /\ CartInv /\ CallsMatch
      /\ checkouts \in [Checkout -> PP!CheckoutRec] /\ places \in [OrderId -> PP!PlaceRec]
  BY DEF Inv, PP!IndInv, PP!TypeOK
<1>2. /\ Checkout \subseteq Request /\ OrderId \subseteq Request /\ ClientCall \subseteq Request
      /\ Checkout \cap OrderId = {} /\ ClientCall \cap (Checkout \cup OrderId) = {}
  BY ShopAssumption DEF ClientCall
<1>3. ASSUME NEW r \in ClientCall, NEW u \in User, NEW p \in Product, NEW q \in 0..MaxQty,
             ClientAdds(r, u, p, q)
      PROVE  CallsMatch'
  <2>1. BeginAdd(r, u, p, q) /\ answered' = answered
    BY <1>3 DEF ClientAdds
  <2> QED
    BY <1>1, <1>2, <2>1, MatchCalls
<1>4. ASSUME NEW r \in ClientCall, NEW u \in User, NEW op \in {"get", "empty"},
             ClientCalls(r, op, u)
      PROVE  CallsMatch'
  <2>1. Begin(r, op, u) /\ answered' = answered /\ (op = "empty" => "EmptyCart" \in Direct)
    BY <1>4 DEF ClientCalls
  <2> QED
    BY <1>1, <1>2, <2>1, MatchCalls
<1>5. ASSUME NEW r \in Request, CartStep(r)
      PROVE  CallsMatch'
  <2>1. Step(r) /\ answered' = answered
    BY <1>5 DEF CartStep
  <2>2. Running(r) /\ req'[r].pc # "idle"
    BY <1>1, <2>1, StepMoves
  <2>3. \A s \in Request : /\ req'[s].op = req[s].op /\ req'[s].user = req[s].user
                           /\ s # r => req'[s] = req[s]
    BY <1>1, <2>1, StepKeepsCall
  <2> QED
    BY <1>1, <2>1, <2>2, <2>3, MatchStays DEF Running
<1>6. ASSUME NEW c \in Checkout, CallGetCart(c)
      PROVE  CallsMatch'
  <2>1. Begin(c, "get", checkouts[c].user) /\ answered' = answered /\ P!CallGetCart(c)
    BY <1>6 DEF CallGetCart
  <2>2. checkouts'[c].pc = "waitCart" /\ checkouts'[c].user = checkouts[c].user
    BY <1>1, <2>1 DEF P!CallGetCart, PP!CheckoutRec
  <2> QED
    BY <1>1, <1>2, <2>1, <2>2, MatchCalls
<1>7. ASSUME NEW c \in Checkout, ReplyGetCart(c)
      PROVE  CallsMatch'
  <2>1. UNCHANGED vars /\ answered' = answered \cup {c} /\ P!ReplyGetCart(c)
    BY <1>7 DEF ReplyGetCart
  <2>2. Call(c) = "ok"
    BY <2>1 DEF P!ReplyGetCart
  <2> QED
    BY <1>1, <2>1, <2>2, MatchReplies
<1>8. ASSUME NEW o \in OrderId, CallEmptyCart(o)
      PROVE  CallsMatch'
  <2>1. Begin(o, "empty", places[o].user) /\ answered' = answered /\ P!CallEmptyCart(o)
    BY <1>8 DEF CallEmptyCart
  <2>2. places'[o].pc \in {"commit", "waitEmpty"} /\ places'[o].user = places[o].user
    BY <1>1, <2>1 DEF P!CallEmptyCart, PP!PlaceRec
  <2> QED
    BY <1>1, <1>2, <2>1, <2>2, MatchCalls
<1>9. ASSUME NEW o \in OrderId, ReplyEmptyCart(o)
      PROVE  CallsMatch'
  <2>1. UNCHANGED vars /\ answered' = answered \cup {o} /\ P!ReplyEmptyCart(o)
    BY <1>9 DEF ReplyEmptyCart
  <2>2. Call(o) = "ok"
    BY <2>1 DEF P!ReplyEmptyCart
  <2> QED
    BY <1>1, <2>1, <2>2, MatchReplies
<1>10. CASE ServiceStep \/ UNCHANGED shopVars
  <2>1. req' = req /\ answered' = answered
    BY <1>10 DEF ServiceStep, shopVars, vars
  <2> QED
    BY <1>1, <2>1, MatchStays
<1> QED
  BY <1>3, <1>4, <1>5, <1>6, <1>7, <1>8, <1>9, <1>10 DEF ShopNext

(* The invariant holds at first, and after every step. *)
LEMMA InvInit == ShopInit => Inv
<1> SUFFICES ASSUME ShopInit PROVE Inv
  OBVIOUS
<1>1. Init /\ P!Init /\ answered = {}
  BY DEF ShopInit
<1>2. CartInv
  BY <1>1, InitInv
<1>3. PP!IndInv
  BY <1>1, SameInit, PP!InitInv, PurchaseConstants
<1>4. \A r \in Request : req[r].op = "none" /\ req[r].pc = "idle"
  BY <1>1 DEF Init
<1>5. CallsMatch
  BY <1>1, <1>4, ShopAssumption DEF CallsMatch, ClientCall
<1> QED
  BY <1>2, <1>3, <1>5 DEF Inv

LEMMA InvStep ==
  ASSUME SerialAdds, Inv, [ShopNext]_shopVars
  PROVE  Inv' /\ [P!Next]_(P!vars)
<1>1. CartInv'
  BY ShopIsCart, NextInv, StutterInv DEF Inv
<1>2. [P!Next]_(P!vars)
  BY <1>1, ShopStep
<1>3. [PP!Next]_(PP!vars)
  BY <1>2, SameNext
<1>4. PP!IndInv'
  BY <1>3, PP!StepInv, PurchaseConstants DEF Inv
<1>5. CallersMove
  BY <1>3, PurchaseCallersMove DEF Inv, PP!IndInv
<1>6. CallsMatch'
  BY <1>5, MatchStep
<1> QED
  BY <1>1, <1>2, <1>4, <1>6 DEF Inv

(* For the cart service, checkouts and orders are clients like any other:  *)
(* what CartProofs proves of it holds in the shop (router.go:65-71,        *)
(* checkout.go:28-33, order_place.go:77-86).                               *)
THEOREM ShopRunsCart ==
  ASSUME SerialAdds
  PROVE  ShopSpec => Spec /\ ImplementsContents
<1>1. ShopInit => Init
  BY DEF ShopInit
<1>2. Inv /\ [ShopNext]_shopVars => Inv' /\ [Next]_vars
  BY InvStep, ShopIsCart
<1>3. ShopSpec => Spec
  BY InvInit, <1>1, <1>2, PTL DEF ShopSpec, Spec
<1> QED
  BY <1>3, CartImplementsContents

(* What Purchase takes the cart for is what the cart service is: read and  *)
(* emptied statement by statement (cart_get.go:20-57,                      *)
(* cart_empty.go:19-51), among clients' AddItems, it acts for checkouts    *)
(* and orders at one instant per call.                                     *)
THEOREM ShopImplementsPurchase ==
  ASSUME SerialAdds
  PROVE  ShopSpec => ImplementsPurchase
<1>1. ShopInit => P!Init
  BY DEF ShopInit
<1>2. Inv /\ [ShopNext]_shopVars => Inv' /\ [P!Next]_(P!vars)
  BY InvStep
<1> QED
  BY InvInit, <1>1, <1>2, PTL DEF ShopSpec, ImplementsPurchase, P!Spec

(* So a checkout of the whole shop that answers with an order and a        *)
(* transaction has them: its own order, paid, and a transaction of that    *)
(* order's amount (checkout.go:28-157).                                    *)
THEOREM ShopSuccessMeansPaid ==
  ASSUME SerialAdds
  PROVE  ShopSpec => []P!SuccessMeansPaid
<1>1. PP!Spec => []PP!SuccessMeansPaid
  BY PP!SuccessIsPaid, PurchaseConstants
<1>2. P!Spec => PP!Spec
  BY SameInit, SameNext, PTL DEF P!Spec, PP!Spec
<1>3. ShopSpec => P!Spec
  BY ShopImplementsPurchase DEF ImplementsPurchase
<1> QED
  BY <1>1, <1>2, <1>3, SameSuccess, PTL
=============================================================================
