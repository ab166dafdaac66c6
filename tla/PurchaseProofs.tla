--------------------------- MODULE PurchaseProofs ---------------------------
(***************************************************************************)
(* Proofs about Purchase, for any numbers of users, checkouts, orders,     *)
(* charges and marks, any bound on quantities, any routes the clients use, *)
(* with or without faults.  The inductive invariant IndInv says what each  *)
(* handler may rely on from the replies it has had; one lemma per part of  *)
(* the next-state relation shows that it is preserved.                     *)
(* On top of it: transactions are their charges' own, checkouts keep their *)
(* orders and charges apart, and the whole path implements OrderLedger.    *)
(***************************************************************************)
EXTENDS Purchase, TLAPS

USE PurchaseAssumption

-----------------------------------------------------------------------------
(* Records stay of their type when a control point, and one more field, is *)
(* updated.                                                                *)
LEMMA CheckoutTyped ==
  ASSUME NEW r \in CheckoutRec, NEW p \in CheckoutPc
  PROVE  /\ [r EXCEPT !.pc = p] \in CheckoutRec
         /\ \A u \in User : [r EXCEPT !.pc = p, !.user = u] \in CheckoutRec
         /\ \A q \in 0..MaxQty : [r EXCEPT !.pc = p, !.qty = q] \in CheckoutRec
         /\ \A o \in OrderId : [r EXCEPT !.pc = p, !.order = o] \in CheckoutRec
         /\ \A t \in TxnId : [r EXCEPT !.pc = p, !.txn = t] \in CheckoutRec
BY DEF CheckoutRec

(* The same for the state of a GetCart call. *)
LEMMA GetCartTyped ==
  ASSUME NEW r \in GetCartRec, NEW p \in CallPc
  PROVE  [r EXCEPT !.pc = p] \in GetCartRec
BY DEF GetCartRec

(* The same for a PlaceOrder handler. *)
LEMMA PlaceTyped ==
  ASSUME NEW r \in PlaceRec, NEW p \in PlacePc
  PROVE  [r EXCEPT !.pc = p] \in PlaceRec
BY DEF PlaceRec

(* The same for a Charge handler. *)
LEMMA ChargeTyped ==
  ASSUME NEW r \in ChargeRec, NEW p \in ChargePc
  PROVE  [r EXCEPT !.pc = p] \in ChargeRec
BY DEF ChargeRec

(* The same for a MarkOrderPaid handler. *)
LEMMA MarkTyped ==
  ASSUME NEW r \in MarkRec, NEW p \in MarkPc
  PROVE  [r EXCEPT !.pc = p] \in MarkRec
BY DEF MarkRec

(* The cache stays of its type when the keys of one method are replaced. *)
LEMMA CacheTyped ==
  ASSUME NEW r \in Cache
  PROVE  /\ \A x \in SUBSET User : [r EXCEPT !.getCart = x] \in Cache
         /\ \A x \in SUBSET User : [r EXCEPT !.emptyCart = x] \in Cache
         /\ \A x \in SUBSET (User \X Qty) : [r EXCEPT !.placeOrder = x] \in Cache
         /\ \A x \in SUBSET (User \X OrderId) : [r EXCEPT !.markPaid = x] \in Cache
BY DEF Cache

-----------------------------------------------------------------------------
(* Each part of the invariant reads few variables, and stays true when     *)
(* those do not change.                                                    *)
LEMMA CallersStay ==
  ASSUME CallsHaveCallers, UNCHANGED <<checkouts, getCart, places, emptyCart>>
  PROVE  CallsHaveCallers'
BY DEF CallsHaveCallers, Qty

(* Of the handlers' rows. *)
LEMMA RowsStay ==
  ASSUME RowsAreCommitted, UNCHANGED <<places, orders>>
  PROVE  RowsAreCommitted'
BY DEF RowsAreCommitted, Committed, Placed

(* Of the MarkOrderPaid handlers. *)
LEMMA MarksStay ==
  ASSUME MarksAreTrue, UNCHANGED <<marks, orders>>
  PROVE  MarksAreTrue'
BY DEF MarksAreTrue, Placed, Paid

(* Of the cached replies. *)
LEMMA CachedMarkStays ==
  ASSUME CachedMarkIsTrue, UNCHANGED <<cache, orders>>
  PROVE  CachedMarkIsTrue'
BY DEF CachedMarkIsTrue, Paid

(* Of the Charge handlers. *)
LEMMA ChargesStay ==
  ASSUME ChargesAreTrue, UNCHANGED <<charges, marks, txns, orders>>
  PROVE  ChargesAreTrue'
BY DEF ChargesAreTrue, ChargeTxn, Paid

(* Of the checkouts, which is also true while handlers they do not wait    *)
(* for start, and those they do wait for keep their arguments and move on. *)
LEMMA CheckoutsKeep ==
  ASSUME CheckoutsAreTrue, UNCHANGED checkouts,
         \A o \in OrderId : places[o].pc # "idle" =>
            /\ places'[o].pc # "idle"
            /\ places'[o].user = places[o].user /\ places'[o].qty = places[o].qty
            /\ Committed(o) => Committed(o)',
         \A t \in TxnId : charges[t].pc # "idle" =>
            /\ charges'[t].pc # "idle"
            /\ ChargeTxn(t)' = ChargeTxn(t)
            /\ charges[t].pc = "ok" => charges'[t].pc = "ok"
  PROVE  CheckoutsAreTrue'
<1> SUFFICES ASSUME NEW c \in Checkout
             PROVE  CheckoutsAreTrue!(c)'
  BY DEF CheckoutsAreTrue
<1>1. CheckoutsAreTrue!(c) /\ checkouts'[c] = checkouts[c]
  BY DEF CheckoutsAreTrue
<1>2. CheckoutOrder(c) => CheckoutOrder(c)'
  BY <1>1 DEF CheckoutOrder
<1>3. CheckoutOrder(c) /\ Committed(checkouts[c].order) => Committed(checkouts[c].order)'
  BY <1>1 DEF CheckoutOrder, Committed
<1>4. CheckoutCharge(c) => CheckoutCharge(c)'
  BY <1>1 DEF CheckoutCharge, ChargeTxn
<1>5. CheckoutCharge(c) /\ charges[checkouts[c].txn].pc = "ok"
        => charges'[checkouts'[c].txn].pc = "ok"
  BY <1>1 DEF CheckoutCharge
<1> QED
  BY <1>1, <1>2, <1>3, <1>4, <1>5

(* In particular when neither change. *)
LEMMA CheckoutsStay ==
  ASSUME CheckoutsAreTrue, UNCHANGED <<checkouts, places, charges>>
  PROVE  CheckoutsAreTrue'
<1>1. \A o \in OrderId :
        /\ places'[o] = places[o]
        /\ Committed(o) => Committed(o)'
  BY DEF Committed
<1>2. \A t \in TxnId :
        /\ charges'[t] = charges[t]
        /\ ChargeTxn(t)' = ChargeTxn(t)
  BY DEF ChargeTxn
<1> QED
  BY <1>1, <1>2, CheckoutsKeep

(* A PlaceOrder handler that has started keeps its arguments, and its      *)
(* commit.                                                                 *)
PlaceKept(o) ==
  /\ places'[o].pc # "idle"
  /\ places'[o].user = places[o].user /\ places'[o].qty = places[o].qty
  /\ places[o].pc \in {"ok", "replied"} => places'[o].pc \in {"ok", "replied"}

(* That is all that checkouts rely on while PlaceOrder handlers go on. *)
LEMMA PlacesMove ==
  ASSUME CheckoutsAreTrue, UNCHANGED <<checkouts, charges>>,
         \A o \in OrderId : places[o].pc # "idle" => PlaceKept(o)
  PROVE  CheckoutsAreTrue'
<1>1. \A o \in OrderId : places[o].pc # "idle" =>
        /\ places'[o].pc # "idle"
        /\ places'[o].user = places[o].user /\ places'[o].qty = places[o].qty
        /\ Committed(o) => Committed(o)'
  BY DEF Committed, PlaceKept
<1>2. \A t \in TxnId :
        /\ charges'[t] = charges[t]
        /\ ChargeTxn(t)' = ChargeTxn(t)
  BY DEF ChargeTxn
<1> QED
  BY <1>1, <1>2, CheckoutsKeep

(* A Charge handler that has started keeps its arguments, and its success. *)
ChargeKept(t) ==
  /\ charges'[t].pc # "idle"
  /\ charges'[t].user = charges[t].user /\ charges'[t].order = charges[t].order
  /\ charges'[t].amount = charges[t].amount
  /\ charges[t].pc = "ok" => charges'[t].pc = "ok"

(* That is all that checkouts rely on while Charge handlers go on. *)
LEMMA ChargesMove ==
  ASSUME CheckoutsAreTrue, UNCHANGED <<checkouts, places>>,
         \A t \in TxnId : charges[t].pc # "idle" => ChargeKept(t)
  PROVE  CheckoutsAreTrue'
<1>1. \A o \in OrderId :
        /\ places'[o] = places[o]
        /\ Committed(o) => Committed(o)'
  BY DEF Committed
<1>2. \A t \in TxnId : charges[t].pc # "idle" =>
        /\ charges'[t].pc # "idle"
        /\ ChargeTxn(t)' = ChargeTxn(t)
        /\ charges[t].pc = "ok" => charges'[t].pc = "ok"
  BY DEF ChargeTxn, ChargeKept
<1> QED
  BY <1>1, <1>2, CheckoutsKeep

(* A checkout moves on by itself. *)
LEMMA CheckoutMoves ==
  ASSUME CheckoutsAreTrue, NEW c \in Checkout, UNCHANGED <<places, charges>>,
         \A d \in Checkout \ {c} : checkouts'[d] = checkouts[d],
         CheckoutsAreTrue!(c)'
  PROVE  CheckoutsAreTrue'
<1> SUFFICES ASSUME NEW d \in Checkout \ {c}
             PROVE  CheckoutsAreTrue!(d)'
  BY DEF CheckoutsAreTrue
<1>1. CheckoutsAreTrue!(d) /\ checkouts'[d] = checkouts[d]
  BY DEF CheckoutsAreTrue
<1>2. CheckoutOrder(d)' <=> CheckoutOrder(d)
  BY <1>1 DEF CheckoutOrder
<1>3. CheckoutCharge(d)' <=> CheckoutCharge(d)
  BY <1>1 DEF CheckoutCharge, ChargeTxn
<1>4. Committed(checkouts[d].order)' <=> Committed(checkouts[d].order)
  BY <1>1 DEF Committed
<1> QED
  BY <1>1, <1>2, <1>3, <1>4

-----------------------------------------------------------------------------
(* A client changes a cart, which no other state depends on. *)
LEMMA AddItemInv ==
  ASSUME IndInv, NEW u \in User, AddItem(u)
  PROVE  IndInv'
<1>1. TypeOK'
  BY DEF IndInv, TypeOK, AddItem, Qty
<1>2. CallsHaveCallers' /\ RowsAreCommitted' /\ MarksAreTrue' /\ CachedMarkIsTrue' /\ ChargesAreTrue' /\ CheckoutsAreTrue'
  BY CallersStay, RowsStay, MarksStay, CachedMarkStays, ChargesStay, CheckoutsStay
     DEF IndInv, AddItem
<1> QED
  BY <1>1, <1>2 DEF IndInv

(* So does emptying it. *)
LEMMA DirectEmptyCartInv ==
  ASSUME IndInv, NEW u \in User, DirectEmptyCart(u)
  PROVE  IndInv'
<1>1. TypeOK'
  BY DEF IndInv, TypeOK, DirectEmptyCart
<1>2. CallsHaveCallers' /\ RowsAreCommitted' /\ MarksAreTrue' /\ CachedMarkIsTrue' /\ ChargesAreTrue' /\ CheckoutsAreTrue'
  BY CallersStay, RowsStay, MarksStay, CachedMarkStays, ChargesStay, CheckoutsStay
     DEF IndInv, DirectEmptyCart
<1> QED
  BY <1>1, <1>2 DEF IndInv

(* Dropping cached replies cannot make one false. *)
LEMMA ExpireInv ==
  ASSUME IndInv, Expire
  PROVE  IndInv'
<1>1. TypeOK'
  BY CacheTyped DEF IndInv, TypeOK, Expire, Cache
<1>2. CachedMarkIsTrue'
  <2>1. cache'.markPaid \subseteq cache.markPaid
    BY DEF IndInv, TypeOK, Cache, Expire
  <2> QED
    BY <2>1 DEF IndInv, Expire, CachedMarkIsTrue, Paid
<1>3. CallsHaveCallers' /\ RowsAreCommitted' /\ MarksAreTrue' /\ ChargesAreTrue' /\ CheckoutsAreTrue'
  BY CallersStay, RowsStay, MarksStay, ChargesStay, CheckoutsStay DEF IndInv, Expire
<1> QED
  BY <1>1, <1>2, <1>3 DEF IndInv

(* A request enters a handler of its own. *)
LEMMA CheckoutBeginInv ==
  ASSUME IndInv, NEW c \in Checkout, NEW u \in User, CheckoutBegin(c, u)
  PROVE  IndInv'
<1>1. TypeOK'
  BY CheckoutTyped DEF IndInv, TypeOK, CheckoutBegin, CheckoutPc
<1>2. CallsHaveCallers'
  BY DEF IndInv, TypeOK, CheckoutBegin, CallsHaveCallers, Qty
<1>3. CheckoutsAreTrue'
  <2>1. \A d \in Checkout \ {c} : checkouts'[d] = checkouts[d]
    BY DEF IndInv, TypeOK, CheckoutBegin
  <2>2. checkouts'[c].pc = "getCart" /\ checkouts'[c].user = u
    BY DEF IndInv, TypeOK, CheckoutBegin, CheckoutRec
  <2>3. CheckoutsAreTrue!(c)'
    BY <2>2
  <2> QED
    BY <2>1, <2>3, CheckoutMoves DEF IndInv, CheckoutBegin
<1>4. RowsAreCommitted' /\ MarksAreTrue' /\ CachedMarkIsTrue' /\ ChargesAreTrue'
  BY RowsStay, MarksStay, CachedMarkStays, ChargesStay DEF IndInv, CheckoutBegin
<1> QED
  BY <1>1, <1>2, <1>3, <1>4 DEF IndInv

(* A direct PlaceOrder takes an id nobody uses. *)
LEMMA DirectPlaceOrderInv ==
  ASSUME IndInv, NEW o \in OrderId, NEW u \in User, NEW q \in Qty, DirectPlaceOrder(o, u, q)
  PROVE  IndInv'
<1>1. TypeOK'
  BY DEF IndInv, TypeOK, DirectPlaceOrder, Qty, PlaceRec, PlacePc
<1>2. CallsHaveCallers'
  BY DEF IndInv, TypeOK, DirectPlaceOrder, CallsHaveCallers, Qty
<1>3. RowsAreCommitted'
  BY DEF IndInv, TypeOK, DirectPlaceOrder, RowsAreCommitted, Committed, Placed
<1>4. CheckoutsAreTrue'
  <2>1. UNCHANGED <<checkouts, charges>>
    BY DEF DirectPlaceOrder
  <2>2. \A p \in OrderId : places[p].pc # "idle" => PlaceKept(p)
    BY DEF IndInv, TypeOK, DirectPlaceOrder, PlaceKept, PlaceRec
  <2> QED
    BY <2>1, <2>2, PlacesMove DEF IndInv
<1>5. MarksAreTrue' /\ CachedMarkIsTrue' /\ ChargesAreTrue'
  BY MarksStay, CachedMarkStays, ChargesStay DEF IndInv, DirectPlaceOrder
<1> QED
  BY <1>1, <1>2, <1>3, <1>4, <1>5 DEF IndInv

(* A direct Charge takes an id nobody uses. *)
LEMMA DirectChargeInv ==
  ASSUME IndInv, NEW t \in TxnId, NEW u \in User, NEW o \in OrderId, NEW q \in Qty, DirectCharge(t, u, o, q)
  PROVE  IndInv'
<1>1. TypeOK'
  BY DEF IndInv, TypeOK, DirectCharge, Qty, ChargeRec, ChargePc
<1>2. ChargesAreTrue'
  BY DEF IndInv, TypeOK, DirectCharge, ChargesAreTrue, ChargeTxn, Paid, Marker
<1>3. CheckoutsAreTrue'
  <2>1. UNCHANGED <<checkouts, places>>
    BY DEF DirectCharge
  <2>2. \A r \in TxnId : charges[r].pc # "idle" => ChargeKept(r)
    BY DEF IndInv, TypeOK, DirectCharge, ChargeKept
  <2> QED
    BY <2>1, <2>2, ChargesMove DEF IndInv
<1>4. CallsHaveCallers' /\ RowsAreCommitted' /\ MarksAreTrue' /\ CachedMarkIsTrue'
  BY CallersStay, RowsStay, MarksStay, CachedMarkStays DEF IndInv, DirectCharge
<1> QED
  BY <1>1, <1>2, <1>3, <1>4 DEF IndInv

(* A direct MarkOrderPaid has claimed nothing yet. *)
LEMMA DirectMarkInv ==
  ASSUME IndInv, NEW m \in GatewayMark, NEW u \in User, NEW o \in OrderId, DirectMarkOrderPaid(m, u, o)
  PROVE  IndInv'
<1>1. TypeOK'
  BY MarkTyped DEF IndInv, TypeOK, DirectMarkOrderPaid, MarkPc, Marker, MarkRec, ChargeRec
<1>2. MarksAreTrue'
  BY DEF IndInv, TypeOK, DirectMarkOrderPaid, MarksAreTrue, Placed, Paid
<1>3. ChargesAreTrue'
  BY DEF IndInv, TypeOK, DirectMarkOrderPaid, ChargesAreTrue, ChargeTxn, Paid, Marker
<1>4. CallsHaveCallers' /\ RowsAreCommitted' /\ CachedMarkIsTrue' /\ CheckoutsAreTrue'
  BY CallersStay, RowsStay, CachedMarkStays, CheckoutsStay
     DEF IndInv, DirectMarkOrderPaid
<1> QED
  BY <1>1, <1>2, <1>3, <1>4 DEF IndInv

(* Steps of the checkout service: each learns from a reply what the later ones rely on. *)
LEMMA CheckoutInv ==
  ASSUME IndInv, NEW c \in Checkout, CheckoutStep(c)
  PROVE  IndInv'
<1>1. CASE CallGetCart(c)
  <2>1. TypeOK'
    <3>1. "waitCart" \in CheckoutPc /\ "run" \in CallPc
      BY DEF CheckoutPc, CallPc
    <3> QED
      BY <3>1, <1>1, CheckoutTyped, GetCartTyped DEF IndInv, TypeOK, CallGetCart
  <2>2. CallsHaveCallers'
    BY <1>1 DEF IndInv, TypeOK, CallGetCart, CallsHaveCallers, Qty, CheckoutsAreTrue,
       GetCartRec, CheckoutRec
  <2>3. CheckoutsAreTrue'
    <3>1. \A d \in Checkout \ {c} : checkouts'[d] = checkouts[d]
      BY <1>1 DEF IndInv, TypeOK, CallGetCart
    <3>2. checkouts'[c] = [checkouts[c] EXCEPT !.pc = "waitCart"]
      BY <1>1 DEF IndInv, TypeOK, CallGetCart
    <3>3. CheckoutsAreTrue!(c) /\ checkouts[c] \in CheckoutRec
      BY DEF IndInv, TypeOK, CheckoutsAreTrue
    <3>4. CheckoutsAreTrue!(c)'
      BY <1>1, <3>2, <3>3 DEF CallGetCart, CheckoutRec, CheckoutOrder, CheckoutCharge,
         ChargeTxn, Committed
    <3> QED
      BY <1>1, <3>1, <3>4, CheckoutMoves DEF IndInv, CallGetCart
  <2>4. RowsAreCommitted' /\ MarksAreTrue' /\ CachedMarkIsTrue' /\ ChargesAreTrue'
    BY <1>1, RowsStay, MarksStay, CachedMarkStays, ChargesStay
       DEF IndInv, CallGetCart
  <2> QED
    BY <2>1, <2>2, <2>3, <2>4 DEF IndInv
<1>2. CASE AwaitGetCart(c)
  <2>1. TypeOK'
    <3>1. "placeOrder" \in CheckoutPc /\ getCart[c].qty \in 0..MaxQty
      BY DEF CheckoutPc, IndInv, TypeOK, GetCartRec
    <3> QED
      BY <3>1, <1>2, CheckoutTyped DEF IndInv, TypeOK, AwaitGetCart
  <2>2. CallsHaveCallers'
    BY <1>2 DEF IndInv, TypeOK, AwaitGetCart, CallsHaveCallers, Qty
  <2>3. CheckoutsAreTrue'
    <3>1. getCart[c].qty \in Qty
      BY <1>2 DEF IndInv, TypeOK, GetCartRec, Qty, AwaitGetCart
    <3>2. \A d \in Checkout \ {c} : checkouts'[d] = checkouts[d]
      BY <1>2 DEF IndInv, TypeOK, AwaitGetCart
    <3>3. /\ checkouts'[c].pc = "placeOrder" /\ checkouts'[c].qty = getCart[c].qty
          /\ checkouts'[c].user = checkouts[c].user
      BY <1>2 DEF IndInv, TypeOK, AwaitGetCart, CheckoutRec
    <3>4. checkouts[c].user \in User
      BY <1>2 DEF IndInv, CheckoutsAreTrue, AwaitGetCart
    <3>5. CheckoutsAreTrue!(c)'
      BY <3>1, <3>3, <3>4
    <3> QED
      BY <1>2, <3>2, <3>5, CheckoutMoves DEF IndInv, AwaitGetCart
  <2>4. RowsAreCommitted' /\ MarksAreTrue' /\ CachedMarkIsTrue' /\ ChargesAreTrue'
    BY <1>2, RowsStay, MarksStay, CachedMarkStays, ChargesStay
       DEF IndInv, AwaitGetCart
  <2> QED
    BY <2>1, <2>2, <2>3, <2>4 DEF IndInv
<1>3. CASE CallPlaceOrder(c)
  <2>1. TypeOK'
    <3>1. checkouts[c].user \in User /\ checkouts[c].qty \in 0..MaxQty
      BY <1>3 DEF IndInv, TypeOK, CheckoutRec, CheckoutsAreTrue, CallPlaceOrder
    <3>2. [pc |-> "insert", user |-> checkouts[c].user, qty |-> checkouts[c].qty, by |-> c]
            \in PlaceRec
      BY <3>1 DEF PlaceRec, PlacePc
    <3>3. checkouts' \in [Checkout -> CheckoutRec]
      <4>1. PICK o \in OrderId :
              checkouts' = [checkouts EXCEPT ![c].pc = "waitOrder", ![c].order = o]
        BY <1>3 DEF CallPlaceOrder
      <4>2. [checkouts[c] EXCEPT !.pc = "waitOrder", !.order = o] \in CheckoutRec
        BY CheckoutTyped DEF IndInv, TypeOK, CheckoutPc
      <4> QED
        BY <4>1, <4>2 DEF IndInv, TypeOK
    <3> QED
      BY <1>3, <3>2, <3>3 DEF IndInv, TypeOK, CallPlaceOrder
  <2>2. CallsHaveCallers'
    BY <1>3 DEF IndInv, TypeOK, CallPlaceOrder, CallsHaveCallers, Qty, CheckoutsAreTrue,
       CheckoutRec
  <2>3. RowsAreCommitted'
    BY <1>3 DEF IndInv, TypeOK, CallPlaceOrder, RowsAreCommitted, Committed, Placed
  <2>4. CheckoutsAreTrue'
    <3>1. PICK o \in OrderId :
            /\ places[o].pc = "idle"
            /\ places' = [places EXCEPT ![o] = [pc |-> "insert", user |-> checkouts[c].user,
                                                qty |-> checkouts[c].qty, by |-> c]]
            /\ checkouts' = [checkouts EXCEPT ![c].pc = "waitOrder", ![c].order = o]
      BY <1>3 DEF CallPlaceOrder
    <3>2. \A d \in Checkout \ {c} : checkouts'[d] = checkouts[d]
      BY <3>1 DEF IndInv, TypeOK
    <3>3. \A p \in OrderId : places[p].pc # "idle" => places'[p] = places[p]
      BY <3>1 DEF IndInv, TypeOK
    <3>4. /\ checkouts'[c].pc = "waitOrder" /\ checkouts'[c].order = o
          /\ checkouts'[c].user = checkouts[c].user /\ checkouts'[c].qty = checkouts[c].qty
      BY <3>1 DEF IndInv, TypeOK, CheckoutRec
    <3>5. CheckoutOrder(c)'
      BY <3>1, <3>4 DEF IndInv, TypeOK, CheckoutOrder
    <3>6. UNCHANGED charges
      BY <1>3 DEF CallPlaceOrder
    <3>7. checkouts[c].user \in User
      BY <1>3 DEF IndInv, CheckoutsAreTrue, CallPlaceOrder
    <3> QED
      BY <3>2, <3>3, <3>4, <3>5, <3>6, <3>7 DEF IndInv, CheckoutsAreTrue, CheckoutOrder,
         CheckoutCharge, ChargeTxn, Committed
  <2>5. MarksAreTrue' /\ CachedMarkIsTrue' /\ ChargesAreTrue'
    BY <1>3, MarksStay, CachedMarkStays, ChargesStay DEF IndInv, CallPlaceOrder
  <2> QED
    BY <2>1, <2>2, <2>3, <2>4, <2>5 DEF IndInv
<1>4. CASE AwaitPlaceOrder(c)
  <2>1. TypeOK'
    BY <1>4, CheckoutTyped DEF IndInv, TypeOK, AwaitPlaceOrder, CheckoutPc
  <2>2. CallsHaveCallers'
    BY <1>4 DEF IndInv, TypeOK, AwaitPlaceOrder, CallsHaveCallers, Qty
  <2>3. CheckoutsAreTrue'
    <3>1. \A d \in Checkout \ {c} : checkouts'[d] = checkouts[d]
      BY <1>4 DEF IndInv, TypeOK, AwaitPlaceOrder
    <3>2. checkouts'[c] = [checkouts[c] EXCEPT !.pc = "charge"]
      BY <1>4 DEF IndInv, TypeOK, AwaitPlaceOrder
    <3>3. CheckoutsAreTrue!(c) /\ checkouts[c] \in CheckoutRec
      BY DEF IndInv, TypeOK, CheckoutsAreTrue
    <3>4. CheckoutsAreTrue!(c)'
      BY <1>4, <3>2, <3>3 DEF AwaitPlaceOrder, CheckoutRec, CheckoutOrder, CheckoutCharge,
         ChargeTxn, Committed
    <3> QED
      BY <1>4, <3>1, <3>4, CheckoutMoves DEF IndInv, AwaitPlaceOrder
  <2>4. RowsAreCommitted' /\ MarksAreTrue' /\ CachedMarkIsTrue' /\ ChargesAreTrue'
    BY <1>4, RowsStay, MarksStay, CachedMarkStays, ChargesStay
       DEF IndInv, AwaitPlaceOrder
  <2> QED
    BY <2>1, <2>2, <2>3, <2>4 DEF IndInv
<1>5. CASE CallCharge(c)
  <2>1. TypeOK'
    <3>1. /\ checkouts[c].user \in User /\ checkouts[c].qty \in 0..MaxQty
          /\ checkouts[c].order \in OrderId
      BY <1>5 DEF IndInv, TypeOK, CheckoutRec, CheckoutsAreTrue, CheckoutOrder, CallCharge
    <3>2. [pc |-> "save", user |-> checkouts[c].user, by |-> c, order |-> checkouts[c].order,
           amount |-> checkouts[c].qty] \in ChargeRec
      BY <3>1 DEF ChargeRec, ChargePc
    <3>3. checkouts' \in [Checkout -> CheckoutRec]
      <4>1. PICK t \in TxnId :
              checkouts' = [checkouts EXCEPT ![c].pc = "waitCharge", ![c].txn = t]
        BY <1>5 DEF CallCharge
      <4>2. [checkouts[c] EXCEPT !.pc = "waitCharge", !.txn = t] \in CheckoutRec
        BY CheckoutTyped DEF IndInv, TypeOK, CheckoutPc
      <4> QED
        BY <4>1, <4>2 DEF IndInv, TypeOK
    <3> QED
      BY <1>5, <3>2, <3>3 DEF IndInv, TypeOK, CallCharge
  <2>2. CallsHaveCallers'
    BY <1>5 DEF IndInv, TypeOK, CallCharge, CallsHaveCallers, Qty
  <2>3. ChargesAreTrue'
    <3>1. checkouts[c].user \in User /\ CheckoutOrder(c)
      BY <1>5 DEF IndInv, CallCharge, CheckoutsAreTrue
    <3>2. /\ checkouts[c].user \in User /\ checkouts[c].order \in OrderId
          /\ checkouts[c].qty \in Qty
      BY <3>1 DEF IndInv, CallsHaveCallers, CheckoutOrder
    <3> QED
      BY <1>5, <3>2 DEF IndInv, TypeOK, CallCharge, ChargesAreTrue, ChargeTxn, Paid, Marker
  <2>4. CheckoutsAreTrue'
    <3>1. PICK t \in TxnId :
            /\ charges[t].pc = "idle"
            /\ charges' = [charges EXCEPT ![t] =
                              [pc |-> "save", user |-> checkouts[c].user, by |-> c,
                               order |-> checkouts[c].order, amount |-> checkouts[c].qty]]
            /\ checkouts' = [checkouts EXCEPT ![c].pc = "waitCharge", ![c].txn = t]
      BY <1>5 DEF CallCharge
    <3>2. \A d \in Checkout \ {c} : checkouts'[d] = checkouts[d]
      BY <3>1 DEF IndInv, TypeOK
    <3>3. \A r \in TxnId : charges[r].pc # "idle" => charges'[r] = charges[r]
      BY <3>1 DEF IndInv, TypeOK
    <3>4. /\ checkouts'[c].pc = "waitCharge" /\ checkouts'[c].txn = t
          /\ checkouts'[c].user = checkouts[c].user /\ checkouts'[c].qty = checkouts[c].qty
          /\ checkouts'[c].order = checkouts[c].order
      BY <3>1 DEF IndInv, TypeOK, CheckoutRec
    <3>5. CheckoutCharge(c)'
      BY <3>1, <3>4 DEF IndInv, TypeOK, CheckoutCharge, ChargeTxn
    <3>6. /\ checkouts[c].pc = "charge"
          /\ UNCHANGED places
      BY <1>5 DEF CallCharge
    <3>7. CheckoutsAreTrue!(c)'
      BY <3>4, <3>5, <3>6 DEF IndInv, CheckoutsAreTrue, CheckoutOrder, Committed
    <3>8. ASSUME NEW d \in Checkout \ {c}
          PROVE  CheckoutsAreTrue!(d)'
      <4>1. CheckoutsAreTrue!(d)
        BY DEF IndInv, CheckoutsAreTrue
      <4>2. CheckoutCharge(d) =>
              CheckoutCharge(d)' /\ charges'[checkouts'[d].txn] = charges[checkouts[d].txn]
        BY <3>2, <3>3 DEF CheckoutCharge, ChargeTxn
      <4>3. CheckoutOrder(d)' <=> CheckoutOrder(d)
        BY <3>2, <3>6 DEF CheckoutOrder
      <4> QED
        BY <3>2, <3>6, <4>1, <4>2, <4>3 DEF Committed
    <3> QED
      BY <3>7, <3>8 DEF CheckoutsAreTrue
  <2>5. RowsAreCommitted' /\ MarksAreTrue' /\ CachedMarkIsTrue'
    BY <1>5, RowsStay, MarksStay, CachedMarkStays DEF IndInv, CallCharge
  <2> QED
    BY <2>1, <2>2, <2>3, <2>4, <2>5 DEF IndInv
<1>6. CASE AwaitCharge(c)
  <2>1. TypeOK'
    BY <1>6, CheckoutTyped DEF IndInv, TypeOK, AwaitCharge, CheckoutPc
  <2>2. CallsHaveCallers'
    BY <1>6 DEF IndInv, TypeOK, AwaitCharge, CallsHaveCallers, Qty
  <2>3. CheckoutsAreTrue'
    <3>1. \A d \in Checkout \ {c} : checkouts'[d] = checkouts[d]
      BY <1>6 DEF IndInv, TypeOK, AwaitCharge
    <3>2. checkouts'[c] = [checkouts[c] EXCEPT !.pc = "ok"]
      BY <1>6 DEF IndInv, TypeOK, AwaitCharge
    <3>3. CheckoutsAreTrue!(c) /\ checkouts[c] \in CheckoutRec
      BY DEF IndInv, TypeOK, CheckoutsAreTrue
    <3>4. CheckoutsAreTrue!(c)'
      BY <1>6, <3>2, <3>3 DEF AwaitCharge, CheckoutRec, CheckoutOrder, CheckoutCharge,
         ChargeTxn, Committed
    <3> QED
      BY <1>6, <3>1, <3>4, CheckoutMoves DEF IndInv, AwaitCharge
  <2>4. RowsAreCommitted' /\ MarksAreTrue' /\ CachedMarkIsTrue' /\ ChargesAreTrue'
    BY <1>6, RowsStay, MarksStay, CachedMarkStays, ChargesStay
       DEF IndInv, AwaitCharge
  <2> QED
    BY <2>1, <2>2, <2>3, <2>4 DEF IndInv
<1>7. CASE CheckoutFails(c)
  <2>1. TypeOK'
    BY <1>7, CheckoutTyped DEF IndInv, TypeOK, CheckoutFails, CheckoutPc
  <2>2. CallsHaveCallers'
    BY <1>7 DEF IndInv, TypeOK, CheckoutFails, CallsHaveCallers, Qty
  <2>3. CheckoutsAreTrue'
    <3>1. \A d \in Checkout \ {c} : checkouts'[d] = checkouts[d]
      BY <1>7 DEF IndInv, TypeOK, CheckoutFails
    <3>2. checkouts'[c] = [checkouts[c] EXCEPT !.pc = "failing"]
      BY <1>7 DEF IndInv, TypeOK, CheckoutFails
    <3>3. CheckoutsAreTrue!(c) /\ checkouts[c] \in CheckoutRec
      BY DEF IndInv, TypeOK, CheckoutsAreTrue
    <3>4. CheckoutsAreTrue!(c)'
      BY <1>7, <3>2, <3>3 DEF CheckoutFails, CheckoutRec, CheckoutOrder, CheckoutCharge,
         ChargeTxn, Committed
    <3> QED
      BY <1>7, <3>1, <3>4, CheckoutMoves DEF IndInv, CheckoutFails
  <2>4. RowsAreCommitted' /\ MarksAreTrue' /\ CachedMarkIsTrue' /\ ChargesAreTrue'
    BY <1>7, RowsStay, MarksStay, CachedMarkStays, ChargesStay
       DEF IndInv, CheckoutFails
  <2> QED
    BY <2>1, <2>2, <2>3, <2>4 DEF IndInv
<1>8. CASE CheckoutReturnsError(c)
  <2>1. TypeOK'
    BY <1>8, CheckoutTyped DEF IndInv, TypeOK, CheckoutReturnsError, CheckoutPc
  <2>2. CallsHaveCallers'
    BY <1>8 DEF IndInv, TypeOK, CheckoutReturnsError, CallsHaveCallers, Qty
  <2>3. CheckoutsAreTrue'
    <3>1. \A d \in Checkout \ {c} : checkouts'[d] = checkouts[d]
      BY <1>8 DEF IndInv, TypeOK, CheckoutReturnsError
    <3>2. checkouts'[c] = [checkouts[c] EXCEPT !.pc = "error"]
      BY <1>8 DEF IndInv, TypeOK, CheckoutReturnsError
    <3>3. CheckoutsAreTrue!(c) /\ checkouts[c] \in CheckoutRec
      BY DEF IndInv, TypeOK, CheckoutsAreTrue
    <3>4. CheckoutsAreTrue!(c)'
      BY <1>8, <3>2, <3>3 DEF CheckoutReturnsError, CheckoutRec, CheckoutOrder, CheckoutCharge,
         ChargeTxn, Committed
    <3> QED
      BY <1>8, <3>1, <3>4, CheckoutMoves DEF IndInv, CheckoutReturnsError
  <2>4. RowsAreCommitted' /\ MarksAreTrue' /\ CachedMarkIsTrue' /\ ChargesAreTrue'
    BY <1>8, RowsStay, MarksStay, CachedMarkStays, ChargesStay
       DEF IndInv, CheckoutReturnsError
  <2> QED
    BY <2>1, <2>2, <2>3, <2>4 DEF IndInv
<1> QED
  BY <1>1, <1>2, <1>3, <1>4, <1>5, <1>6, <1>7, <1>8 DEF CheckoutStep

(* A GetCart call: served, then cached and handed over. *)
LEMMA GetCartInv ==
  ASSUME IndInv, NEW c \in Checkout, GetCartStep(c)
  PROVE  IndInv'
<1>1. CASE ServeGetCart(c)
  <2>1. TypeOK'
    <3>1. cart[checkouts[c].user] \in 0..MaxQty
      BY <1>1 DEF IndInv, TypeOK, CallsHaveCallers, ServeGetCart
    <3>2. [pc |-> "ok", qty |-> cart[checkouts[c].user]] \in GetCartRec
      BY <3>1 DEF GetCartRec, CallPc
    <3>3. [getCart[c] EXCEPT !.pc = "error"] \in GetCartRec
      BY GetCartTyped DEF IndInv, TypeOK, CallPc
    <3>4. getCart' \in [Checkout -> GetCartRec]
      BY <1>1, <3>2, <3>3 DEF IndInv, TypeOK, ServeGetCart
    <3> QED
      BY <1>1, <3>4 DEF IndInv, TypeOK, ServeGetCart
  <2>2. CallsHaveCallers'
    BY <1>1 DEF IndInv, TypeOK, ServeGetCart, CallsHaveCallers, Qty, GetCartRec, CheckoutRec
  <2>3. RowsAreCommitted' /\ MarksAreTrue' /\ CachedMarkIsTrue' /\ ChargesAreTrue' /\ CheckoutsAreTrue'
    BY <1>1, RowsStay, MarksStay, CachedMarkStays, ChargesStay, CheckoutsStay
       DEF IndInv, ServeGetCart
  <2> QED
    BY <2>1, <2>2, <2>3 DEF IndInv
<1>2. CASE ReplyGetCart(c)
  <2>1. TypeOK'
    <3>1. cache.getCart \cup {checkouts[c].user} \in SUBSET User
      BY <1>2 DEF IndInv, TypeOK, CallsHaveCallers, ReplyGetCart, Cache
    <3> QED
      BY <3>1, <1>2, GetCartTyped, CacheTyped DEF IndInv, TypeOK, ReplyGetCart, CallPc
  <2>2. CallsHaveCallers'
    BY <1>2 DEF IndInv, TypeOK, ReplyGetCart, CallsHaveCallers, Qty
  <2>3. CachedMarkIsTrue'
    BY <1>2 DEF IndInv, TypeOK, ReplyGetCart, CachedMarkIsTrue, Paid
  <2>4. RowsAreCommitted' /\ MarksAreTrue' /\ ChargesAreTrue' /\ CheckoutsAreTrue'
    BY <1>2, RowsStay, MarksStay, ChargesStay, CheckoutsStay
       DEF IndInv, ReplyGetCart
  <2> QED
    BY <2>1, <2>2, <2>3, <2>4 DEF IndInv
<1> QED
  BY <1>1, <1>2 DEF GetCartStep

(* Steps of PlaceOrder: only the commit writes the orders table. *)
LEMMA PlaceInv ==
  ASSUME IndInv, NEW o \in OrderId, PlaceStep(o)
  PROVE  IndInv'
<1>1. CASE PlaceInsert(o)
  <2>1. TypeOK'
    BY <1>1, PlaceTyped DEF IndInv, TypeOK, PlaceInsert, PlacePc
  <2>2. CallsHaveCallers'
    BY <1>1 DEF IndInv, TypeOK, PlaceInsert, CallsHaveCallers, Qty
  <2>3. RowsAreCommitted'
    BY <1>1 DEF IndInv, TypeOK, PlaceInsert, RowsAreCommitted, Committed, Placed
  <2>4. CheckoutsAreTrue'
    <3>1. UNCHANGED <<checkouts, charges>>
      BY <1>1 DEF PlaceInsert
    <3>2. \A p \in OrderId : places[p].pc # "idle" => PlaceKept(p)
      BY <1>1 DEF IndInv, TypeOK, PlaceInsert, PlaceKept, PlaceRec
    <3> QED
      BY <3>1, <3>2, PlacesMove DEF IndInv
  <2>5. MarksAreTrue' /\ CachedMarkIsTrue' /\ ChargesAreTrue'
    BY <1>1, MarksStay, CachedMarkStays, ChargesStay DEF IndInv, PlaceInsert
  <2> QED
    BY <2>1, <2>2, <2>3, <2>4, <2>5 DEF IndInv
<1>2. CASE CallEmptyCart(o)
  <2>1. CASE places' = [places EXCEPT ![o].pc = "commit"] /\ UNCHANGED emptyCart
    <3>1. TypeOK'
      BY <1>2, <2>1, PlaceTyped DEF IndInv, TypeOK, CallEmptyCart, PlacePc
    <3>2. CallsHaveCallers'
      BY <1>2, <2>1 DEF IndInv, TypeOK, CallEmptyCart, CallsHaveCallers, Qty, PlaceRec
    <3>3. RowsAreCommitted'
      BY <1>2, <2>1 DEF IndInv, TypeOK, CallEmptyCart, RowsAreCommitted, Committed, Placed,
         PlaceRec
    <3>4. CheckoutsAreTrue'
      BY <1>2, <2>1 DEF IndInv, TypeOK, CallEmptyCart, CheckoutsAreTrue, CheckoutOrder,
         CheckoutCharge, ChargeTxn, Committed, PlaceRec
    <3>5. MarksAreTrue' /\ CachedMarkIsTrue' /\ ChargesAreTrue'
      BY <1>2, <2>1, MarksStay, CachedMarkStays, ChargesStay
         DEF IndInv, CallEmptyCart
    <3> QED
      BY <3>1, <3>2, <3>3, <3>4, <3>5 DEF IndInv
  <2>2. CASE places' = [places EXCEPT ![o].pc = "waitEmpty"] /\ emptyCart' = [emptyCart EXCEPT ![o] = "run"]
    <3>1. TypeOK'
      BY <1>2, <2>2, PlaceTyped DEF IndInv, TypeOK, CallEmptyCart, PlacePc, CallPc
    <3>2. CallsHaveCallers'
      BY <1>2, <2>2 DEF IndInv, TypeOK, CallEmptyCart, CallsHaveCallers, Qty, PlaceRec
    <3>3. RowsAreCommitted'
      BY <1>2, <2>2 DEF IndInv, TypeOK, CallEmptyCart, RowsAreCommitted, Committed, Placed,
         PlaceRec
    <3>4. CheckoutsAreTrue'
      BY <1>2, <2>2 DEF IndInv, TypeOK, CallEmptyCart, CheckoutsAreTrue, CheckoutOrder,
         CheckoutCharge, ChargeTxn, Committed, PlaceRec
    <3>5. MarksAreTrue' /\ CachedMarkIsTrue' /\ ChargesAreTrue'
      BY <1>2, <2>2, MarksStay, CachedMarkStays, ChargesStay
         DEF IndInv, CallEmptyCart
    <3> QED
      BY <3>1, <3>2, <3>3, <3>4, <3>5 DEF IndInv
  <2> QED
    BY <1>2, <2>1, <2>2 DEF CallEmptyCart
<1>3. CASE AwaitEmptyCart(o)
  <2>1. TypeOK'
    BY <1>3, PlaceTyped DEF IndInv, TypeOK, AwaitEmptyCart, PlacePc
  <2>2. CallsHaveCallers'
    BY <1>3 DEF IndInv, TypeOK, AwaitEmptyCart, CallsHaveCallers, Qty
  <2>3. RowsAreCommitted'
    BY <1>3 DEF IndInv, TypeOK, AwaitEmptyCart, RowsAreCommitted, Committed, Placed
  <2>4. CheckoutsAreTrue'
    <3>1. UNCHANGED <<checkouts, charges>>
      BY <1>3 DEF AwaitEmptyCart
    <3>2. \A p \in OrderId : places[p].pc # "idle" => PlaceKept(p)
      BY <1>3 DEF IndInv, TypeOK, AwaitEmptyCart, PlaceKept, PlaceRec
    <3> QED
      BY <3>1, <3>2, PlacesMove DEF IndInv
  <2>5. MarksAreTrue' /\ CachedMarkIsTrue' /\ ChargesAreTrue'
    BY <1>3, MarksStay, CachedMarkStays, ChargesStay DEF IndInv, AwaitEmptyCart
  <2> QED
    BY <2>1, <2>2, <2>3, <2>4, <2>5 DEF IndInv
<1>4. CASE PlaceCommit(o)
  <2>1. TypeOK'
    <3>1. places[o].user \in User \cup {None} /\ places[o].qty \in 0..MaxQty
      BY DEF IndInv, TypeOK, PlaceRec
    <3> QED
      BY <3>1, <1>4, PlaceTyped DEF IndInv, TypeOK, PlaceCommit, PlacePc, OrderRow
  <2>2. CallsHaveCallers'
    BY <1>4 DEF IndInv, TypeOK, PlaceCommit, CallsHaveCallers, Qty
  <2>3. RowsAreCommitted'
    BY <1>4 DEF IndInv, TypeOK, PlaceCommit, RowsAreCommitted, Committed, Placed
  <2>4. MarksAreTrue'
    BY <1>4 DEF IndInv, TypeOK, PlaceCommit, MarksAreTrue, Placed, Paid, RowsAreCommitted,
       Committed
  <2>5. CachedMarkIsTrue'
    BY <1>4 DEF IndInv, TypeOK, PlaceCommit, CachedMarkIsTrue, Paid, RowsAreCommitted,
       Committed, Placed
  <2>6. ChargesAreTrue'
    BY <1>4 DEF IndInv, TypeOK, PlaceCommit, ChargesAreTrue, ChargeTxn, Paid, Marker,
       RowsAreCommitted, Committed, Placed
  <2>7. CheckoutsAreTrue'
    <3>1. UNCHANGED <<checkouts, charges>>
      BY <1>4 DEF PlaceCommit
    <3>2. \A p \in OrderId : places[p].pc # "idle" => PlaceKept(p)
      BY <1>4 DEF IndInv, TypeOK, PlaceCommit, PlaceKept, PlaceRec
    <3> QED
      BY <3>1, <3>2, PlacesMove DEF IndInv
  <2> QED
    BY <2>1, <2>2, <2>3, <2>4, <2>5, <2>6, <2>7 DEF IndInv
<1>5. CASE PlaceFails(o)
  <2>1. TypeOK'
    BY <1>5, PlaceTyped DEF IndInv, TypeOK, PlaceFails, PlacePc
  <2>2. CallsHaveCallers'
    BY <1>5 DEF IndInv, TypeOK, PlaceFails, CallsHaveCallers, Qty
  <2>3. RowsAreCommitted'
    BY <1>5 DEF IndInv, TypeOK, PlaceFails, RowsAreCommitted, Committed, Placed
  <2>4. CheckoutsAreTrue'
    <3>1. UNCHANGED <<checkouts, charges>>
      BY <1>5 DEF PlaceFails
    <3>2. \A p \in OrderId : places[p].pc # "idle" => PlaceKept(p)
      BY <1>5 DEF IndInv, TypeOK, PlaceFails, PlaceKept, PlaceRec
    <3> QED
      BY <3>1, <3>2, PlacesMove DEF IndInv
  <2>5. MarksAreTrue' /\ CachedMarkIsTrue' /\ ChargesAreTrue'
    BY <1>5, MarksStay, CachedMarkStays, ChargesStay DEF IndInv, PlaceFails
  <2> QED
    BY <2>1, <2>2, <2>3, <2>4, <2>5 DEF IndInv
<1>6. CASE PlaceReturnsError(o)
  <2>1. TypeOK'
    BY <1>6, PlaceTyped DEF IndInv, TypeOK, PlaceReturnsError, PlacePc
  <2>2. CallsHaveCallers'
    BY <1>6 DEF IndInv, TypeOK, PlaceReturnsError, CallsHaveCallers, Qty
  <2>3. RowsAreCommitted'
    BY <1>6 DEF IndInv, TypeOK, PlaceReturnsError, RowsAreCommitted, Committed, Placed
  <2>4. CheckoutsAreTrue'
    <3>1. UNCHANGED <<checkouts, charges>>
      BY <1>6 DEF PlaceReturnsError
    <3>2. \A p \in OrderId : places[p].pc # "idle" => PlaceKept(p)
      BY <1>6 DEF IndInv, TypeOK, PlaceReturnsError, PlaceKept, PlaceRec
    <3> QED
      BY <3>1, <3>2, PlacesMove DEF IndInv
  <2>5. MarksAreTrue' /\ CachedMarkIsTrue' /\ ChargesAreTrue'
    BY <1>6, MarksStay, CachedMarkStays, ChargesStay DEF IndInv, PlaceReturnsError
  <2> QED
    BY <2>1, <2>2, <2>3, <2>4, <2>5 DEF IndInv
<1> QED
  BY <1>1, <1>2, <1>3, <1>4, <1>5, <1>6 DEF PlaceStep

(* The calls of and to PlaceOrder: served, cached and handed over. *)
LEMMA PlaceCallInv ==
  ASSUME IndInv, NEW o \in OrderId, PlaceCallStep(o)
  PROVE  IndInv'
<1>1. CASE ServeEmptyCart(o)
  <2>1. TypeOK'
    BY <1>1 DEF IndInv, TypeOK, ServeEmptyCart, CallPc
  <2>2. CallsHaveCallers'
    BY <1>1 DEF IndInv, TypeOK, ServeEmptyCart, CallsHaveCallers, Qty
  <2>3. RowsAreCommitted' /\ MarksAreTrue' /\ CachedMarkIsTrue' /\ ChargesAreTrue' /\ CheckoutsAreTrue'
    BY <1>1, RowsStay, MarksStay, CachedMarkStays, ChargesStay, CheckoutsStay
       DEF IndInv, ServeEmptyCart
  <2> QED
    BY <2>1, <2>2, <2>3 DEF IndInv
<1>2. CASE ReplyEmptyCart(o)
  <2>1. TypeOK'
    <3>1. cache.emptyCart \cup {places[o].user} \in SUBSET User
      BY <1>2 DEF IndInv, TypeOK, CallsHaveCallers, ReplyEmptyCart, Cache
    <3> QED
      BY <3>1, <1>2, CacheTyped DEF IndInv, TypeOK, ReplyEmptyCart, CallPc
  <2>2. CallsHaveCallers'
    BY <1>2 DEF IndInv, TypeOK, ReplyEmptyCart, CallsHaveCallers, Qty
  <2>3. CachedMarkIsTrue'
    BY <1>2 DEF IndInv, TypeOK, ReplyEmptyCart, CachedMarkIsTrue, Paid
  <2>4. RowsAreCommitted' /\ MarksAreTrue' /\ ChargesAreTrue' /\ CheckoutsAreTrue'
    BY <1>2, RowsStay, MarksStay, ChargesStay, CheckoutsStay
       DEF IndInv, ReplyEmptyCart
  <2> QED
    BY <2>1, <2>2, <2>3, <2>4 DEF IndInv
<1>3. CASE ReplyPlaceOrder(o)
  <2>1. TypeOK'
    <3>1. cache.placeOrder \cup {<<places[o].user, places[o].qty>>} \in SUBSET (User \X Qty)
      BY <1>3 DEF IndInv, TypeOK, CallsHaveCallers, ReplyPlaceOrder, Cache
    <3> QED
      BY <3>1, <1>3, PlaceTyped, CacheTyped DEF IndInv, TypeOK, ReplyPlaceOrder, PlacePc
  <2>2. CallsHaveCallers'
    BY <1>3 DEF IndInv, TypeOK, ReplyPlaceOrder, CallsHaveCallers, Qty
  <2>3. RowsAreCommitted'
    BY <1>3 DEF IndInv, TypeOK, ReplyPlaceOrder, RowsAreCommitted, Committed, Placed
  <2>4. CachedMarkIsTrue'
    BY <1>3 DEF IndInv, TypeOK, ReplyPlaceOrder, CachedMarkIsTrue, Paid
  <2>5. CheckoutsAreTrue'
    <3>1. UNCHANGED <<checkouts, charges>>
      BY <1>3 DEF ReplyPlaceOrder
    <3>2. \A p \in OrderId : places[p].pc # "idle" => PlaceKept(p)
      BY <1>3 DEF IndInv, TypeOK, ReplyPlaceOrder, PlaceKept, PlaceRec
    <3> QED
      BY <3>1, <3>2, PlacesMove DEF IndInv
  <2>6. MarksAreTrue' /\ ChargesAreTrue'
    BY <1>3, MarksStay, ChargesStay DEF IndInv, ReplyPlaceOrder
  <2> QED
    BY <2>1, <2>2, <2>3, <2>4, <2>5, <2>6 DEF IndInv
<1> QED
  BY <1>1, <1>2, <1>3 DEF PlaceCallStep

(* Steps of Charge: its success rests on MarkOrderPaid's, or on a cached one. *)
LEMMA ChargeInv ==
  ASSUME IndInv, NEW t \in TxnId, ChargeStep(t)
  PROVE  IndInv'
<1>1. CASE SaveTransaction(t)
  <2>1. TypeOK'
    <3>1. /\ charges[t].order \in OrderId \cup {None} /\ charges[t].user \in User \cup {None}
          /\ charges[t].amount \in 0..MaxQty
      BY DEF IndInv, TypeOK, ChargeRec
    <3> QED
      BY <3>1, <1>1, ChargeTyped DEF IndInv, TypeOK, SaveTransaction, ChargePc, TxnRow
  <2>2. ChargesAreTrue'
    BY <1>1 DEF IndInv, TypeOK, SaveTransaction, ChargesAreTrue, ChargeTxn, Paid, Marker
  <2>3. CheckoutsAreTrue'
    <3>1. UNCHANGED <<checkouts, places>>
      BY <1>1 DEF SaveTransaction
    <3>2. \A r \in TxnId : charges[r].pc # "idle" => ChargeKept(r)
      BY <1>1 DEF IndInv, TypeOK, SaveTransaction, ChargeKept, ChargeRec
    <3> QED
      BY <3>1, <3>2, ChargesMove DEF IndInv
  <2>4. CallsHaveCallers' /\ RowsAreCommitted' /\ MarksAreTrue' /\ CachedMarkIsTrue'
    BY <1>1, CallersStay, RowsStay, MarksStay, CachedMarkStays
       DEF IndInv, SaveTransaction
  <2> QED
    BY <2>1, <2>2, <2>3, <2>4 DEF IndInv
<1>2. CASE CallMarkOrderPaid(t)
  <2>1. CASE /\ <<charges[t].user, charges[t].order>> \in cache.markPaid
             /\ charges' = [charges EXCEPT ![t].pc = "ok"]
             /\ UNCHANGED marks
    <3>1. TypeOK'
      BY <1>2, <2>1, ChargeTyped DEF IndInv, TypeOK, CallMarkOrderPaid, ChargePc
    <3>2. ChargesAreTrue'
      <4>1. Paid(charges[t].order) /\ orders[charges[t].order].user = charges[t].user
        BY <1>2, <2>1 DEF IndInv, CallMarkOrderPaid, CachedMarkIsTrue, ChargesAreTrue
      <4> QED
        BY <1>2, <2>1, <4>1 DEF IndInv, TypeOK, CallMarkOrderPaid, ChargesAreTrue, ChargeTxn,
           Paid, ChargeRec
    <3>3. CheckoutsAreTrue'
      BY <1>2, <2>1 DEF IndInv, TypeOK, CallMarkOrderPaid, CheckoutsAreTrue, CheckoutOrder,
         CheckoutCharge, ChargeTxn, Committed, ChargeRec
    <3>4. CallsHaveCallers' /\ RowsAreCommitted' /\ MarksAreTrue' /\ CachedMarkIsTrue'
      BY <1>2, <2>1, CallersStay, RowsStay, MarksStay, CachedMarkStays
         DEF IndInv, CallMarkOrderPaid
    <3> QED
      BY <3>1, <3>2, <3>3, <3>4 DEF IndInv
  <2>2. CASE /\ charges' = [charges EXCEPT ![t].pc = "waitMark"]
             /\ marks' = [marks EXCEPT ![t] = [pc |-> "check", user |-> charges[t].user,
                                             order |-> charges[t].order]]
    <3>1. TypeOK'
      <4>1. [pc |-> "check", user |-> charges[t].user, order |-> charges[t].order] \in MarkRec
        BY DEF IndInv, TypeOK, ChargeRec, MarkRec, MarkPc
      <4>2. charges' \in [TxnId -> ChargeRec]
        BY <2>2, ChargeTyped DEF IndInv, TypeOK, ChargePc
      <4> QED
        BY <1>2, <2>2, <4>1, <4>2 DEF IndInv, TypeOK, CallMarkOrderPaid, Marker
    <3>2. MarksAreTrue'
      <4>1. charges[t].user \in User /\ charges[t].order \in OrderId
        BY <1>2 DEF IndInv, ChargesAreTrue, CallMarkOrderPaid
      <4> QED
        BY <1>2, <2>2, <4>1 DEF IndInv, TypeOK, CallMarkOrderPaid, MarksAreTrue, Placed, Paid
    <3>3. ChargesAreTrue'
      BY <1>2, <2>2 DEF IndInv, TypeOK, CallMarkOrderPaid, ChargesAreTrue, ChargeTxn, Paid,
         Marker, ChargeRec, MarkRec
    <3>4. CheckoutsAreTrue'
      <4>1. UNCHANGED <<checkouts, places>>
        BY <1>2 DEF CallMarkOrderPaid
      <4>2. \A r \in TxnId : charges[r].pc # "idle" => ChargeKept(r)
        BY <1>2, <2>2 DEF IndInv, TypeOK, CallMarkOrderPaid, ChargeKept, ChargeRec
      <4> QED
        BY <4>1, <4>2, ChargesMove DEF IndInv
    <3>5. CallsHaveCallers' /\ RowsAreCommitted' /\ CachedMarkIsTrue'
      BY <1>2, <2>2, CallersStay, RowsStay, CachedMarkStays
         DEF IndInv, CallMarkOrderPaid
    <3> QED
      BY <3>1, <3>2, <3>3, <3>4, <3>5 DEF IndInv
  <2> QED
    BY <1>2, <2>1, <2>2 DEF CallMarkOrderPaid
<1>3. CASE AwaitMarkOrderPaid(t)
  <2>1. TypeOK'
    BY <1>3, ChargeTyped DEF IndInv, TypeOK, AwaitMarkOrderPaid, ChargePc
  <2>2. ChargesAreTrue'
    BY <1>3 DEF IndInv, TypeOK, AwaitMarkOrderPaid, ChargesAreTrue, ChargeTxn, Paid,
       Marker, MarksAreTrue
  <2>3. CheckoutsAreTrue'
    <3>1. UNCHANGED <<checkouts, places>>
      BY <1>3 DEF AwaitMarkOrderPaid
    <3>2. \A r \in TxnId : charges[r].pc # "idle" => ChargeKept(r)
      BY <1>3 DEF IndInv, TypeOK, AwaitMarkOrderPaid, ChargeKept, ChargeRec
    <3> QED
      BY <3>1, <3>2, ChargesMove DEF IndInv
  <2>4. CallsHaveCallers' /\ RowsAreCommitted' /\ MarksAreTrue' /\ CachedMarkIsTrue'
    BY <1>3, CallersStay, RowsStay, MarksStay, CachedMarkStays
       DEF IndInv, AwaitMarkOrderPaid
  <2> QED
    BY <2>1, <2>2, <2>3, <2>4 DEF IndInv
<1>4. CASE ChargeFails(t)
  <2>1. TypeOK'
    BY <1>4, ChargeTyped DEF IndInv, TypeOK, ChargeFails, ChargePc
  <2>2. ChargesAreTrue'
    BY <1>4 DEF IndInv, TypeOK, ChargeFails, ChargesAreTrue, ChargeTxn, Paid, Marker
  <2>3. CheckoutsAreTrue'
    <3>1. UNCHANGED <<checkouts, places>>
      BY <1>4 DEF ChargeFails
    <3>2. \A r \in TxnId : charges[r].pc # "idle" => ChargeKept(r)
      BY <1>4 DEF IndInv, TypeOK, ChargeFails, ChargeKept, ChargeRec
    <3> QED
      BY <3>1, <3>2, ChargesMove DEF IndInv
  <2>4. CallsHaveCallers' /\ RowsAreCommitted' /\ MarksAreTrue' /\ CachedMarkIsTrue'
    BY <1>4, CallersStay, RowsStay, MarksStay, CachedMarkStays
       DEF IndInv, ChargeFails
  <2> QED
    BY <2>1, <2>2, <2>3, <2>4 DEF IndInv
<1>5. CASE ChargeReturnsError(t)
  <2>1. TypeOK'
    BY <1>5, ChargeTyped DEF IndInv, TypeOK, ChargeReturnsError, ChargePc
  <2>2. ChargesAreTrue'
    BY <1>5 DEF IndInv, TypeOK, ChargeReturnsError, ChargesAreTrue, ChargeTxn, Paid, Marker
  <2>3. CheckoutsAreTrue'
    <3>1. UNCHANGED <<checkouts, places>>
      BY <1>5 DEF ChargeReturnsError
    <3>2. \A r \in TxnId : charges[r].pc # "idle" => ChargeKept(r)
      BY <1>5 DEF IndInv, TypeOK, ChargeReturnsError, ChargeKept, ChargeRec
    <3> QED
      BY <3>1, <3>2, ChargesMove DEF IndInv
  <2>4. CallsHaveCallers' /\ RowsAreCommitted' /\ MarksAreTrue' /\ CachedMarkIsTrue'
    BY <1>5, CallersStay, RowsStay, MarksStay, CachedMarkStays
       DEF IndInv, ChargeReturnsError
  <2> QED
    BY <2>1, <2>2, <2>3, <2>4 DEF IndInv
<1> QED
  BY <1>1, <1>2, <1>3, <1>4, <1>5 DEF ChargeStep

(* The reply that is cached is that of a MarkOrderPaid that succeeded. *)
LEMMA ReplyMarkInv ==
  ASSUME IndInv, NEW t \in TxnId, ReplyMarkOrderPaid(t)
  PROVE  IndInv'
<1>1. TypeOK'
  <2>1. cache.markPaid \cup {<<marks[t].user, marks[t].order>>} \in SUBSET (User \X OrderId)
    BY DEF IndInv, TypeOK, MarksAreTrue, Marker, ReplyMarkOrderPaid, Cache
  <2> QED
    BY <2>1, MarkTyped, CacheTyped DEF IndInv, TypeOK, ReplyMarkOrderPaid, MarkPc, Marker
<1>2. MarksAreTrue'
  BY DEF IndInv, TypeOK, ReplyMarkOrderPaid, MarksAreTrue, Placed, Paid
<1>3. CachedMarkIsTrue'
  <2>1. cache'.markPaid = cache.markPaid \cup {<<marks[t].user, marks[t].order>>}
    BY DEF IndInv, TypeOK, Cache, ReplyMarkOrderPaid
  <2>2. Paid(marks[t].order) /\ orders[marks[t].order].user = marks[t].user
    BY DEF IndInv, MarksAreTrue, Marker, ReplyMarkOrderPaid
  <2> QED
    BY <2>1, <2>2 DEF IndInv, CachedMarkIsTrue, Paid, ReplyMarkOrderPaid
<1>4. ChargesAreTrue'
  BY DEF IndInv, TypeOK, ReplyMarkOrderPaid, ChargesAreTrue, ChargeTxn, Paid, Marker
<1>5. CallsHaveCallers' /\ RowsAreCommitted' /\ CheckoutsAreTrue'
  BY CallersStay, RowsStay, CheckoutsStay DEF IndInv, ReplyMarkOrderPaid
<1> QED
  BY <1>1, <1>2, <1>3, <1>4, <1>5 DEF IndInv

(* Steps of MarkOrderPaid: the row found by the check is still there for the update. *)
LEMMA MarkInv ==
  ASSUME IndInv, NEW m \in Marker, MarkStep(m)
  PROVE  IndInv'
<1>1. CASE MarkCheck(m)
  <2>1. CASE Payable(m) /\ marks' = [marks EXCEPT ![m].pc = "update"]
    <3>1. TypeOK'
      BY <1>1, <2>1, MarkTyped DEF IndInv, TypeOK, MarkCheck, MarkPc, Marker
    <3>2. MarksAreTrue'
      BY <1>1, <2>1 DEF IndInv, TypeOK, MarkCheck, MarksAreTrue, Placed, Paid, MarkRec,
         Payable
    <3>3. ChargesAreTrue'
      BY <1>1, <2>1 DEF IndInv, TypeOK, MarkCheck, ChargesAreTrue, ChargeTxn, Paid, Marker,
         MarkRec, Payable
    <3>4. CallsHaveCallers' /\ RowsAreCommitted' /\ CachedMarkIsTrue' /\ CheckoutsAreTrue'
      BY <1>1, <2>1, CallersStay, RowsStay, CachedMarkStays, CheckoutsStay
         DEF IndInv, MarkCheck
    <3> QED
      BY <3>1, <3>2, <3>3, <3>4 DEF IndInv
  <2>2. CASE marks' = [marks EXCEPT ![m].pc = "error"]
    <3>1. TypeOK'
      BY <1>1, <2>2, MarkTyped DEF IndInv, TypeOK, MarkCheck, MarkPc, Marker
    <3>2. MarksAreTrue'
      BY <1>1, <2>2 DEF IndInv, TypeOK, MarkCheck, MarksAreTrue, Placed, Paid, MarkRec,
         Payable
    <3>3. ChargesAreTrue'
      BY <1>1, <2>2 DEF IndInv, TypeOK, MarkCheck, ChargesAreTrue, ChargeTxn, Paid, Marker,
         MarkRec, Payable
    <3>4. CallsHaveCallers' /\ RowsAreCommitted' /\ CachedMarkIsTrue' /\ CheckoutsAreTrue'
      BY <1>1, <2>2, CallersStay, RowsStay, CachedMarkStays, CheckoutsStay
         DEF IndInv, MarkCheck
    <3> QED
      BY <3>1, <3>2, <3>3, <3>4 DEF IndInv
  <2> QED
    BY <1>1, <2>1, <2>2 DEF MarkCheck
<1>2. CASE MarkUpdate(m)
  <2>1. CASE /\ orders' = [orders EXCEPT ![marks[m].order].status = "PAID"]
             /\ marks' = [marks EXCEPT ![m].pc = "ok"]
    <3>1. TypeOK'
      <4> marks[m].order \in OrderId
        BY <1>2 DEF IndInv, MarksAreTrue, MarkUpdate
      <4>1. [orders[marks[m].order] EXCEPT !.status = "PAID"] \in OrderRow
        BY DEF IndInv, TypeOK, OrderRow
      <4>2. marks' \in [Marker -> MarkRec]
        BY <2>1, MarkTyped DEF IndInv, TypeOK, MarkPc
      <4>3. orders' \in [OrderId -> OrderRow]
        BY <2>1, <4>1 DEF IndInv, TypeOK
      <4> QED
        BY <1>2, <4>2, <4>3 DEF IndInv, TypeOK, MarkUpdate
    <3>2. RowsAreCommitted'
      BY <1>2, <2>1 DEF IndInv, TypeOK, MarkUpdate, RowsAreCommitted, MarksAreTrue,
         Committed, Placed, OrderRow
    <3>3. MarksAreTrue'
      BY <1>2, <2>1 DEF IndInv, TypeOK, MarkUpdate, MarksAreTrue, Placed, Paid, OrderRow,
         MarkRec
    <3>4. CachedMarkIsTrue'
      BY <1>2, <2>1 DEF IndInv, TypeOK, MarkUpdate, CachedMarkIsTrue, Paid, OrderRow
    <3>5. ChargesAreTrue'
      BY <1>2, <2>1 DEF IndInv, TypeOK, MarkUpdate, ChargesAreTrue, ChargeTxn, Paid,
         Marker, OrderRow, MarkRec
    <3>6. CallsHaveCallers' /\ CheckoutsAreTrue'
      BY <1>2, <2>1, CallersStay, CheckoutsStay DEF IndInv, MarkUpdate
    <3> QED
      BY <3>1, <3>2, <3>3, <3>4, <3>5, <3>6 DEF IndInv
  <2>2. CASE marks' = [marks EXCEPT ![m].pc = "error"] /\ UNCHANGED orders
    <3>1. TypeOK'
      BY <1>2, <2>2, MarkTyped DEF IndInv, TypeOK, MarkUpdate, MarkPc, Marker
    <3>2. MarksAreTrue'
      BY <1>2, <2>2 DEF IndInv, TypeOK, MarkUpdate, MarksAreTrue, Placed, Paid, MarkRec
    <3>3. ChargesAreTrue'
      BY <1>2, <2>2 DEF IndInv, TypeOK, MarkUpdate, ChargesAreTrue, ChargeTxn, Paid,
         Marker, MarkRec
    <3>4. CallsHaveCallers' /\ RowsAreCommitted' /\ CachedMarkIsTrue' /\ CheckoutsAreTrue'
      BY <1>2, <2>2, CallersStay, RowsStay, CachedMarkStays, CheckoutsStay
         DEF IndInv, MarkUpdate
    <3> QED
      BY <3>1, <3>2, <3>3, <3>4 DEF IndInv
  <2> QED
    BY <1>2, <2>1, <2>2 DEF MarkUpdate
<1> QED
  BY <1>1, <1>2 DEF MarkStep

-----------------------------------------------------------------------------
(* The invariant holds before any request. *)
LEMMA InitInv == Init => IndInv
<1> SUFFICES ASSUME Init PROVE IndInv
  OBVIOUS
<1>1. TypeOK
  BY DEF Init, TypeOK, NoRequest, NoRow, NoTxn, CheckoutRec, GetCartRec, PlaceRec, OrderRow,
         ChargeRec, TxnRow, MarkRec, Cache, CheckoutPc, CallPc, PlacePc, ChargePc, MarkPc
<1>2. CallsHaveCallers /\ RowsAreCommitted /\ MarksAreTrue
  BY DEF Init, CallsHaveCallers, RowsAreCommitted, MarksAreTrue, Committed, Placed, NoRow
<1>3. CachedMarkIsTrue /\ ChargesAreTrue /\ CheckoutsAreTrue
  BY DEF Init, CachedMarkIsTrue, ChargesAreTrue, CheckoutsAreTrue, Marker, NoRequest
<1> QED
  BY <1>1, <1>2, <1>3 DEF IndInv

(* A step that changes nothing keeps it. *)
LEMMA StutterInv ==
  ASSUME IndInv, UNCHANGED vars
  PROVE  IndInv'
<1>1. TypeOK'
  BY DEF IndInv, TypeOK, vars
<1>2. CallsHaveCallers' /\ RowsAreCommitted' /\ MarksAreTrue'
  BY CallersStay, RowsStay, MarksStay DEF IndInv, vars
<1>3. CachedMarkIsTrue' /\ ChargesAreTrue'
  BY CachedMarkStays, ChargesStay DEF IndInv, vars
<1>4. CheckoutsAreTrue'
  BY CheckoutsStay DEF IndInv, vars
<1> QED
  BY <1>1, <1>2, <1>3, <1>4 DEF IndInv

(* Every step of the system preserves the invariant. *)
LEMMA StepInv == IndInv /\ [Next]_vars => IndInv'
<1> SUFFICES ASSUME IndInv, [Next]_vars
             PROVE  IndInv'
  OBVIOUS
<1>1. CASE ClientStep
  BY <1>1, AddItemInv, DirectEmptyCartInv, CheckoutBeginInv, DirectPlaceOrderInv,
     DirectChargeInv, DirectMarkInv DEF ClientStep
<1>2. CASE Expire
  BY <1>2, ExpireInv
<1>3. CASE \E c \in Checkout : CheckoutStep(c) \/ GetCartStep(c)
  BY <1>3, CheckoutInv, GetCartInv
<1>4. CASE \E o \in OrderId : PlaceStep(o) \/ PlaceCallStep(o)
  BY <1>4, PlaceInv, PlaceCallInv
<1>5. CASE \E t \in TxnId : ChargeStep(t) \/ ReplyMarkOrderPaid(t)
  BY <1>5, ChargeInv, ReplyMarkInv
<1>6. CASE \E m \in Marker : MarkStep(m)
  BY <1>6, MarkInv
<1>7. CASE UNCHANGED vars
  BY <1>7, StutterInv
<1> QED
  BY <1>1, <1>2, <1>3, <1>4, <1>5, <1>6, <1>7 DEF Next

(* IndInv is an invariant of the purchase path. *)
THEOREM Invariance == Spec => []IndInv
<1> QED
  BY InitInv, StepInv, PTL DEF Spec

(* The tables, the handlers and the cache always hold what TypeOK says. *)
THEOREM TypeCorrect == Spec => []TypeOK
<1>1. IndInv => TypeOK
  BY DEF IndInv
<1> QED
  BY Invariance, <1>1, PTL

(* A cached MarkOrderPaid reply is never a lie. *)
THEOREM CachedMarksAreTrue == Spec => []CachedMarkIsTrue
<1>1. IndInv => CachedMarkIsTrue
  BY DEF IndInv
<1> QED
  BY Invariance, <1>1, PTL

(* A checkout that reports success has an order of its own, paid, and a    *)
(* transaction of the order's amount: whatever faults, timeouts, abandoned *)
(* calls, cached replies and other clients come in between.                *)
THEOREM SuccessIsPaid == Spec => []SuccessMeansPaid
<1>1. IndInv => SuccessMeansPaid
  <2> SUFFICES ASSUME IndInv, NEW c \in Checkout, checkouts[c].pc = "ok"
               PROVE  LET o == checkouts[c].order
                          t == checkouts[c].txn
                      IN  /\ Paid(o)
                          /\ orders[o].user = checkouts[c].user
                          /\ orders[o].amount = checkouts[c].qty
                          /\ txns[t] = [order |-> o, user |-> checkouts[c].user,
                                        amount |-> checkouts[c].qty]
    BY DEF SuccessMeansPaid
  <2> DEFINE o == checkouts[c].order
             t == checkouts[c].txn
  <2>1. CheckoutOrder(c) /\ Committed(o) /\ CheckoutCharge(c) /\ charges[t].pc = "ok"
    BY DEF IndInv, CheckoutsAreTrue
  <2>2. orders[o].user = checkouts[c].user /\ orders[o].amount = checkouts[c].qty
    BY <2>1 DEF IndInv, RowsAreCommitted, CheckoutOrder
  <2>3. txns[t] = ChargeTxn(t) /\ Paid(charges[t].order)
    BY <2>1 DEF IndInv, ChargesAreTrue, CheckoutCharge
  <2>4. ChargeTxn(t) = [order |-> o, user |-> checkouts[c].user, amount |-> checkouts[c].qty]
    BY <2>1 DEF CheckoutCharge
  <2>5. charges[t].order = o
    BY <2>4 DEF ChargeTxn
  <2> QED
    BY <2>2, <2>3, <2>4, <2>5
<1> QED
  BY Invariance, <1>1, PTL

(* A Charge that reports success is of a paid order. *)
THEOREM ChargesArePaid == Spec => []ChargedIsPaid
<1>1. IndInv => ChargedIsPaid
  <2> SUFFICES ASSUME IndInv, NEW t \in TxnId, charges[t].pc = "ok"
               PROVE  Paid(txns[t].order)
    BY DEF ChargedIsPaid
  <2>1. txns[t] = ChargeTxn(t) /\ Paid(charges[t].order)
    BY DEF IndInv, ChargesAreTrue
  <2> QED
    BY <2>1 DEF ChargeTxn
<1> QED
  BY Invariance, <1>1, PTL

(* The orders table only grows, and its rows only move from CREATED to     *)
(* PAID: PlaceOrder's commit meets no row of its id, and MarkOrderPaid's   *)
(* late update, whatever its check has missed, finds a row that is CREATED *)
(* or PAID and changes its status alone.                                   *)
THEOREM OrdersAdvance == Spec => OrdersOnlyAdvance
<1> DEFINE Advance == \A o \in OrderId : Placed(o) =>
                        /\ Placed(o)'
                        /\ Paid(o) => Paid(o)'
                        /\ orders'[o].user = orders[o].user
                        /\ orders'[o].amount = orders[o].amount
<1>1. IndInv /\ [Next]_vars => [Advance]_vars
  <2> SUFFICES ASSUME IndInv, Next
               PROVE  Advance
    OBVIOUS
  <2>1. CASE UNCHANGED orders
    BY <2>1 DEF Placed, Paid
  <2>2. CASE \E o \in OrderId : PlaceCommit(o)
    <3>1. PICK o \in OrderId : PlaceCommit(o)
      BY <2>2
    <3>2. ~Placed(o) /\ \A p \in OrderId \ {o} : orders'[p] = orders[p]
      BY <3>1 DEF IndInv, TypeOK, RowsAreCommitted, Committed, PlaceCommit
    <3> QED
      BY <3>2 DEF Placed, Paid
  <2>3. CASE \E m \in Marker : MarkUpdate(m)
    <3>1. PICK m \in Marker : MarkUpdate(m)
      BY <2>3
    <3>2. CASE orders' = [orders EXCEPT ![marks[m].order].status = "PAID"]
      BY <3>2 DEF IndInv, TypeOK, OrderRow, Placed, Paid
    <3> QED
      BY <2>1, <3>1, <3>2 DEF MarkUpdate
  <2>4. CASE ClientStep \/ Expire
    BY <2>1, <2>4 DEF ClientStep, AddItem, DirectEmptyCart, CheckoutBegin, DirectPlaceOrder,
       DirectCharge, DirectMarkOrderPaid, Expire
  <2>5. CASE \E c \in Checkout : CheckoutStep(c) \/ GetCartStep(c)
    BY <2>1, <2>5 DEF CheckoutStep, GetCartStep, CallGetCart, AwaitGetCart, CallPlaceOrder,
       AwaitPlaceOrder, CallCharge, AwaitCharge, CheckoutFails, CheckoutReturnsError,
       ServeGetCart, ReplyGetCart
  <2>6. CASE \E o \in OrderId : PlaceStep(o) \/ PlaceCallStep(o)
    BY <2>1, <2>2, <2>6 DEF PlaceStep, PlaceCallStep, PlaceInsert, CallEmptyCart,
       AwaitEmptyCart, PlaceFails, PlaceReturnsError, ServeEmptyCart, ReplyEmptyCart,
       ReplyPlaceOrder
  <2>7. CASE \E t \in TxnId : ChargeStep(t) \/ ReplyMarkOrderPaid(t)
    BY <2>1, <2>7 DEF ChargeStep, SaveTransaction, CallMarkOrderPaid, AwaitMarkOrderPaid,
       ChargeFails, ChargeReturnsError, ReplyMarkOrderPaid
  <2>8. CASE \E m \in Marker : MarkStep(m)
    BY <2>1, <2>3, <2>8 DEF MarkStep, MarkCheck
  <2> QED
    BY <2>4, <2>5, <2>6, <2>7, <2>8 DEF Next
<1> QED
  BY <1>1, Invariance, PTL DEF Spec, OrdersOnlyAdvance

-----------------------------------------------------------------------------
(* A charge's transaction.                                                 *)

LEMMA TxnsQuiet ==
  ASSUME TxnsAreCharged, UNCHANGED <<charges, txns>>
  PROVE  TxnsAreCharged'
BY DEF TxnsAreCharged, ChargeTxn

(* A charge, from its request to its answer.                               *)
LEMMA TxnsOfCharge ==
  ASSUME IndInv, TxnsAreCharged, NEW t \in TxnId,
         \/ \E u \in User, o \in OrderId, q \in Qty : DirectCharge(t, u, o, q)
         \/ ChargeStep(t)
  PROVE  TxnsAreCharged'
<1>1. CASE \E u \in User, o \in OrderId, q \in Qty : DirectCharge(t, u, o, q)
  BY <1>1 DEF IndInv, TypeOK, TxnsAreCharged, ChargeTxn, DirectCharge
<1>2. CASE SaveTransaction(t)
  <2>1. \A r \in TxnId \ {t} : txns'[r] = txns[r]
    BY <1>2 DEF IndInv, TypeOK, SaveTransaction
  <2> QED
    BY <1>2, <2>1 DEF IndInv, TypeOK, ChargeRec, TxnsAreCharged, ChargeTxn, SaveTransaction
<1>3. CASE CallMarkOrderPaid(t)
  <2>1. /\ charges[t].pc = "markPaid" /\ charges'[t].pc \in {"ok", "waitMark"}
        /\ ChargeTxn(t)' = ChargeTxn(t)
        /\ \A r \in TxnId \ {t} : charges'[r] = charges[r]
        /\ UNCHANGED txns
    BY <1>3 DEF IndInv, TypeOK, ChargeRec, ChargeTxn, CallMarkOrderPaid
  <2> QED
    BY <2>1 DEF TxnsAreCharged, ChargeTxn
<1>4. CASE AwaitMarkOrderPaid(t) \/ ChargeFails(t) \/ ChargeReturnsError(t)
  BY <1>4 DEF IndInv, TypeOK, ChargeRec, TxnsAreCharged, ChargeTxn, AwaitMarkOrderPaid,
     ChargeFails, ChargeReturnsError
<1> QED
  BY <1>1, <1>2, <1>3, <1>4 DEF ChargeStep

LEMMA TxnsStep == IndInv /\ TxnsAreCharged /\ [Next]_vars => TxnsAreCharged'
<1> SUFFICES ASSUME IndInv, TxnsAreCharged, [Next]_vars PROVE TxnsAreCharged'
  OBVIOUS
<1>1. CASE ClientStep
  BY <1>1, TxnsQuiet, TxnsOfCharge DEF ClientStep, AddItem, DirectEmptyCart, CheckoutBegin,
     DirectPlaceOrder, DirectMarkOrderPaid
<1>2. CASE Expire
  BY <1>2, TxnsQuiet DEF Expire
<1>3. CASE \E c \in Checkout : CheckoutStep(c) \/ GetCartStep(c)
  <2>1. PICK c \in Checkout : CheckoutStep(c) \/ GetCartStep(c)
    BY <1>3
  <2>2. CASE CallCharge(c)
    BY <2>2 DEF IndInv, TypeOK, TxnsAreCharged, ChargeTxn, CallCharge
  <2>3. CASE ~CallCharge(c)
    <3>1. UNCHANGED <<charges, txns>>
      BY <2>1, <2>3 DEF CheckoutStep, GetCartStep, CallGetCart, AwaitGetCart, CallPlaceOrder,
         AwaitPlaceOrder, AwaitCharge, CheckoutFails, CheckoutReturnsError, ServeGetCart,
         ReplyGetCart
    <3> QED
      BY <3>1, TxnsQuiet
  <2> QED
    BY <2>2, <2>3
<1>4. CASE \E o \in OrderId : PlaceStep(o) \/ PlaceCallStep(o)
  BY <1>4, TxnsQuiet DEF PlaceStep, PlaceCallStep, PlaceInsert, CallEmptyCart, AwaitEmptyCart,
     PlaceCommit, PlaceFails, PlaceReturnsError, ServeEmptyCart, ReplyEmptyCart, ReplyPlaceOrder
<1>5. CASE \E t \in TxnId : ChargeStep(t) \/ ReplyMarkOrderPaid(t)
  BY <1>5, TxnsOfCharge, TxnsQuiet DEF ReplyMarkOrderPaid
<1>6. CASE \E m \in Marker : MarkStep(m)
  BY <1>6, TxnsQuiet DEF MarkStep, MarkCheck, MarkUpdate
<1>7. CASE UNCHANGED vars
  BY <1>7, TxnsQuiet DEF vars
<1> QED
  BY <1>1, <1>2, <1>3, <1>4, <1>5, <1>6, <1>7 DEF Next

LEMMA TxnsInvariance == Spec => []TxnsAreCharged
<1>1. Init => TxnsAreCharged
  BY DEF Init, TxnsAreCharged, NoTxn
<1> QED
  BY <1>1, TxnsStep, Invariance, PTL DEF Spec

(* A transaction once recorded stays as it is: its charge is past its      *)
(* insert.                                                                 *)
LEMMA TxnsStay ==
  ASSUME IndInv, TxnsAreCharged, [Next]_vars
  PROVE  \A t \in TxnId : txns[t] # NoTxn => txns'[t] = txns[t]
<1>1. CASE \E t \in TxnId : SaveTransaction(t)
  BY <1>1 DEF IndInv, TypeOK, TxnsAreCharged, SaveTransaction
<1>2. CASE ~\E t \in TxnId : SaveTransaction(t)
  <2>1. UNCHANGED txns
    BY <1>2 DEF Next, ClientStep, AddItem, DirectEmptyCart, CheckoutBegin, DirectPlaceOrder,
       DirectCharge, DirectMarkOrderPaid, Expire, CheckoutStep, GetCartStep, CallGetCart,
       AwaitGetCart, CallPlaceOrder, AwaitPlaceOrder, CallCharge, AwaitCharge, CheckoutFails,
       CheckoutReturnsError, ServeGetCart, ReplyGetCart, PlaceStep, PlaceCallStep, PlaceInsert,
       CallEmptyCart, AwaitEmptyCart, PlaceCommit, PlaceFails, PlaceReturnsError,
       ServeEmptyCart, ReplyEmptyCart, ReplyPlaceOrder, ChargeStep, CallMarkOrderPaid,
       AwaitMarkOrderPaid, ChargeFails, ChargeReturnsError, ReplyMarkOrderPaid, MarkStep,
       MarkCheck, MarkUpdate, vars
  <2> QED
    BY <2>1
<1> QED
  BY <1>1, <1>2

-----------------------------------------------------------------------------
(* Marks come from transactions.                                           *)

(* Steps that add an order or a charge, but pay no order and keep every    *)
(* transaction, keep PaidInv.                                              *)
LEMMA PaidQuiet ==
  ASSUME PaidInv,
         \A g \in GatewayMark : marks'[g] = marks[g],
         \A o \in OrderId : Paid(o)' => Paid(o) /\ orders'[o].user = orders[o].user,
         \A t \in TxnId : txns[t] # NoTxn => txns'[t] = txns[t]
  PROVE  PaidInv'
<1>1. \A o \in OrderId, t \in TxnId : txns[t].order = o => txns[t] # NoTxn
  BY DEF NoTxn
<1> QED
  BY <1>1 DEF PaidInv, PaidWasCharged

(* MarkOrderPaid is run for a charge, whose transaction is there. *)
LEMMA PaidMark ==
  ASSUME IndInv, PaidInv, NEW m \in Marker, MarkStep(m)
  PROVE  PaidInv'
<1>0. marks[m].pc # "idle"
  BY DEF MarkStep, MarkCheck, MarkUpdate
<1>1. m \in TxnId
  BY <1>0 DEF PaidInv, Marker
<1>2. txns[m].order = marks[m].order /\ txns[m].user = marks[m].user
  <2>1. /\ txns[m] = ChargeTxn(m)
        /\ marks[m].order = charges[m].order /\ marks[m].user = charges[m].user
    BY <1>0, <1>1 DEF IndInv, ChargesAreTrue
  <2> QED
    BY <2>1 DEF ChargeTxn
<1>3. \A g \in GatewayMark : marks'[g].pc = "idle"
  <2>1. \A g \in Marker \ {m} : marks'[g] = marks[g]
    BY DEF IndInv, TypeOK, MarkStep, MarkCheck, MarkUpdate
  <2> QED
    BY <1>1, <2>1 DEF PaidInv, Marker
<1>4. \A o \in OrderId : Paid(o)' =>
        /\ orders'[o].user = orders[o].user
        /\ Paid(o) \/ (o = marks[m].order /\ orders[o].user = marks[m].user)
  <2>1. CASE UNCHANGED orders
    BY <2>1 DEF Paid
  <2>2. CASE /\ orders' = [orders EXCEPT ![marks[m].order].status = "PAID"]
             /\ marks[m].pc = "update"
    <3>1. orders[marks[m].order].user = marks[m].user
      BY <2>2 DEF IndInv, MarksAreTrue
    <3> QED
      BY <2>2, <3>1 DEF IndInv, TypeOK, OrderRow, Paid
  <2> QED
    BY <2>1, <2>2 DEF MarkStep, MarkCheck, MarkUpdate
<1>5. UNCHANGED txns
  BY DEF MarkStep, MarkCheck, MarkUpdate
<1>6. PaidWasCharged'
  BY <1>1, <1>2, <1>4, <1>5 DEF PaidInv, PaidWasCharged
<1> QED
  BY <1>3, <1>6 DEF PaidInv

(* Every step keeps PaidInv when clients mark no orders. *)
LEMMA PaidStep ==
  ASSUME "MarkOrderPaid" \notin Direct
  PROVE  IndInv /\ TxnsAreCharged /\ PaidInv /\ [Next]_vars => PaidInv'
<1> SUFFICES ASSUME IndInv, TxnsAreCharged, PaidInv, [Next]_vars
             PROVE  PaidInv'
  OBVIOUS
<1>1. CASE \E m \in Marker : MarkStep(m)
  BY <1>1, PaidMark
<1>2. CASE ~\E m \in Marker : MarkStep(m)
  <2>1. \A g \in GatewayMark : marks'[g] = marks[g]
    <3>1. UNCHANGED marks \/ \E t \in TxnId : CallMarkOrderPaid(t) \/ ReplyMarkOrderPaid(t)
      BY <1>2 DEF Next, ClientStep, AddItem, DirectEmptyCart, CheckoutBegin, DirectPlaceOrder,
         DirectCharge, DirectMarkOrderPaid, Expire, CheckoutStep, GetCartStep, CallGetCart,
         AwaitGetCart, CallPlaceOrder, AwaitPlaceOrder, CallCharge, AwaitCharge, CheckoutFails,
         CheckoutReturnsError, ServeGetCart, ReplyGetCart, PlaceStep, PlaceCallStep,
         PlaceInsert, CallEmptyCart, AwaitEmptyCart, PlaceCommit, PlaceFails,
         PlaceReturnsError, ServeEmptyCart, ReplyEmptyCart, ReplyPlaceOrder, ChargeStep,
         SaveTransaction, AwaitMarkOrderPaid, ChargeFails, ChargeReturnsError, vars
    <3> QED
      BY <3>1 DEF IndInv, TypeOK, Marker, CallMarkOrderPaid, ReplyMarkOrderPaid
  <2>2. UNCHANGED orders \/ \E o \in OrderId : PlaceCommit(o)
    BY <1>2 DEF Next, ClientStep, AddItem, DirectEmptyCart, CheckoutBegin, DirectPlaceOrder,
       DirectCharge, DirectMarkOrderPaid, Expire, CheckoutStep, GetCartStep, CallGetCart,
       AwaitGetCart, CallPlaceOrder, AwaitPlaceOrder, CallCharge, AwaitCharge, CheckoutFails,
       CheckoutReturnsError, ServeGetCart, ReplyGetCart, PlaceStep, PlaceCallStep, PlaceInsert,
       CallEmptyCart, AwaitEmptyCart, PlaceFails, PlaceReturnsError, ServeEmptyCart,
       ReplyEmptyCart, ReplyPlaceOrder, ChargeStep, SaveTransaction, CallMarkOrderPaid,
       AwaitMarkOrderPaid, ChargeFails, ChargeReturnsError, ReplyMarkOrderPaid, vars
  <2>3. \A o \in OrderId : Paid(o)' => Paid(o) /\ orders'[o].user = orders[o].user
    BY <2>2 DEF IndInv, TypeOK, Paid, PlaceCommit
  <2> QED
    BY <2>1, <2>3, TxnsStay, PaidQuiet
<1> QED
  BY <1>1, <1>2

LEMMA PaidInvariance ==
  ASSUME "MarkOrderPaid" \notin Direct
  PROVE  Spec => []PaidInv
<1>1. Init => PaidInv
  BY DEF Init, PaidInv, PaidWasCharged, Paid, NoRow, Marker
<1>2. IndInv /\ TxnsAreCharged /\ PaidInv /\ [Next]_vars => PaidInv'
  BY PaidStep
<1> QED
  BY <1>1, <1>2, Invariance, TxnsInvariance, PTL DEF Spec

(* No order is marked paid without a completed transaction of its user, as *)
(* long as clients do not call MarkOrderPaid: not through the cache, nor   *)
(* by a check that has grown stale.                                        *)
THEOREM PaidOrdersWereCharged ==
  ASSUME "MarkOrderPaid" \notin Direct
  PROVE  Spec => []PaidWasCharged
<1>1. PaidInv => PaidWasCharged
  BY DEF PaidInv
<1> QED
  BY <1>1, PaidInvariance, PTL

-----------------------------------------------------------------------------
(* Steps that leave checkouts, orders and charges alone keep OwnedInv. *)
LEMMA OwnedQuiet ==
  ASSUME OwnedInv, UNCHANGED <<checkouts, places, charges>>
  PROVE  OwnedInv'
BY DEF OwnedInv, OrdersAreOwned, ChargesAreOwned, Committed

(* Who an order or a charge is of, and which order it is about.            *)
LEMMA OwnersTyped ==
  ASSUME IndInv
  PROVE  /\ \A o \in OrderId : places[o].by \in Checkout \cup {None}
         /\ \A t \in TxnId : charges[t].by \in Checkout \cup {None}
         /\ \A c \in Checkout : checkouts[c].order \in OrderId \cup {None}
BY DEF IndInv, TypeOK, PlaceRec, ChargeRec, CheckoutRec

(* So do steps that move a checkout past a point without giving it an      *)
(* order or a charge.                                                      *)
LEMMA OwnedMove ==
  ASSUME IndInv, OwnedInv, UNCHANGED <<places, charges>>,
         \A d \in Checkout :
           /\ checkouts'[d].order = checkouts[d].order
           /\ checkouts'[d].txn = checkouts[d].txn
           /\ \/ checkouts'[d].pc = checkouts[d].pc
              \/ checkouts'[d].pc \in {"failing", "error", "ok"}
              \/ checkouts[d].pc \in {"idle", "getCart", "waitCart", "placeOrder"}
              \/ checkouts'[d].pc = "charge" /\ checkouts[d].pc = "waitOrder"
  PROVE  OwnedInv'
<1>1. OrdersAreOwned'
  BY OwnersTyped DEF OwnedInv, OrdersAreOwned
<1>2. ChargesAreOwned'
  BY OwnersTyped DEF OwnedInv, ChargesAreOwned, Committed
<1> QED
  BY <1>1, <1>2 DEF OwnedInv

(* So does entering the checkout handler. *)
LEMMA OwnedBegin ==
  ASSUME IndInv, OwnedInv, NEW c \in Checkout, NEW u \in User, CheckoutBegin(c, u)
  PROVE  OwnedInv'
<1>1. /\ UNCHANGED <<places, charges>>
      /\ \A d \in Checkout :
           /\ checkouts'[d].order = checkouts[d].order
           /\ checkouts'[d].txn = checkouts[d].txn
           /\ checkouts'[d].pc = checkouts[d].pc \/ checkouts[d].pc = "idle"
  BY DEF IndInv, TypeOK, CheckoutRec, CheckoutBegin
<1> QED
  BY <1>1, OwnedMove

(* A checkout takes an order and a charge nobody has, and only once. *)
LEMMA OwnedCheckout ==
  ASSUME IndInv, OwnedInv, NEW c \in Checkout, CheckoutStep(c)
  PROVE  OwnedInv'
<1>1. CASE CallGetCart(c) \/ AwaitGetCart(c)
  BY <1>1, OwnedMove DEF IndInv, TypeOK, CheckoutRec, CallGetCart, AwaitGetCart
<1>2. CASE CallPlaceOrder(c)
  <2>1. PICK o \in OrderId :
          /\ places[o].pc = "idle"
          /\ places' = [places EXCEPT ![o] = [pc |-> "insert", user |-> checkouts[c].user,
                                              qty |-> checkouts[c].qty, by |-> c]]
          /\ checkouts' = [checkouts EXCEPT ![c].pc = "waitOrder", ![c].order = o]
    BY <1>2 DEF CallPlaceOrder
  <2>2. /\ checkouts[c].pc = "placeOrder" /\ checkouts[c].order = None
        /\ UNCHANGED charges
    BY <1>2 DEF CallPlaceOrder, OwnedInv, OrdersAreOwned
  <2>3. OrdersAreOwned'
    BY <2>1, <2>2 DEF IndInv, TypeOK, CheckoutRec, OwnedInv, OrdersAreOwned
  <2>4. ChargesAreOwned'
    BY <2>1, <2>2 DEF IndInv, TypeOK, CheckoutRec, OwnedInv, OrdersAreOwned, ChargesAreOwned,
       ChargesAreTrue, Committed
  <2> QED
    BY <2>3, <2>4 DEF OwnedInv
<1>3. CASE CallCharge(c)
  <2>1. PICK t \in TxnId :
          /\ charges[t].pc = "idle"
          /\ charges' = [charges EXCEPT ![t] =
                            [pc |-> "save", user |-> checkouts[c].user, by |-> c,
                             order |-> checkouts[c].order, amount |-> checkouts[c].qty]]
          /\ checkouts' = [checkouts EXCEPT ![c].pc = "waitCharge", ![c].txn = t]
    BY <1>3 DEF CallCharge
  <2>2. /\ checkouts[c].pc = "charge" /\ checkouts[c].txn = None
        /\ CheckoutOrder(c) /\ Committed(checkouts[c].order)
        /\ UNCHANGED places
    BY <1>3 DEF CallCharge, OwnedInv, ChargesAreOwned, IndInv, CheckoutsAreTrue
  <2>3. OrdersAreOwned'
    <3>1. \A d \in Checkout : /\ checkouts'[d].order = checkouts[d].order
                             /\ checkouts'[d].pc = IF d = c THEN "waitCharge" ELSE checkouts[d].pc
      BY <2>1 DEF IndInv, TypeOK, CheckoutRec
    <3> QED
      BY <2>2, <3>1, OwnersTyped DEF OwnedInv, OrdersAreOwned
  <2>4. ChargesAreOwned'
    BY <2>1, <2>2 DEF IndInv, TypeOK, CheckoutRec, CheckoutOrder, OwnedInv, ChargesAreOwned,
       Committed
  <2> QED
    BY <2>3, <2>4 DEF OwnedInv
<1>4. CASE AwaitPlaceOrder(c) \/ AwaitCharge(c)
  BY <1>4, OwnedMove DEF IndInv, TypeOK, CheckoutRec, AwaitPlaceOrder, AwaitCharge
<1>5. CASE CheckoutFails(c) \/ CheckoutReturnsError(c)
  BY <1>5, OwnedMove DEF IndInv, TypeOK, CheckoutRec, CheckoutFails, CheckoutReturnsError
<1> QED
  BY <1>1, <1>2, <1>3, <1>4, <1>5 DEF CheckoutStep

(* A PlaceOrder handler keeps its request, and stays committed. *)
LEMMA OwnedPlace ==
  ASSUME IndInv, OwnedInv, NEW o \in OrderId, PlaceStep(o) \/ PlaceCallStep(o)
  PROVE  OwnedInv'
<1>1. CASE UNCHANGED places
  BY <1>1, OwnedQuiet DEF PlaceStep, PlaceCallStep, PlaceInsert, CallEmptyCart,
     AwaitEmptyCart, PlaceCommit, PlaceFails, PlaceReturnsError, ServeEmptyCart,
     ReplyEmptyCart, ReplyPlaceOrder
<1>2. CASE \E p \in PlacePc \ {"idle"} :
             /\ places' = [places EXCEPT ![o].pc = p]
             /\ places[o].pc # "idle"
             /\ Committed(o) => p \in {"ok", "replied"}
             /\ UNCHANGED <<checkouts, charges>>
  <2>0. PICK p \in PlacePc \ {"idle"} :
          /\ places' = [places EXCEPT ![o].pc = p]
          /\ places[o].pc # "idle"
          /\ Committed(o) => p \in {"ok", "replied"}
          /\ UNCHANGED <<checkouts, charges>>
    BY <1>2
  <2>1. \A x \in OrderId : /\ places'[x].pc = "idle" <=> places[x].pc = "idle"
                           /\ places'[x].by = places[x].by
                           /\ places'[x].user = places[x].user
                           /\ places'[x].qty = places[x].qty
                           /\ Committed(x) => Committed(x)'
    BY <2>0 DEF IndInv, TypeOK, PlaceRec, Committed
  <2>2. \A c \in Checkout : checkouts[c].order \in OrderId \cup {None}
    BY DEF IndInv, TypeOK, CheckoutRec
  <2>3. \A t \in TxnId : charges[t].pc # "idle" => charges[t].order \in OrderId
    BY DEF IndInv, ChargesAreTrue
  <2>4. OrdersAreOwned'
    BY <2>0, <2>1, <2>2 DEF OwnedInv, OrdersAreOwned
  <2>5. ChargesAreOwned'
    BY <2>0, <2>1, <2>3 DEF OwnedInv, ChargesAreOwned
  <2> QED
    BY <2>4, <2>5 DEF OwnedInv
<1> QED
  BY <1>1, <1>2 DEF PlaceStep, PlaceCallStep, PlaceInsert, CallEmptyCart, AwaitEmptyCart,
     PlaceCommit, PlaceFails, PlaceReturnsError, ServeEmptyCart, ReplyEmptyCart,
     ReplyPlaceOrder, PlacePc, Committed

(* A Charge handler keeps its request. *)
LEMMA OwnedCharge ==
  ASSUME IndInv, OwnedInv, NEW t \in TxnId, ChargeStep(t) \/ ReplyMarkOrderPaid(t)
  PROVE  OwnedInv'
<1>1. CASE UNCHANGED charges
  BY <1>1, OwnedQuiet DEF ChargeStep, SaveTransaction, CallMarkOrderPaid, AwaitMarkOrderPaid,
     ChargeFails, ChargeReturnsError, ReplyMarkOrderPaid
<1>2. CASE /\ \E p \in ChargePc \ {"idle"} : charges' = [charges EXCEPT ![t].pc = p]
           /\ charges[t].pc # "idle"
           /\ UNCHANGED <<checkouts, places>>
  <2>1. \A r \in TxnId :
          /\ charges'[r].by = charges[r].by /\ charges'[r].order = charges[r].order
          /\ charges'[r].user = charges[r].user /\ charges'[r].amount = charges[r].amount
          /\ charges'[r].pc = "idle" <=> charges[r].pc = "idle"
    BY <1>2 DEF IndInv, TypeOK, ChargeRec
  <2> QED
    BY <1>2, <2>1 DEF OwnedInv, OrdersAreOwned, ChargesAreOwned, Committed
<1> QED
  BY <1>1, <1>2 DEF ChargeStep, SaveTransaction, CallMarkOrderPaid, AwaitMarkOrderPaid,
     ChargeFails, ChargeReturnsError, ReplyMarkOrderPaid, ChargePc

(* Clients' own orders and charges are of no checkout.                     *)
LEMMA OwnedDirect ==
  ASSUME IndInv, OwnedInv, NEW u \in User, NEW o \in OrderId, NEW q \in Qty,
         DirectPlaceOrder(o, u, q) \/ \E t \in TxnId : DirectCharge(t, u, o, q)
  PROVE  OwnedInv'
<1>1. CASE DirectPlaceOrder(o, u, q)
  <2>1. /\ places[o].pc = "idle" /\ places[o].by = None /\ "PlaceOrder" \in Direct
        /\ places'[o] = [pc |-> "insert", user |-> u, qty |-> q, by |-> None]
        /\ \A p \in OrderId \ {o} : places'[p] = places[p]
        /\ UNCHANGED <<checkouts, charges>>
    BY <1>1 DEF DirectPlaceOrder, IndInv, TypeOK, OwnedInv, OrdersAreOwned
  <2>2. \A c \in Checkout : checkouts[c].order # None =>
          checkouts[c].order \in OrderId /\ checkouts[c].order # o
    BY <2>1 DEF IndInv, TypeOK, CheckoutRec, OwnedInv, OrdersAreOwned
  <2>3. OrdersAreOwned'
    BY <2>1, <2>2 DEF OwnedInv, OrdersAreOwned
  <2>4. \A t \in TxnId : charges[t].by # None =>
          charges[t].order \in OrderId /\ charges[t].order # o
    <3>1. ~Committed(o)
      BY <2>1 DEF Committed
    <3> QED
      BY <3>1 DEF IndInv, ChargesAreTrue, OwnedInv, ChargesAreOwned
  <2>5. ChargesAreOwned'
    BY <2>1, <2>4 DEF OwnedInv, ChargesAreOwned, Committed
  <2> QED
    BY <2>3, <2>5 DEF OwnedInv
<1>2. ASSUME NEW t \in TxnId, DirectCharge(t, u, o, q) PROVE OwnedInv'
  BY <1>2 DEF DirectCharge, IndInv, TypeOK, OwnedInv, OrdersAreOwned, ChargesAreOwned, Committed
<1> QED
  BY <1>1, <1>2

(* Checkouts keep to their own orders and charges at every step. *)
LEMMA OwnedStep == IndInv /\ OwnedInv /\ [Next]_vars => OwnedInv'
<1> SUFFICES ASSUME IndInv, OwnedInv, [Next]_vars
             PROVE  OwnedInv'
  OBVIOUS
<1>1. CASE ClientStep
  <2>1. \/ UNCHANGED <<checkouts, places, charges>>
        \/ \E c \in Checkout, u \in User : CheckoutBegin(c, u)
        \/ \E o \in OrderId, u \in User, q \in Qty :
             DirectPlaceOrder(o, u, q) \/ \E t \in TxnId : DirectCharge(t, u, o, q)
    BY <1>1 DEF ClientStep, AddItem, DirectEmptyCart, DirectMarkOrderPaid
  <2> QED
    BY <2>1, OwnedQuiet, OwnedBegin, OwnedDirect
<1>2. CASE Expire
  BY <1>2, OwnedQuiet DEF Expire
<1>3. CASE \E c \in Checkout : CheckoutStep(c) \/ GetCartStep(c)
  BY <1>3, OwnedCheckout, OwnedQuiet DEF GetCartStep, ServeGetCart, ReplyGetCart
<1>4. CASE \E o \in OrderId : PlaceStep(o) \/ PlaceCallStep(o)
  BY <1>4, OwnedPlace
<1>5. CASE \E t \in TxnId : ChargeStep(t) \/ ReplyMarkOrderPaid(t)
  BY <1>5, OwnedCharge
<1>6. CASE \E m \in Marker : MarkStep(m)
  BY <1>6, OwnedQuiet DEF MarkStep, MarkCheck, MarkUpdate
<1>7. CASE UNCHANGED vars
  BY <1>7, OwnedQuiet DEF vars
<1> QED
  BY <1>1, <1>2, <1>3, <1>4, <1>5, <1>6, <1>7 DEF Next

(* Whatever clients do with the services themselves, a checkout's order    *)
(* and charge are its only ones and nobody else's: no timeout, late answer *)
(* or cached reply lets two requests share one (checkout.go:64-109).       *)
THEOREM CheckoutsOwnOrders == Spec => []OwnedInv
<1>1. Init => OwnedInv
  BY DEF Init, OwnedInv, OrdersAreOwned, ChargesAreOwned, NoRequest
<1>2. IndInv /\ OwnedInv /\ [Next]_vars => OwnedInv'
  BY OwnedStep
<1> QED
  BY <1>1, <1>2, Invariance, PTL DEF Spec

(* Unless clients charge orders, two charges of one order are the same.    *)
LEMMA SameOrderSameCharge ==
  ASSUME IndInv, OwnedInv, "Charge" \notin Direct,
         NEW t \in TxnId, NEW r \in TxnId, charges[t].pc # "idle", charges[r].pc # "idle",
         charges[t].order = charges[r].order
  PROVE  t = r
<1> DEFINE c == charges[t].by
           d == charges[r].by
           o == charges[t].order
<1>1. c # None /\ d # None /\ c \in Checkout /\ d \in Checkout
  BY OwnersTyped DEF OwnedInv, ChargesAreOwned
<1>2. checkouts[c].txn = t /\ checkouts[c].order = o /\ checkouts[d].txn = r /\ checkouts[d].order = o
  BY <1>1 DEF OwnedInv, ChargesAreOwned
<1>3. o # None
  BY DEF IndInv, ChargesAreTrue
<1>4. c = places[o].by /\ d = places[o].by
  BY <1>1, <1>2, <1>3 DEF OwnedInv, OrdersAreOwned
<1> QED
  BY <1>2, <1>4

(* Unless clients charge orders themselves, an order is charged at most    *)
(* once, although MarkOrderPaid's check of its status does not ensure it   *)
(* (order_mark_paid.go:26-44).                                             *)
THEOREM CheckoutsChargeOnce ==
  ASSUME "Charge" \notin Direct
  PROVE  Spec => []OneChargeSucceeds
<1>1. IndInv /\ OwnedInv => OneChargeSucceeds
  BY SameOrderSameCharge DEF OneChargeSucceeds
<1> QED
  BY <1>1, Invariance, CheckoutsOwnOrders, PTL

-----------------------------------------------------------------------------
(* Steps that leave the tables alone are stutters of the ledger. *)
LEMMA LedgerQuiet ==
  ASSUME UNCHANGED <<orders, txns>>
  PROVE  UNCHANGED Ledger!vars
BY DEF Ledger!vars, Placed, Paid

(* The commit of PlaceOrder's transaction places the order. *)
LEMMA LedgerPlace ==
  ASSUME IndInv, NEW o \in OrderId, PlaceCommit(o)
  PROVE  Ledger!Next
<1>1. PICK u \in User, q \in 1..MaxQty : places[o].user = u /\ places[o].qty = q
  BY DEF IndInv, CallsHaveCallers, PlaceCommit, Qty
<1>2. ~Placed(o)
  BY DEF IndInv, RowsAreCommitted, Committed, PlaceCommit
<1>3. orders' = [orders EXCEPT ![o] = [status |-> "CREATED", user |-> u, amount |-> q]]
  BY <1>1 DEF PlaceCommit
<1>4. {p \in OrderId : Placed(p)}' = {p \in OrderId : Placed(p)} \cup {o}
  BY <1>3 DEF IndInv, TypeOK, Placed
<1>5. {p \in OrderId : Paid(p)}' = {p \in OrderId : Paid(p)}
  BY <1>2, <1>3 DEF IndInv, TypeOK, Placed, Paid
<1>6. [p \in OrderId |-> [user |-> orders[p].user, amount |-> orders[p].amount]]'
        = [[p \in OrderId |-> [user |-> orders[p].user, amount |-> orders[p].amount]]
             EXCEPT ![o] = [user |-> u, amount |-> q]]
  BY <1>3 DEF IndInv, TypeOK
<1>7. UNCHANGED txns
  BY DEF PlaceCommit
<1>8. Ledger!Place(o, u, q)
  <2>1. o \notin {p \in OrderId : Placed(p)}
    BY <1>2
  <2> QED
    BY <2>1, <1>4, <1>5, <1>6, <1>7, Zenon DEF Ledger!Place
<1> QED
  BY <1>8 DEF Ledger!Next

(* Charge's insert of the transaction pays for the order.  A checkout's    *)
(* order is committed, the amount is its own, and no other charge of it    *)
(* exists.                                                                 *)
LEMMA LedgerPay ==
  ASSUME IndInv, TxnsAreCharged, OwnedInv, NEW t \in TxnId, SaveTransaction(t)
  PROVE  Ledger!Next
<1> DEFINE o == charges[t].order
           u == charges[t].user
           q == charges[t].amount
<1>1. o \in OrderId /\ u \in User /\ q \in 1..MaxQty /\ charges[t].pc = "save"
  BY DEF IndInv, ChargesAreTrue, SaveTransaction, Qty
<1>2. txns[t] = NoTxn
  BY <1>1 DEF TxnsAreCharged
<1>3. ASSUME "Charge" \notin Direct
      PROVE  /\ Placed(o) /\ orders[o].user = u /\ orders[o].amount = q
             /\ \A r \in TxnId : txns[r].order # o
  <2>1. Committed(o) /\ u = places[o].user /\ q = places[o].qty
    BY <1>1, <1>3 DEF OwnedInv, ChargesAreOwned
  <2>2. Placed(o) /\ orders[o].user = u /\ orders[o].amount = q
    BY <1>1, <2>1 DEF IndInv, RowsAreCommitted
  <2>3. ASSUME NEW r \in TxnId, txns[r].order = o
        PROVE  FALSE
    <3>1. charges[r].pc \notin {"idle", "save"} /\ txns[r] = ChargeTxn(r)
      BY <1>1, <2>3 DEF TxnsAreCharged, NoTxn
    <3>2. charges[r].order = o
      BY <2>3, <3>1 DEF ChargeTxn
    <3>3. r = t
      BY <1>1, <1>3, <3>1, <3>2, SameOrderSameCharge
    <3> QED
      BY <1>1, <3>1, <3>3
  <2> QED
    BY <2>2, <2>3
<1>4. txns' = [txns EXCEPT ![t] = [order |-> o, user |-> u, amount |-> q]]
  BY DEF SaveTransaction
<1>5. UNCHANGED orders
  BY DEF SaveTransaction
<1> HIDE DEF o, u, q
<1>7. Ledger!Pay(t, o, u, q)
  <2>1. "Charge" \notin Direct =>
          /\ o \in {p \in OrderId : Placed(p)}
          /\ ~Ledger!PaidFor(o)
          /\ [p \in OrderId |-> [user |-> orders[p].user, amount |-> orders[p].amount]][o]
               = [user |-> u, amount |-> q]
    BY <1>1, <1>3 DEF Ledger!PaidFor
  <2>2. txns[t] = Ledger!NoTxn
    BY <1>2 DEF NoTxn, Ledger!NoTxn
  <2> QED
    BY <1>4, <1>5, <2>1, <2>2 DEF Ledger!Pay, Placed, Paid
<1> QED
  BY <1>1, <1>7 DEF Ledger!Next

(* MarkOrderPaid's update settles the order, or finds it settled since its *)
(* check.                                                                  *)
LEMMA LedgerSettle ==
  ASSUME IndInv, "MarkOrderPaid" \notin Direct => PaidInv, NEW m \in Marker, MarkUpdate(m)
  PROVE  Ledger!Next \/ UNCHANGED Ledger!vars
<1> DEFINE o == marks[m].order
<1>1. o \in OrderId /\ Placed(o) /\ orders[o].user = marks[m].user
  BY DEF IndInv, MarksAreTrue, MarkUpdate
<1>2. "MarkOrderPaid" \notin Direct => m \in TxnId
  BY DEF PaidInv, Marker, MarkUpdate
<1>3. m \in TxnId => txns[m].order = o /\ txns[m].user = orders[o].user
  <2>1. m \in TxnId => /\ txns[m] = ChargeTxn(m)
                       /\ o = charges[m].order /\ marks[m].user = charges[m].user
    BY DEF IndInv, ChargesAreTrue, MarkUpdate
  <2> QED
    BY <1>1, <2>1 DEF ChargeTxn
<1>4. CASE UNCHANGED orders
  BY <1>4, LedgerQuiet DEF MarkUpdate
<1>5. CASE orders' = [orders EXCEPT ![o].status = "PAID"]
  <2>1. \A p \in OrderId : /\ orders'[p].user = orders[p].user
                           /\ orders'[p].amount = orders[p].amount
                           /\ orders'[p].status = IF p = o THEN "PAID" ELSE orders[p].status
    BY <1>5 DEF IndInv, TypeOK, OrderRow
  <2> HIDE DEF o
  <2>2. {p \in OrderId : Placed(p)}' = {p \in OrderId : Placed(p)}
    BY <1>1, <2>1 DEF Placed
  <2>3. {p \in OrderId : Paid(p)}' = {p \in OrderId : Paid(p)} \cup {o}
    BY <1>1, <2>1 DEF Paid
  <2>4. [p \in OrderId |-> [user |-> orders[p].user, amount |-> orders[p].amount]]'
          = [p \in OrderId |-> [user |-> orders[p].user, amount |-> orders[p].amount]]
    BY <2>1
  <2>5. UNCHANGED txns
    BY DEF MarkUpdate
  <2>6. CASE Paid(o)
    <3>1. {p \in OrderId : Paid(p)} \cup {o} = {p \in OrderId : Paid(p)}
      BY <1>1, <2>6
    <3> QED
      BY <2>2, <2>3, <2>4, <2>5, <3>1 DEF Ledger!vars
  <2>7. CASE ~Paid(o)
    <3>1. "MarkOrderPaid" \notin Direct => Ledger!PaidByUser(o)
      BY <1>1, <1>2, <1>3 DEF Ledger!PaidByUser
    <3>2. Ledger!Settle(o)
      BY <1>1, <2>2, <2>3, <2>4, <2>5, <2>7, <3>1 DEF Ledger!Settle
    <3> QED
      BY <1>1, <3>2 DEF Ledger!Next
  <2> QED
    BY <2>6, <2>7
<1> QED
  BY <1>4, <1>5 DEF MarkUpdate

(* Every step of the purchase path is a step of the ledger or a stutter. *)
LEMMA LedgerStep ==
  ASSUME IndInv, TxnsAreCharged, OwnedInv, "MarkOrderPaid" \notin Direct => PaidInv
  PROVE  [Next]_vars => [Ledger!Next]_(Ledger!vars)
<1> SUFFICES ASSUME [Next]_vars
             PROVE  Ledger!Next \/ UNCHANGED Ledger!vars
  OBVIOUS
<1>1. \/ UNCHANGED <<orders, txns>>
      \/ \E o \in OrderId : PlaceCommit(o)
      \/ \E t \in TxnId : SaveTransaction(t)
      \/ \E m \in Marker : MarkUpdate(m)
  <2>1. CASE ClientStep
    BY <2>1 DEF ClientStep, AddItem, DirectEmptyCart, CheckoutBegin, DirectPlaceOrder,
       DirectCharge, DirectMarkOrderPaid
  <2>2. CASE Expire
    BY <2>2 DEF Expire
  <2>3. CASE \E c \in Checkout : CheckoutStep(c) \/ GetCartStep(c)
    BY <2>3 DEF CheckoutStep, GetCartStep, CallGetCart, AwaitGetCart, CallPlaceOrder,
       AwaitPlaceOrder, CallCharge, AwaitCharge, CheckoutFails, CheckoutReturnsError,
       ServeGetCart, ReplyGetCart
  <2>4. CASE \E o \in OrderId : PlaceStep(o) \/ PlaceCallStep(o)
    BY <2>4 DEF PlaceStep, PlaceCallStep, PlaceInsert, CallEmptyCart, AwaitEmptyCart,
       PlaceFails, PlaceReturnsError, ServeEmptyCart, ReplyEmptyCart, ReplyPlaceOrder
  <2>5. CASE \E t \in TxnId : ChargeStep(t) \/ ReplyMarkOrderPaid(t)
    BY <2>5 DEF ChargeStep, CallMarkOrderPaid, AwaitMarkOrderPaid, ChargeFails,
       ChargeReturnsError, ReplyMarkOrderPaid
  <2>6. CASE \E m \in Marker : MarkStep(m)
    BY <2>6 DEF MarkStep, MarkCheck
  <2>7. CASE UNCHANGED vars
    BY <2>7 DEF vars
  <2> QED
    BY <2>1, <2>2, <2>3, <2>4, <2>5, <2>6, <2>7 DEF Next
<1> QED
  BY <1>1, LedgerQuiet, LedgerPlace, LedgerPay, LedgerSettle

(* The purchase path, with its calls, cache, timeouts and faults, and with *)
(* whatever clients call themselves, is an implementation of OrderLedger:  *)
(* rows are written once, an order is paid for at most once, by its user,  *)
(* its amount, unless clients charge orders, and is marked paid only then, *)
(* unless clients mark orders.                                             *)
THEOREM PurchaseImplementsLedger == Spec => ImplementsLedger
<1>1. Init => Ledger!Init
  BY DEF Init, Ledger!Init, NoRow, NoTxn, Ledger!NoTxn, Placed, Paid
<1>2. CASE "MarkOrderPaid" \notin Direct
  <2>1. IndInv /\ TxnsAreCharged /\ OwnedInv /\ PaidInv /\ [Next]_vars
          => [Ledger!Next]_(Ledger!vars)
    BY LedgerStep
  <2>2. Spec => []PaidInv
    BY <1>2, PaidInvariance
  <2> QED
    BY <1>1, <2>1, <2>2, Invariance, TxnsInvariance, CheckoutsOwnOrders, PTL
       DEF Spec, ImplementsLedger, Ledger!Spec
<1>3. CASE "MarkOrderPaid" \in Direct
  <2>1. IndInv /\ TxnsAreCharged /\ OwnedInv /\ [Next]_vars => [Ledger!Next]_(Ledger!vars)
    BY <1>3, LedgerStep
  <2> QED
    BY <1>1, <2>1, Invariance, TxnsInvariance, CheckoutsOwnOrders, PTL
       DEF Spec, ImplementsLedger, Ledger!Spec
<1> QED
  BY <1>2, <1>3
=============================================================================
