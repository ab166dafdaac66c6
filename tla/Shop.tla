-------------------------------- MODULE Shop --------------------------------
(***************************************************************************)
(* The purchase path with the cart service in it: Purchase's cart and its  *)
(* calls of GetCart and EmptyCart are Cart's tables and handlers here, and *)
(* clients add to carts, list and empty them through the same handlers.    *)
(* What the checkout, order and payment services do is Purchase's; what a  *)
(* step of the cart service is to them is the refinement.                  *)
(***************************************************************************)
EXTENDS Cart

CONSTANTS
  Checkout, OrderId, TxnId, GatewayMark, Direct,   \* as in Purchase
  MaxAmount,
  Amount        \* what the contents of a cart cost, in units of 100 yuan

ASSUME ShopAssumption ==
  /\ MaxAmount \in Nat \ {0}
  /\ None \notin Checkout \cup OrderId \cup TxnId
  /\ Checkout \cup OrderId \subseteq Request
  /\ Checkout \cap OrderId = {}
  /\ GatewayMark \cap TxnId = {}
  /\ Direct \subseteq {"EmptyCart", "PlaceOrder", "Charge", "MarkOrderPaid"}
  /\ Amount \in [[Product -> 0..MaxQty] -> 0..MaxAmount]
  /\ \A held \in [Product -> 0..MaxQty] : Amount[held] = 0 <=> held = [p \in Product |-> 0]

VARIABLES
  checkouts, places, orders, charges, txns, marks, cache,   \* as in Purchase
  answered      \* GetCarts and EmptyCarts whose reply has reached its caller

services == <<checkouts, places, orders, charges, txns, marks, cache>>
shopVars == <<vars, services, answered>>

(* A checkout's GetCart is named by the checkout and an order's EmptyCart  *)
(* by the order; all other calls are clients'.                             *)
ClientCall == Request \ (Checkout \cup OrderId)

(* A call as its caller's proxy sees it.                                   *)
Call(r) ==
  IF Running(r) THEN "run"
  ELSE IF r \in answered THEN "replied"
  ELSE req[r].pc

P == INSTANCE Purchase
  WITH MaxQty    <- MaxAmount,
       cart      <- [u \in User |-> Amount[[p \in Product |-> Quantity(u, p)]]],
       getCart   <- [c \in Checkout |-> [pc  |-> Call(c),
                                         qty |-> Amount[[p \in Product |-> Listed(c, p)]]]],
       emptyCart <- [o \in OrderId |-> Call(o)]

ShopInit ==
  /\ Init
  /\ answered = {}
  /\ P!Init

-----------------------------------------------------------------------------
(* The cart service, and clients that call it.                             *)

ClientAdds(r, u, p, q) ==
  /\ r \in ClientCall
  /\ BeginAdd(r, u, p, q)
  /\ UNCHANGED <<services, answered>>

ClientCalls(r, op, u) ==
  /\ r \in ClientCall
  /\ op = "empty" => "EmptyCart" \in Direct
  /\ Begin(r, op, u)
  /\ UNCHANGED <<services, answered>>

CartStep(r) == Step(r) /\ UNCHANGED <<services, answered>>

-----------------------------------------------------------------------------
(* The calls, by the proxies of checkout and order.                        *)

CallGetCart(c) ==
  /\ Begin(c, "get", checkouts[c].user)
  /\ UNCHANGED answered
  /\ P!CallGetCart(c)

ReplyGetCart(c) ==
  /\ UNCHANGED vars
  /\ answered' = answered \cup {c}
  /\ P!ReplyGetCart(c)

CallEmptyCart(o) ==
  /\ Begin(o, "empty", places[o].user)
  /\ UNCHANGED answered
  /\ P!CallEmptyCart(o)

ReplyEmptyCart(o) ==
  /\ UNCHANGED vars
  /\ answered' = answered \cup {o}
  /\ P!ReplyEmptyCart(o)

-----------------------------------------------------------------------------
(* Everything else that the checkout, order and payment services, their    *)
(* clients and Redis do: the steps of Purchase that leave the cart service *)
(* alone, a cached reply to EmptyCart among them.                          *)
ServiceStep == UNCHANGED <<vars, answered>> /\ P!Next

ShopNext ==
  \/ \E r \in ClientCall, u \in User :
       \/ \E p \in Product, q \in 0..MaxQty : ClientAdds(r, u, p, q)
       \/ \E op \in {"get", "empty"} : ClientCalls(r, op, u)
  \/ \E r \in Request : CartStep(r)
  \/ \E c \in Checkout : CallGetCart(c) \/ ReplyGetCart(c)
  \/ \E o \in OrderId : CallEmptyCart(o) \/ ReplyEmptyCart(o)
  \/ ServiceStep

ShopSpec == ShopInit /\ [][ShopNext]_shopVars

-----------------------------------------------------------------------------
(* The cart service is to the purchase path what Purchase takes it for:    *)
(* statement by statement over two tables, among clients' AddItems, it     *)
(* reads and empties a user's cart at one instant.                         *)
ImplementsPurchase == P!Spec
=============================================================================
