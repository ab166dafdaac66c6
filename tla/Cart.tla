-------------------------------- MODULE Cart --------------------------------
(***************************************************************************)
(* The cart service: AddItem, GetCart and EmptyCart over the tables carts  *)
(* and cart_items.  A handler looks things up first, statement by          *)
(* statement, and then writes in one database transaction; neither table   *)
(* has a unique index besides its key, and rows are deleted by a mark      *)
(* that queries skip (gorm's DeletedAt), so handlers interleave between    *)
(* statements.  A transaction reads nothing, and every one takes its row   *)
(* locks in the order items, cart, so it is one step here.                 *)
(***************************************************************************)
EXTENDS Naturals, Sequences

CONSTANTS
  User,
  Product,
  Request,      \* calls of the three handlers
  None,
  MaxQty,       \* bound on a requested quantity
  SerialAdds,   \* does a user have at most one AddItem under way?
  Faulty        \* may the database refuse a statement?

ASSUME CartAssumption ==
  /\ MaxQty \in Nat \ {0}
  /\ None \notin User \cup Product
  /\ SerialAdds \in BOOLEAN
  /\ Faulty \in BOOLEAN

Qty == 1..MaxQty

VARIABLES
  carts,   \* table carts: the owner of each row, by its key
  items,   \* table cart_items, by key
  req      \* the handlers

vars == <<carts, items, req>>

Op == {"none", "add", "get", "empty"}
Pc == {"idle", "findCart", "createCart", "findItem", "write", "read", "delete", "ok", "error"}

Item    == [cart : Nat, product : Product, qty : Qty, live : BOOLEAN]
Listing == [Product -> SUBSET (Nat \X Qty)]   \* the rows a GetCart lists, by product
ReqRec  == [op : Op, pc : Pc, user : User \cup {None}, product : Product \cup {None},
            qty : 0..MaxQty, cart : Nat, item : Nat, reply : Listing]

Nothing == [p \in Product |-> {}]

TypeOK ==
  /\ carts \in Seq(User)
  /\ items \in Seq(Item)
  /\ req \in [Request -> ReqRec]

Init ==
  /\ carts = <<>>
  /\ items = <<>>
  /\ req = [r \in Request |->
              [op |-> "none", pc |-> "idle", user |-> None, product |-> None, qty |-> 0,
               cart |-> 0, item |-> 0, reply |-> Nothing]]

-----------------------------------------------------------------------------
(* gorm's First: the row of least key among those that match; 0 is none.   *)
First(ids) == IF ids = {} THEN 0 ELSE CHOOSE i \in ids : \A j \in ids : i <= j

CartsOf(u) == {c \in DOMAIN carts : carts[c] = u}

(* Mutant: looked up by product alone.                                     *)
RowsOfProduct(c, p) == {i \in DOMAIN items : items[i].live /\ items[i].product = p}

RowsOf(c, p) == {i \in DOMAIN items : items[i].live /\ items[i].cart = c /\ items[i].product = p}

Running(r) == req[r].pc \notin {"idle", "ok", "error"}

(* AddItem is called, and its parameters checked.                          *)
BeginAdd(r, u, p, q) ==
  /\ req[r].pc = "idle"
  /\ SerialAdds => \A s \in Request : req[s].op = "add" /\ req[s].user = u => ~Running(s)
  /\ q > 0
  /\ req' = [req EXCEPT ![r] = [@ EXCEPT !.op = "add", !.pc = "findCart", !.user = u,
                                         !.product = p, !.qty = q]]
  /\ UNCHANGED <<carts, items>>

(* GetCart or EmptyCart is called.                                         *)
Begin(r, op, u) ==
  /\ req[r].pc = "idle"
  /\ req' = [req EXCEPT ![r].op = op, ![r].pc = "findCart", ![r].user = u]
  /\ UNCHANGED <<carts, items>>

(* All three look the user's cart up first.  Without one, AddItem goes on  *)
(* to create it; GetCart answers an empty list, and EmptyCart is done.     *)
FindCart(r) ==
  /\ req[r].pc = "findCart"
  /\ LET c == First(CartsOf(req[r].user))
     IN  req' = [req EXCEPT ![r].cart = c,
                            ![r].pc = CASE req[r].op = "add" -> IF c = 0 THEN "createCart" ELSE "findItem"
                                        [] req[r].op = "get" -> IF c = 0 THEN "ok" ELSE "read"
                                        [] OTHER -> IF c = 0 THEN "ok" ELSE "delete"]
  /\ UNCHANGED <<carts, items>>

(* The second half of FirstOrCreate.                                       *)
CreateCart(r) ==
  /\ req[r].pc = "createCart"
  /\ carts' = Append(carts, req[r].user)
  /\ req' = [req EXCEPT ![r].cart = Len(carts) + 1, ![r].pc = "findItem"]
  /\ UNCHANGED items

(* Mutant: every AddItem adds a row.                                       *)
FindNoItem(r) ==
  /\ req[r].pc = "findItem"
  /\ req' = [req EXCEPT ![r].item = 0, ![r].pc = "write"]
  /\ UNCHANGED <<carts, items>>

(* Is the product in the cart already?                                     *)
FindItem(r) ==
  /\ req[r].pc = "findItem"
  /\ req' = [req EXCEPT ![r].item = First(RowsOf(req[r].cart, req[r].product)),
                        ![r].pc = "write"]
  /\ UNCHANGED <<carts, items>>

(* Mutant: only a row that is still live is updated.                       *)
WriteItemIfLive(r) ==
  /\ req[r].pc = "write"
  /\ items' = IF req[r].item = 0
              THEN Append(items, [cart |-> req[r].cart, product |-> req[r].product,
                                  qty |-> req[r].qty, live |-> TRUE])
              ELSE [items EXCEPT ![req[r].item].qty = req[r].qty]
  /\ req' = [req EXCEPT ![r].pc = "ok"]
  /\ UNCHANGED carts

(* The transaction of AddItem.  gorm's Save of the row found updates it, or *)
(* inserts it again under its key when it has been deleted since.          *)
WriteItem(r) ==
  /\ req[r].pc = "write"
  /\ items' = IF req[r].item = 0
              THEN Append(items, [cart |-> req[r].cart, product |-> req[r].product,
                                  qty |-> req[r].qty, live |-> TRUE])
              ELSE [items EXCEPT ![req[r].item].qty = req[r].qty,
                                 ![req[r].item].live = TRUE]
  /\ req' = [req EXCEPT ![r].pc = "ok"]
  /\ UNCHANGED carts

(* GetCart lists the live rows of the cart.                                *)
ReadItems(r) ==
  /\ req[r].pc = "read"
  /\ req' = [req EXCEPT ![r].reply = [p \in Product |->
                                        {<<i, items[i].qty>> : i \in RowsOf(req[r].cart, p)}],
                        ![r].pc = "ok"]
  /\ UNCHANGED <<carts, items>>

(* The transaction of EmptyCart.                                           *)
DeleteItems(r) ==
  /\ req[r].pc = "delete"
  /\ items' = [i \in DOMAIN items |->
                 IF items[i].cart = req[r].cart THEN [items[i] EXCEPT !.live = FALSE]
                                                ELSE items[i]]
  /\ req' = [req EXCEPT ![r].pc = "ok"]
  /\ UNCHANGED carts

(* A statement or a transaction fails, or the service crashes.             *)
Fail(r) ==
  /\ Faulty
  /\ Running(r)
  /\ req' = [req EXCEPT ![r].pc = "error"]
  /\ UNCHANGED <<carts, items>>

Step(r) ==
  \/ FindCart(r) \/ CreateCart(r) \/ FindItem(r) \/ WriteItem(r)
  \/ ReadItems(r) \/ DeleteItems(r)
  \/ Fail(r)

Next ==
  \E r \in Request :
    \/ \E u \in User, p \in Product, q \in 0..MaxQty : BeginAdd(r, u, p, q)
    \/ \E u \in User, op \in {"get", "empty"} : Begin(r, op, u)
    \/ Step(r)

Spec == Init /\ [][Next]_vars

-----------------------------------------------------------------------------
(* While a user's AddItems come one at a time, a user has one cart, and a  *)
(* cart one row for a product, whatever GetCarts and EmptyCarts run in     *)
(* between: what a lookup found, or found missing, is still so at the      *)
(* write it leads to, but for a row that EmptyCart has deleted.            *)
AddsAreSerial ==
  \A r, s \in Request :
    /\ req[r].op = "add" /\ req[s].op = "add" /\ req[r].user = req[s].user
    /\ Running(r) /\ Running(s)
    => r = s

RowsHaveCarts == \A i \in DOMAIN items : items[i].cart \in DOMAIN carts

OneCart == \A c, d \in DOMAIN carts : carts[c] = carts[d] => c = d

OneRow == \A c \in DOMAIN carts, p \in Product : \A i, j \in RowsOf(c, p) : i = j

AddsHoldTheirPlace ==
  \A r \in Request : req[r].op = "add" =>
    LET u == req[r].user
        c == req[r].cart
        p == req[r].product
    IN  /\ req[r].pc = "createCart" => CartsOf(u) = {}
        /\ req[r].pc \in {"findItem", "write"} => c \in CartsOf(u)
        /\ req[r].pc = "write" /\ req[r].item = 0 => RowsOf(c, p) = {}
        /\ req[r].pc = "write" /\ req[r].item # 0 =>
             /\ req[r].item \in DOMAIN items
             /\ items[req[r].item].cart = c
             /\ items[req[r].item].product = p
             /\ RowsOf(c, p) \subseteq {req[r].item}

(* A handler works on what it was asked, in a cart of its user, and lists  *)
(* nothing before it answers.                                              *)
HandlersAreAsked ==
  \A r \in Request :
    /\ req[r].pc = "idle" =>
         req[r].op = "none" /\ req[r].user = None /\ req[r].product = None /\ req[r].qty = 0
    /\ req[r].pc # "idle" => req[r].op # "none" /\ req[r].user \in User
    /\ req[r].op = "add" => req[r].product \in Product /\ req[r].qty \in Qty
    /\ req[r].pc \in {"createCart", "findItem", "write"} => req[r].op = "add"
    /\ req[r].pc = "read" => req[r].op = "get" /\ req[r].cart \in CartsOf(req[r].user)
    /\ req[r].pc = "delete" => req[r].op = "empty" /\ req[r].cart \in CartsOf(req[r].user)
    /\ req[r].reply # Nothing => req[r].op = "get" /\ req[r].pc = "ok"

TablesAreUnique ==
  AddsAreSerial /\ RowsHaveCarts /\ OneCart /\ OneRow /\ AddsHoldTheirPlace

CartInv == TypeOK /\ HandlersAreAsked /\ TablesAreUnique

(* What a GetCart lists was asked for by its own user, product and         *)
(* quantity, however many handlers ran on stale lookups before.            *)
RepliesAreAsked ==
  \A r \in Request : \A p \in Product : \A row \in req[r].reply[p] :
    \E s \in Request :
      /\ req[s].op = "add"
      /\ req[s].user = req[r].user
      /\ req[s].product = p
      /\ req[s].qty = row[2]

-----------------------------------------------------------------------------
(* cart_add.go:53 updates the quantity when "the product exists already":  *)
(* one row per product.  Concurrent AddItems refute it.                    *)
OneRowPerProduct == OneRow

-----------------------------------------------------------------------------
(* The cart the service's clients see.                                     *)
Quantity(u, p) ==
  LET i == First(RowsOf(First(CartsOf(u)), p))
  IN  IF i = 0 THEN 0 ELSE items[i].qty

Listed(r, p) ==
  IF req[r].reply[p] = {} THEN 0 ELSE (CHOOSE row \in req[r].reply[p] : TRUE)[2]

Contents == INSTANCE CartContents
  WITH contents <- [u \in User |-> [p \in Product |-> Quantity(u, p)]],
       asked    <- [r \in Request |-> [op |-> req[r].op, user |-> req[r].user,
                                       product |-> req[r].product, qty |-> req[r].qty]],
       acked    <- {r \in Request : req[r].pc = "ok"},
       answer   <- [r \in Request |-> [p \in Product |-> Listed(r, p)]]

(* The handlers take effect at an instant each, on one cart per user.      *)
ImplementsContents == Contents!Spec
=============================================================================
