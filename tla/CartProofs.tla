----------------------------- MODULE CartProofs -----------------------------
(***************************************************************************)
(* Proofs about Cart, for any users, products, requests and quantities,    *)
(* with or without failing statements.  However AddItems overlap, GetCart  *)
(* lists only what was asked for.  When a user's AddItems come one at a    *)
(* time, the tables hold one cart per user and one row per product, and so *)
(* the service implements CartContents.                                    *)
(***************************************************************************)
EXTENDS Cart, TLAPS, WellFoundedInduction, SequenceTheorems

USE CartAssumption

-----------------------------------------------------------------------------
(* A nonempty set of numbers has a least one. *)
LEMMA LeastExists ==
  ASSUME NEW S \in SUBSET Nat, S # {}
  PROVE  \E i \in S : \A j \in S : i <= j
<1> DEFINE R == OpToRel(<, Nat)
<1>1. PICK i \in S : \A j \in S : ~(<<j, i>> \in R)
  <2> HIDE DEF R
  <2>1. IsWellFoundedOn(R, Nat)
    BY NatLessThanWellFounded DEF R
  <2> QED
    BY <2>1, WFMin
<1>2. \A j \in S : <<j, i>> \notin {ss \in Nat \X Nat : ss[1] < ss[2]}
  BY <1>1 DEF OpToRel
<1>3. ASSUME NEW j \in S PROVE i <= j
  <2>1. <<j, i>> \in Nat \X Nat /\ ~(j < i)
    BY <1>2
  <2> QED
    BY <2>1
<1> QED
  BY <1>3

(* First finds a row exactly when there is one. *)
LEMMA FirstIs ==
  ASSUME NEW S \in SUBSET (Nat \ {0})
  PROVE  /\ First(S) \in Nat
         /\ S = {} => First(S) = 0
         /\ S # {} => First(S) \in S
BY LeastExists DEF First

(* The keys of the tables are positive. *)
LEMMA Keys ==
  ASSUME TypeOK
  PROVE  /\ \A u \in User : CartsOf(u) \in SUBSET (Nat \ {0})
         /\ \A c \in Nat, p \in Product : RowsOf(c, p) \in SUBSET (Nat \ {0})
BY DEF TypeOK, CartsOf, RowsOf

(* What the lookups find. *)
LEMMA FindsCart ==
  ASSUME TypeOK, NEW u \in User
  PROVE  /\ First(CartsOf(u)) \in Nat
         /\ CartsOf(u) = {} => First(CartsOf(u)) = 0
         /\ CartsOf(u) # {} => First(CartsOf(u)) \in CartsOf(u)
BY FirstIs, Keys

(* The same for a row. *)
LEMMA FindsRow ==
  ASSUME TypeOK, NEW c \in Nat, NEW p \in Product
  PROVE  /\ First(RowsOf(c, p)) \in Nat
         /\ RowsOf(c, p) = {} => First(RowsOf(c, p)) = 0
         /\ RowsOf(c, p) # {} => First(RowsOf(c, p)) \in RowsOf(c, p)
BY FirstIs, Keys

-----------------------------------------------------------------------------
(* The record of a handler stays of its type. *)
LEMMA ReqTyped ==
  ASSUME NEW x \in ReqRec, NEW pc \in Pc
  PROVE  /\ [x EXCEPT !.pc = pc] \in ReqRec
         /\ \A c \in Nat : [x EXCEPT !.cart = c, !.pc = pc] \in ReqRec
         /\ \A i \in Nat : [x EXCEPT !.item = i, !.pc = pc] \in ReqRec
         /\ \A l \in Listing : [x EXCEPT !.reply = l, !.pc = pc] \in ReqRec
         /\ \A op \in Op, u \in User :
              /\ [x EXCEPT !.op = op, !.pc = pc, !.user = u] \in ReqRec
              /\ \A p \in Product, q \in 0..MaxQty :
                   [x EXCEPT !.op = op, !.pc = pc, !.user = u, !.product = p, !.qty = q] \in ReqRec
BY DEF ReqRec

(* With the tables as they were, lookups find what they found. *)
LEMMA SameTables ==
  ASSUME UNCHANGED <<carts, items>>
  PROVE  /\ \A u \in User : CartsOf(u)' = CartsOf(u)
         /\ \A c \in Nat, p \in Product : RowsOf(c, p)' = RowsOf(c, p)
         /\ RowsHaveCarts' = RowsHaveCarts
         /\ OneCart' = OneCart
         /\ OneRow' = OneRow
BY DEF CartsOf, RowsOf, RowsHaveCarts, OneCart, OneRow

(* What AddsHoldTheirPlace says of one handler, and HandlersAreAsked too. *)
HoldsPlace(r) ==
  LET u == req[r].user
      c == req[r].cart
      p == req[r].product
  IN  /\ req[r].pc = "createCart" => CartsOf(u) = {}
      /\ req[r].pc \in {"findItem", "write"} => c \in CartsOf(u)
      /\ req[r].pc = "write" /\ req[r].item = 0 => RowsOf(c, p) = {}
      /\ req[r].pc = "write" /\ req[r].item # 0 =>
           /\ req[r].item \in DOMAIN items
           /\ items[req[r].item].cart = c
           /\ items[req[r].item].product = p
           /\ RowsOf(c, p) \subseteq {req[r].item}

IsAsked(r) ==
  /\ req[r].pc = "idle" =>
       req[r].op = "none" /\ req[r].user = None /\ req[r].product = None /\ req[r].qty = 0
  /\ req[r].pc # "idle" => req[r].op # "none" /\ req[r].user \in User
  /\ req[r].op = "add" => req[r].product \in Product /\ req[r].qty \in Qty
  /\ req[r].pc \in {"createCart", "findItem", "write"} => req[r].op = "add"
  /\ req[r].pc = "read" => req[r].op = "get" /\ req[r].cart \in CartsOf(req[r].user)
  /\ req[r].pc = "delete" => req[r].op = "empty" /\ req[r].cart \in CartsOf(req[r].user)
  /\ req[r].reply # Nothing => req[r].op = "get" /\ req[r].pc = "ok"

-----------------------------------------------------------------------------
(* What holds without SerialAdds: tables and handlers are of their types,  *)
(* and every row, and so every list, was asked for.                        *)
AskedFor == {<<req[s].user, req[s].product, req[s].qty>> : s \in {t \in Request : req[t].op = "add"}}

(* An AddItem past its lookups works on a cart of its user, and on a row   *)
(* of that cart and its product.                                           *)
Found(r) ==
  req[r].op = "add" =>
    /\ req[r].pc \in {"findItem", "write"} => req[r].cart \in CartsOf(req[r].user)
    /\ req[r].pc = "write" /\ req[r].item # 0 =>
         /\ req[r].item \in DOMAIN items
         /\ items[req[r].item].cart = req[r].cart
         /\ items[req[r].item].product = req[r].product

RowsAreAsked ==
  \A i \in DOMAIN items : <<carts[items[i].cart], items[i].product, items[i].qty>> \in AskedFor

ListsAreAsked ==
  \A r \in Request : \A p \in Product : \A row \in req[r].reply[p] :
    <<req[r].user, p, row[2]>> \in AskedFor

AskInv ==
  /\ TypeOK
  /\ RowsHaveCarts
  /\ \A r \in Request : IsAsked(r) /\ Found(r)
  /\ RowsAreAsked
  /\ ListsAreAsked

(* A handler's step keeps it if tables only grow, rows keep their cart and *)
(* product, and what the handler writes or lists was asked for.            *)
LEMMA AskStep ==
  ASSUME AskInv, NEW r \in Request, NEW x \in ReqRec,
         req' = [req EXCEPT ![r] = x],
         carts' \in Seq(User), items' \in Seq(Item),
         \A c \in DOMAIN carts : c \in DOMAIN carts' /\ carts'[c] = carts[c],
         \A i \in DOMAIN items : /\ i \in DOMAIN items'
                                 /\ items'[i].cart = items[i].cart
                                 /\ items'[i].product = items[i].product,
         req[r].op = "add" =>
           x.op = "add" /\ x.user = req[r].user /\ x.product = req[r].product /\ x.qty = req[r].qty,
         IsAsked(r)', Found(r)',
         \A i \in DOMAIN items' :
           \/ i \in DOMAIN items /\ items'[i].qty = items[i].qty
           \/ /\ x.op = "add" /\ items'[i].cart \in DOMAIN carts'
              /\ x.user = carts'[items'[i].cart]
              /\ x.product = items'[i].product /\ x.qty = items'[i].qty,
         \A p \in Product : \A row \in x.reply[p] : <<x.user, p, row[2]>> \in AskedFor
  PROVE  AskInv'
<1>1. req' \in [Request -> ReqRec] /\ req'[r] = x /\ \A s \in Request \ {r} : req'[s] = req[s]
  BY DEF AskInv, TypeOK
<1>2. TypeOK'
  BY <1>1 DEF TypeOK
<1>3. RowsHaveCarts'
  <2> SUFFICES ASSUME NEW i \in DOMAIN items' PROVE items'[i].cart \in DOMAIN carts'
    BY DEF RowsHaveCarts
  <2>1. CASE i \in DOMAIN items
    BY <2>1 DEF AskInv, RowsHaveCarts
  <2> QED
    BY <2>1
<1>4. \A s \in Request : (IsAsked(s) /\ Found(s))'
  <2> SUFFICES ASSUME NEW s \in Request, s # r PROVE (IsAsked(s) /\ Found(s))'
    OBVIOUS
  <2>1. IsAsked(s) /\ Found(s) /\ req'[s] = req[s]
    BY <1>1 DEF AskInv
  <2>2. \A u \in User : \A c \in CartsOf(u) : c \in CartsOf(u)'
    BY DEF CartsOf
  <2>3. IsAsked(s)'
    BY <2>1, <2>2 DEF IsAsked
  <2>4. Found(s)'
    <3>1. req[s].op = "add" /\ req[s].pc \in {"findItem", "write"} => req[s].user \in User
      BY <2>1 DEF IsAsked
    <3> QED
      BY <2>1, <2>2, <3>1 DEF Found
  <2> QED
    BY <2>3, <2>4
<1>5. AskedFor \subseteq AskedFor'
  <2> SUFFICES ASSUME NEW s \in Request, req[s].op = "add"
               PROVE  <<req[s].user, req[s].product, req[s].qty>> \in AskedFor'
    BY DEF AskedFor
  <2>1. req'[s].op = "add" /\ req'[s].user = req[s].user /\ req'[s].product = req[s].product
        /\ req'[s].qty = req[s].qty
    BY <1>1
  <2> QED
    BY <2>1 DEF AskedFor
<1>6. RowsAreAsked'
  <2> SUFFICES ASSUME NEW i \in DOMAIN items'
               PROVE  <<carts'[items'[i].cart], items'[i].product, items'[i].qty>> \in AskedFor'
    BY DEF RowsAreAsked
  <2>1. CASE i \in DOMAIN items /\ items'[i].qty = items[i].qty
    BY <1>5, <2>1 DEF AskInv, RowsHaveCarts, RowsAreAsked
  <2>2. CASE /\ x.op = "add" /\ items'[i].cart \in DOMAIN carts'
             /\ x.user = carts'[items'[i].cart]
             /\ x.product = items'[i].product /\ x.qty = items'[i].qty
    BY <1>1, <2>2 DEF AskedFor
  <2> QED
    BY <2>1, <2>2
<1>7. ListsAreAsked'
  <2> SUFFICES ASSUME NEW s \in Request, NEW p \in Product, NEW row \in req'[s].reply[p]
               PROVE  <<req'[s].user, p, row[2]>> \in AskedFor'
    BY DEF ListsAreAsked
  <2>1. CASE s = r
    BY <1>1, <1>5, <2>1
  <2>2. CASE s # r
    BY <1>1, <1>5, <2>2 DEF AskInv, ListsAreAsked
  <2> QED
    BY <2>1, <2>2
<1> QED
  BY <1>2, <1>3, <1>4, <1>6, <1>7 DEF AskInv

(* A step that writes no table and lists nothing. *)
LEMMA AskQuiet ==
  ASSUME AskInv, NEW r \in Request, NEW x \in ReqRec, req' = [req EXCEPT ![r] = x],
         UNCHANGED <<carts, items>>, x.reply = Nothing,
         req[r].op = "add" =>
           x.op = "add" /\ x.user = req[r].user /\ x.product = req[r].product /\ x.qty = req[r].qty,
         IsAsked(r)', Found(r)'
  PROVE  AskInv'
<1>1. carts' \in Seq(User) /\ items' \in Seq(Item)
  BY DEF AskInv, TypeOK
<1>2. \A p \in Product : x.reply[p] = {}
  BY DEF Nothing
<1> QED
  BY <1>1, <1>2, AskStep

(* What is known of a handler that runs. *)
LEMMA AskRunning ==
  ASSUME AskInv, NEW r \in Request, Running(r)
  PROVE  /\ req[r] \in ReqRec /\ req[r].reply = Nothing /\ req[r].user \in User
         /\ req[r].op \in {"add", "get", "empty"}
         /\ req[r].op = "add" => req[r].product \in Product /\ req[r].qty \in Qty
         /\ req[r].cart \in Nat
<1>1. req[r] \in ReqRec
  BY DEF AskInv, TypeOK
<1>2. req[r].op \in Op /\ req[r].cart \in Nat
  BY <1>1 DEF ReqRec
<1>3. IsAsked(r)
  BY DEF AskInv
<1>4. /\ req[r].reply = Nothing /\ req[r].user \in User /\ req[r].op # "none"
      /\ req[r].op = "add" => req[r].product \in Product /\ req[r].qty \in Qty
  BY <1>3 DEF IsAsked, Running
<1> QED
  BY <1>1, <1>2, <1>4 DEF Op

LEMMA AskBeginAdd ==
  ASSUME AskInv, NEW r \in Request, NEW u \in User, NEW p \in Product,
         NEW q \in 0..MaxQty, BeginAdd(r, u, p, q)
  PROVE  AskInv'
<1> DEFINE x == [req[r] EXCEPT !.op = "add", !.pc = "findCart", !.user = u,
                               !.product = p, !.qty = q]
<1>1. req[r] \in ReqRec /\ req[r].reply = Nothing /\ req[r].op = "none"
  BY DEF AskInv, TypeOK, IsAsked, BeginAdd
<1>2. x \in ReqRec
  BY <1>1, ReqTyped DEF Op, Pc
<1>3. req' = [req EXCEPT ![r] = x] /\ UNCHANGED <<carts, items>>
  BY DEF BeginAdd
<1>4. req'[r] = x
  BY <1>3 DEF AskInv, TypeOK
<1>5. /\ x.op = "add" /\ x.pc = "findCart" /\ x.user = u /\ x.product = p /\ x.qty = q
      /\ x.reply = Nothing
  BY <1>1 DEF ReqRec
<1>6. q \in Qty
  BY DEF BeginAdd, Qty
<1> HIDE DEF x
<1>7. IsAsked(r)' /\ Found(r)'
  BY <1>4, <1>5, <1>6 DEF IsAsked, Found
<1> QED
  BY <1>1, <1>2, <1>3, <1>5, <1>7, AskQuiet

LEMMA AskBegin ==
  ASSUME AskInv, NEW r \in Request, NEW op \in {"get", "empty"}, NEW u \in User,
         Begin(r, op, u)
  PROVE  AskInv'
<1> DEFINE x == [req[r] EXCEPT !.op = op, !.pc = "findCart", !.user = u]
<1>1. req[r] \in ReqRec /\ req[r].reply = Nothing /\ req[r].op = "none"
  BY DEF AskInv, TypeOK, IsAsked, Begin
<1>2. x \in ReqRec
  BY <1>1, ReqTyped DEF Op, Pc
<1>3. req' = [req EXCEPT ![r] = x] /\ UNCHANGED <<carts, items>>
  BY DEF Begin
<1>4. req'[r] = x
  BY <1>3 DEF AskInv, TypeOK
<1>5. x.op = op /\ x.pc = "findCart" /\ x.user = u /\ x.reply = Nothing
  BY <1>1 DEF ReqRec
<1> HIDE DEF x
<1>6. IsAsked(r)' /\ Found(r)'
  BY <1>4, <1>5 DEF IsAsked, Found
<1> QED
  BY <1>1, <1>2, <1>3, <1>5, <1>6, AskQuiet

LEMMA AskFindCart ==
  ASSUME AskInv, NEW r \in Request, FindCart(r)
  PROVE  AskInv'
<1> DEFINE c == First(CartsOf(req[r].user))
           pc == CASE req[r].op = "add" -> IF c = 0 THEN "createCart" ELSE "findItem"
                   [] req[r].op = "get" -> IF c = 0 THEN "ok" ELSE "read"
                   [] OTHER -> IF c = 0 THEN "ok" ELSE "delete"
           x == [req[r] EXCEPT !.cart = c, !.pc = pc]
<1>1. /\ req[r] \in ReqRec /\ req[r].reply = Nothing /\ req[r].user \in User
      /\ req[r].op \in {"add", "get", "empty"}
      /\ req[r].op = "add" => req[r].product \in Product /\ req[r].qty \in Qty
  BY AskRunning DEF FindCart, Running
<1>2. c \in Nat /\ (c # 0 => c \in CartsOf(req[r].user))
  BY <1>1, FindsCart DEF AskInv
<1>3. req' = [req EXCEPT ![r] = x] /\ UNCHANGED <<carts, items>>
  BY DEF FindCart
<1> HIDE DEF c
<1>4. pc \in Pc
  BY DEF Pc
<1>5. pc # "idle" /\ pc # "write"
  OBVIOUS
<1>6. /\ req[r].op = "add" => pc = (IF c = 0 THEN "createCart" ELSE "findItem")
      /\ req[r].op = "get" => pc = (IF c = 0 THEN "ok" ELSE "read")
      /\ req[r].op = "empty" => pc = (IF c = 0 THEN "ok" ELSE "delete")
  OBVIOUS
<1> HIDE DEF pc
<1>7. x \in ReqRec
  BY <1>1, <1>2, <1>4, ReqTyped
<1>8. /\ x.pc = pc /\ x.cart = c /\ x.op = req[r].op /\ x.user = req[r].user
      /\ x.product = req[r].product /\ x.qty = req[r].qty /\ x.reply = Nothing
  BY <1>1 DEF ReqRec
<1> HIDE DEF x
<1>9. req'[r] = x
  BY <1>3 DEF AskInv, TypeOK
<1>10. \A u \in User : CartsOf(u)' = CartsOf(u)
  BY <1>3, SameTables
<1>11. IsAsked(r)'
  <2>1. x.pc # "idle" /\ x.op # "none" /\ x.user \in User /\ x.reply = Nothing
    BY <1>1, <1>5, <1>8
  <2>2. x.op = "add" => x.product \in Product /\ x.qty \in Qty
    BY <1>1, <1>8
  <2>3. x.pc \in {"createCart", "findItem", "write"} => x.op = "add"
    BY <1>1, <1>6, <1>8
  <2>4. /\ x.pc = "read" => x.op = "get" /\ x.cart \in CartsOf(x.user)
        /\ x.pc = "delete" => x.op = "empty" /\ x.cart \in CartsOf(x.user)
    BY <1>1, <1>2, <1>6, <1>8
  <2> QED
    BY <1>9, <1>10, <2>1, <2>2, <2>3, <2>4 DEF IsAsked
<1>12. Found(r)'
  <2>1. x.op = "add" /\ x.pc = "findItem" => x.cart \in CartsOf(x.user)
    BY <1>2, <1>6, <1>8
  <2>2. x.pc # "write" /\ x.user \in User
    BY <1>1, <1>5, <1>8
  <2> QED
    BY <1>9, <1>10, <2>1, <2>2 DEF Found
<1> QED
  BY <1>3, <1>7, <1>8, <1>11, <1>12, AskQuiet

LEMMA AskFindItem ==
  ASSUME AskInv, NEW r \in Request, FindItem(r)
  PROVE  AskInv'
<1> DEFINE c == req[r].cart
           p == req[r].product
           i == First(RowsOf(c, p))
           x == [req[r] EXCEPT !.item = i, !.pc = "write"]
<1>1. IsAsked(r) /\ Found(r) /\ req[r].pc = "findItem" /\ Running(r)
  BY DEF AskInv, FindItem, Running
<1>2. /\ req[r] \in ReqRec /\ req[r].reply = Nothing /\ req[r].user \in User
      /\ req[r].op = "add" /\ p \in Product /\ req[r].qty \in Qty /\ c \in Nat
  BY <1>1, AskRunning DEF IsAsked
<1>3. i \in Nat /\ (i # 0 => i \in RowsOf(c, p))
  BY <1>2, FindsRow DEF AskInv
<1>4. req' = [req EXCEPT ![r] = x] /\ UNCHANGED <<carts, items>>
  BY DEF FindItem
<1> HIDE DEF i
<1>5. x \in ReqRec
  BY <1>2, <1>3, ReqTyped DEF Pc
<1>6. /\ x.pc = "write" /\ x.item = i /\ x.cart = c /\ x.op = "add" /\ x.user = req[r].user
      /\ x.product = p /\ x.qty = req[r].qty /\ x.reply = Nothing
  BY <1>2 DEF ReqRec
<1> HIDE DEF x
<1>7. req'[r] = x
  BY <1>4 DEF AskInv, TypeOK
<1>8. IsAsked(r)'
  BY <1>2, <1>6, <1>7 DEF IsAsked
<1>9. Found(r)'
  <2>1. c \in CartsOf(req[r].user)
    BY <1>1, <1>2 DEF Found
  <2>2. i # 0 => i \in DOMAIN items /\ items[i].cart = c /\ items[i].product = p
    BY <1>3 DEF RowsOf
  <2> QED
    BY <1>4, <1>6, <1>7, <2>1, <2>2 DEF Found, CartsOf
<1> QED
  BY <1>2, <1>4, <1>5, <1>6, <1>8, <1>9, AskQuiet

LEMMA AskFail ==
  ASSUME AskInv, NEW r \in Request, Fail(r)
  PROVE  AskInv'
<1> DEFINE x == [req[r] EXCEPT !.pc = "error"]
<1>1. /\ req[r] \in ReqRec /\ req[r].reply = Nothing /\ req[r].user \in User
      /\ req[r].op \in {"add", "get", "empty"}
      /\ req[r].op = "add" => req[r].product \in Product /\ req[r].qty \in Qty
  BY AskRunning DEF Fail
<1>2. req' = [req EXCEPT ![r] = x] /\ UNCHANGED <<carts, items>>
  BY DEF Fail
<1>3. x \in ReqRec
  BY <1>1, ReqTyped DEF Pc
<1>4. /\ x.op = req[r].op /\ x.pc = "error" /\ x.user = req[r].user /\ x.product = req[r].product
      /\ x.qty = req[r].qty /\ x.reply = Nothing
  BY <1>1 DEF ReqRec
<1> HIDE DEF x
<1>5. req'[r] = x
  BY <1>2 DEF AskInv, TypeOK
<1>6. IsAsked(r)' /\ Found(r)'
  BY <1>1, <1>4, <1>5 DEF IsAsked, Found
<1> QED
  BY <1>2, <1>3, <1>4, <1>6, AskQuiet

LEMMA AskCreateCart ==
  ASSUME AskInv, NEW r \in Request, CreateCart(r)
  PROVE  AskInv'
<1> DEFINE u == req[r].user
           n == Len(carts) + 1
           x == [req[r] EXCEPT !.cart = n, !.pc = "findItem"]
<1>1. IsAsked(r) /\ req[r].pc = "createCart" /\ Running(r)
  BY DEF AskInv, CreateCart, Running
<1>2. /\ req[r] \in ReqRec /\ req[r].reply = Nothing /\ u \in User
      /\ req[r].op = "add" /\ req[r].product \in Product /\ req[r].qty \in Qty
  BY <1>1, AskRunning DEF IsAsked
<1>3. carts \in Seq(User) /\ items \in Seq(Item)
  BY DEF AskInv, TypeOK
<1>4. carts' = Append(carts, u) /\ items' = items /\ req' = [req EXCEPT ![r] = x]
  BY DEF CreateCart
<1>5. /\ carts' \in Seq(User) /\ n \in Nat /\ n \in DOMAIN carts' /\ carts'[n] = u
      /\ \A d \in DOMAIN carts : d \in DOMAIN carts' /\ carts'[d] = carts[d]
  BY <1>2, <1>3, <1>4
<1>6. x \in ReqRec
  BY <1>2, <1>5, ReqTyped DEF Pc
<1>7. /\ x.pc = "findItem" /\ x.cart = n /\ x.op = "add" /\ x.user = u
      /\ x.product = req[r].product /\ x.qty = req[r].qty /\ x.reply = Nothing
  BY <1>2 DEF ReqRec
<1> HIDE DEF x, n
<1>8. req'[r] = x
  BY <1>4 DEF AskInv, TypeOK
<1>9. IsAsked(r)' /\ Found(r)'
  BY <1>2, <1>5, <1>7, <1>8 DEF IsAsked, Found, CartsOf
<1>10. \A p \in Product : x.reply[p] = {}
  BY <1>7 DEF Nothing
<1> QED
  BY <1>2, <1>3, <1>4, <1>5, <1>6, <1>7, <1>9, <1>10, AskStep

LEMMA AskReadItems ==
  ASSUME AskInv, NEW r \in Request, ReadItems(r)
  PROVE  AskInv'
<1> DEFINE u == req[r].user
           c == req[r].cart
           l == [p \in Product |-> {<<i, items[i].qty>> : i \in RowsOf(c, p)}]
           x == [req[r] EXCEPT !.reply = l, !.pc = "ok"]
<1>1. IsAsked(r) /\ req[r].pc = "read" /\ Running(r)
  BY DEF AskInv, ReadItems, Running
<1>2. /\ req[r] \in ReqRec /\ req[r].op = "get" /\ u \in User /\ c \in CartsOf(u)
  BY <1>1, AskRunning DEF IsAsked
<1>3. carts \in Seq(User) /\ items \in Seq(Item)
  BY DEF AskInv, TypeOK
<1>4. \A p \in Product : \A row \in l[p] : row \in Nat \X Qty /\ <<u, p, row[2]>> \in AskedFor
  <2> SUFFICES ASSUME NEW p \in Product, NEW i \in RowsOf(c, p)
               PROVE  <<i, items[i].qty>> \in Nat \X Qty /\ <<u, p, items[i].qty>> \in AskedFor
    OBVIOUS
  <2>1. i \in DOMAIN items /\ items[i].cart = c /\ items[i].product = p /\ carts[c] = u
    BY <1>2 DEF RowsOf, CartsOf
  <2>2. i \in Nat /\ items[i] \in Item
    BY <1>3, <2>1
  <2>3. <<u, p, items[i].qty>> \in AskedFor
    BY <2>1 DEF AskInv, RowsAreAsked
  <2> QED
    BY <2>2, <2>3 DEF Item
<1>5. l \in Listing
  BY <1>4 DEF Listing
<1>6. req' = [req EXCEPT ![r] = x] /\ UNCHANGED <<carts, items>>
  BY DEF ReadItems
<1> HIDE DEF l
<1>7. x \in ReqRec
  BY <1>2, <1>5, ReqTyped DEF Pc
<1>8. x.op = "get" /\ x.pc = "ok" /\ x.user = u /\ x.reply = l
  BY <1>2 DEF ReqRec
<1> HIDE DEF x
<1>9. req'[r] = x
  BY <1>6 DEF AskInv, TypeOK
<1>10. IsAsked(r)' /\ Found(r)'
  BY <1>2, <1>8, <1>9 DEF IsAsked, Found
<1>11. \A p \in Product : \A row \in x.reply[p] : <<x.user, p, row[2]>> \in AskedFor
  BY <1>4, <1>8
<1> QED
  BY <1>2, <1>3, <1>6, <1>7, <1>10, <1>11, AskStep

LEMMA AskDeleteItems ==
  ASSUME AskInv, NEW r \in Request, DeleteItems(r)
  PROVE  AskInv'
<1> DEFINE x == [req[r] EXCEPT !.pc = "ok"]
<1>1. IsAsked(r) /\ req[r].pc = "delete" /\ Running(r)
  BY DEF AskInv, DeleteItems, Running
<1>2. req[r] \in ReqRec /\ req[r].op = "empty" /\ req[r].user \in User /\ req[r].reply = Nothing
  BY <1>1, AskRunning DEF IsAsked
<1>3. carts \in Seq(User) /\ items \in Seq(Item)
  BY DEF AskInv, TypeOK
<1>4. /\ carts' = carts /\ req' = [req EXCEPT ![r] = x]
      /\ items' = [i \in DOMAIN items |->
                     IF items[i].cart = req[r].cart THEN [items[i] EXCEPT !.live = FALSE]
                                                    ELSE items[i]]
  BY DEF DeleteItems
<1>5. DOMAIN items' = DOMAIN items
      /\ \A i \in DOMAIN items : /\ items'[i] \in Item
                                 /\ items'[i].cart = items[i].cart
                                 /\ items'[i].product = items[i].product
                                 /\ items'[i].qty = items[i].qty
  <2>1. \A i \in DOMAIN items : items[i] \in Item
    BY <1>3
  <2>2. \A y \in Item : /\ [y EXCEPT !.live = FALSE] \in Item
                        /\ [y EXCEPT !.live = FALSE].cart = y.cart
                        /\ [y EXCEPT !.live = FALSE].product = y.product
                        /\ [y EXCEPT !.live = FALSE].qty = y.qty
    BY DEF Item
  <2> QED
    BY <1>4, <2>1, <2>2
<1>6. items' \in Seq(Item)
  <2> DEFINE n == Len(items)
  <2>1. n \in Nat /\ DOMAIN items = 1..n
    BY <1>3
  <2>2. items' = [i \in 1..n |-> IF items[i].cart = req[r].cart
                                 THEN [items[i] EXCEPT !.live = FALSE] ELSE items[i]]
    BY <1>4, <2>1
  <2>3. items' \in [1..n -> Item]
    BY <1>5, <2>1, <2>2
  <2> QED
    BY <2>1, <2>3, SeqDef
<1>7. x \in ReqRec
  BY <1>2, ReqTyped DEF Pc
<1>8. x.pc = "ok" /\ x.op = "empty" /\ x.user = req[r].user /\ x.reply = Nothing
  BY <1>2 DEF ReqRec
<1> HIDE DEF x
<1>9. req'[r] = x
  BY <1>4 DEF AskInv, TypeOK
<1>10. IsAsked(r)' /\ Found(r)'
  BY <1>2, <1>8, <1>9 DEF IsAsked, Found
<1>11. \A p \in Product : x.reply[p] = {}
  BY <1>8 DEF Nothing
<1> QED
  BY <1>2, <1>3, <1>4, <1>5, <1>6, <1>7, <1>8, <1>10, <1>11, AskStep

(* A row that Save has written. *)
LEMMA SavedRow ==
  ASSUME NEW y \in Item, NEW q \in Qty
  PROVE  [y EXCEPT !.qty = q, !.live = TRUE] =
           [cart |-> y.cart, product |-> y.product, qty |-> q, live |-> TRUE]
<1> DEFINE a == [y EXCEPT !.qty = q, !.live = TRUE]
<1>1. a \in Item
  BY DEF Item
<1>2. [cart |-> y.cart, product |-> y.product, qty |-> q, live |-> TRUE] \in Item
  BY DEF Item
<1>3. \A b, d \in Item : b.cart = d.cart /\ b.product = d.product /\ b.qty = d.qty /\ b.live = d.live
                        => b = d
  BY DEF Item
<1>4. a.cart = y.cart /\ a.product = y.product /\ a.qty = q /\ a.live = TRUE
  BY DEF Item
<1> QED
  BY <1>1, <1>2, <1>3, <1>4

(* What AddItem's transaction writes: a row of the cart and product it was *)
(* asked for.                                                              *)
LEMMA WritesRow ==
  ASSUME TypeOK, NEW r \in Request, Found(r), WriteItem(r),
         req[r].op = "add", req[r].product \in Product, req[r].qty \in Qty, req[r].cart \in Nat
  PROVE  \E k \in Nat :
           /\ items' \in Seq(Item)
           /\ DOMAIN items' = DOMAIN items \cup {k}
           /\ \A i \in DOMAIN items : /\ items'[i].cart = items[i].cart
                                      /\ items'[i].product = items[i].product
                                      /\ i # k => items'[i] = items[i]
           /\ items'[k] = [cart |-> req[r].cart, product |-> req[r].product,
                            qty |-> req[r].qty, live |-> TRUE]
           /\ k = IF req[r].item = 0 THEN Len(items) + 1 ELSE req[r].item
<1> DEFINE row == [cart |-> req[r].cart, product |-> req[r].product,
                   qty |-> req[r].qty, live |-> TRUE]
<1>1. row \in Item
  BY DEF Item
<1>2. items \in Seq(Item) /\ \A i \in DOMAIN items : items[i] \in Item
  BY DEF TypeOK
<1>3. CASE req[r].item = 0
  <2>1. items' = Append(items, row)
    BY <1>3 DEF WriteItem
  <2> HIDE DEF row
  <2>2. /\ items' \in Seq(Item) /\ Len(items) + 1 \in Nat
        /\ DOMAIN items' = DOMAIN items \cup {Len(items) + 1}
        /\ items'[Len(items) + 1] = row
        /\ \A i \in DOMAIN items : i # Len(items) + 1 /\ items'[i] = items[i]
    BY <1>1, <1>2, <2>1
  <2> QED
    BY <1>3, <2>1, <2>2 DEF row
<1>4. CASE req[r].item # 0
  <2> DEFINE k == req[r].item
             new == [items[k] EXCEPT !.qty = req[r].qty, !.live = TRUE]
  <2>1. k \in DOMAIN items /\ items[k].cart = req[r].cart /\ items[k].product = req[r].product
    BY <1>4 DEF WriteItem, Found
  <2>2. items[k] \in Item /\ k \in Nat
    BY <1>2, <2>1
  <2>3. new = row
    <3>1. \A y \in Item : \A q \in Qty :
            [y EXCEPT !.qty = q, !.live = TRUE] =
              [cart |-> y.cart, product |-> y.product, qty |-> q, live |-> TRUE]
      BY SavedRow
    <3>2. new = [cart |-> items[k].cart, product |-> items[k].product, qty |-> req[r].qty, live |-> TRUE]
      BY <2>2, <3>1
    <3> QED
      BY <2>1, <3>2
  <2>4. items' = [items EXCEPT ![k] = new]
    <3>1. items' = [items EXCEPT ![k].qty = req[r].qty, ![k].live = TRUE]
      BY <1>4 DEF WriteItem
    <3>2. [items EXCEPT ![k].qty = req[r].qty, ![k].live = TRUE] = [items EXCEPT ![k] = new]
      BY <2>1
    <3> QED
      BY <3>1, <3>2
  <2> HIDE DEF row, new
  <2>5. items' \in Seq(Item) /\ DOMAIN items' = DOMAIN items /\ items'[k] = row
        /\ \A i \in DOMAIN items : i # k => items'[i] = items[i]
    BY <1>1, <1>2, <2>1, <2>3, <2>4
  <2>6. \A i \in DOMAIN items : items'[i].cart = items[i].cart /\ items'[i].product = items[i].product
    BY <2>1, <2>5 DEF row
  <2> QED
    BY <1>4, <2>1, <2>2, <2>5, <2>6 DEF row
<1> QED
  BY <1>3, <1>4

LEMMA AskWriteItem ==
  ASSUME AskInv, NEW r \in Request, WriteItem(r)
  PROVE  AskInv'
<1> DEFINE u == req[r].user
           c == req[r].cart
           x == [req[r] EXCEPT !.pc = "ok"]
<1>1. IsAsked(r) /\ Found(r) /\ req[r].pc = "write" /\ Running(r)
  BY DEF AskInv, WriteItem, Running
<1>2. /\ req[r] \in ReqRec /\ req[r].reply = Nothing /\ u \in User
      /\ req[r].op = "add" /\ req[r].product \in Product /\ req[r].qty \in Qty /\ c \in Nat
  BY <1>1, AskRunning DEF IsAsked
<1>3. c \in DOMAIN carts /\ carts[c] = u
  BY <1>1, <1>2 DEF Found, CartsOf
<1>4. carts' = carts /\ req' = [req EXCEPT ![r] = x] /\ carts \in Seq(User)
  BY DEF WriteItem, AskInv, TypeOK
<1>5. PICK k \in Nat :
        /\ items' \in Seq(Item)
        /\ DOMAIN items' = DOMAIN items \cup {k}
        /\ \A i \in DOMAIN items : /\ items'[i].cart = items[i].cart
                                   /\ items'[i].product = items[i].product
                                   /\ i # k => items'[i] = items[i]
        /\ items'[k] = [cart |-> c, product |-> req[r].product, qty |-> req[r].qty, live |-> TRUE]
  BY <1>1, <1>2, WritesRow DEF AskInv
<1>6. x \in ReqRec
  BY <1>2, ReqTyped DEF Pc
<1>7. /\ x.pc = "ok" /\ x.op = "add" /\ x.user = u /\ x.product = req[r].product
      /\ x.qty = req[r].qty /\ x.reply = Nothing
  BY <1>2 DEF ReqRec
<1> HIDE DEF x
<1>8. req'[r] = x
  BY <1>4 DEF AskInv, TypeOK
<1>9. IsAsked(r)' /\ Found(r)'
  BY <1>2, <1>7, <1>8 DEF IsAsked, Found
<1>10. \A p \in Product : x.reply[p] = {}
  BY <1>7 DEF Nothing
<1>11. \A i \in DOMAIN items' :
         \/ i \in DOMAIN items /\ items'[i].qty = items[i].qty
         \/ /\ items'[i].cart \in DOMAIN carts' /\ u = carts'[items'[i].cart]
            /\ req[r].product = items'[i].product /\ req[r].qty = items'[i].qty
  <2> SUFFICES ASSUME NEW i \in DOMAIN items', i = k
               PROVE  /\ items'[i].cart \in DOMAIN carts' /\ u = carts'[items'[i].cart]
                      /\ req[r].product = items'[i].product /\ req[r].qty = items'[i].qty
    BY <1>5
  <2> QED
    BY <1>3, <1>4, <1>5
<1> QED
  BY <1>2, <1>4, <1>5, <1>6, <1>7, <1>9, <1>10, <1>11, AskStep

LEMMA AskInit == Init => AskInv
<1> SUFFICES ASSUME Init PROVE AskInv
  OBVIOUS
<1>1. Nothing \in Listing
  BY DEF Nothing, Listing
<1>2. TypeOK
  BY <1>1 DEF Init, TypeOK, ReqRec, Op, Pc
<1>3. \A r \in Request : req[r].op = "none" /\ req[r].pc = "idle" /\ req[r].user = None
                         /\ req[r].product = None /\ req[r].qty = 0 /\ req[r].reply = Nothing
  BY DEF Init
<1>4. \A r \in Request : IsAsked(r) /\ Found(r)
  BY <1>3 DEF IsAsked, Found
<1>5. RowsHaveCarts /\ RowsAreAsked
  BY DEF Init, RowsHaveCarts, RowsAreAsked
<1>6. ListsAreAsked
  BY <1>3 DEF ListsAreAsked, Nothing
<1> QED
  BY <1>2, <1>4, <1>5, <1>6 DEF AskInv

LEMMA AskNext ==
  ASSUME AskInv, [Next]_vars
  PROVE  AskInv'
<1>1. CASE Next
  <2>1. PICK r \in Request :
          \/ \E u \in User, p \in Product, q \in 0..MaxQty : BeginAdd(r, u, p, q)
          \/ \E u \in User, op \in {"get", "empty"} : Begin(r, op, u)
          \/ Step(r)
    BY <1>1 DEF Next
  <2>2. CASE \E u \in User, p \in Product, q \in 0..MaxQty : BeginAdd(r, u, p, q)
    BY <2>2, AskBeginAdd
  <2>3. CASE \E u \in User, op \in {"get", "empty"} : Begin(r, op, u)
    BY <2>3, AskBegin
  <2>4. CASE FindCart(r)
    BY <2>4, AskFindCart
  <2>5. CASE CreateCart(r)
    BY <2>5, AskCreateCart
  <2>6. CASE FindItem(r)
    BY <2>6, AskFindItem
  <2>7. CASE WriteItem(r)
    BY <2>7, AskWriteItem
  <2>8. CASE ReadItems(r)
    BY <2>8, AskReadItems
  <2>9. CASE DeleteItems(r)
    BY <2>9, AskDeleteItems
  <2>10. CASE Fail(r)
    BY <2>10, AskFail
  <2> QED
    BY <2>1, <2>2, <2>3, <2>4, <2>5, <2>6, <2>7, <2>8, <2>9, <2>10 DEF Step
<1>2. CASE UNCHANGED vars
  <2>1. TypeOK' /\ RowsHaveCarts'
    BY <1>2 DEF AskInv, TypeOK, RowsHaveCarts, vars
  <2>2. \A r \in Request : (IsAsked(r) /\ Found(r))'
    BY <1>2 DEF AskInv, IsAsked, Found, CartsOf, vars
  <2>3. RowsAreAsked' /\ ListsAreAsked'
    BY <1>2 DEF AskInv, RowsAreAsked, ListsAreAsked, AskedFor, vars
  <2> QED
    BY <2>1, <2>2, <2>3 DEF AskInv
<1> QED
  BY <1>1, <1>2

LEMMA AskInvariant == Spec => []AskInv
<1>1. AskInv /\ [Next]_vars => AskInv'
  BY AskNext
<1> QED
  BY <1>1, AskInit, PTL DEF Spec

(* Type correctness, whatever AddItems overlap: rows and handlers keep     *)
(* their types, and no row is of quantity zero (cart_add.go:22-26).        *)
THEOREM TypeCorrect == Spec => []TypeOK
<1>1. AskInv => TypeOK
  BY DEF AskInv
<1> QED
  BY <1>1, AskInvariant, PTL

(* What a GetCart lists was asked for by its own user, product and         *)
(* quantity, even when AddItems overlap and leave double carts and rows    *)
(* (cart_add.go:46-85, cart_get.go:36-57).                                 *)
THEOREM ListsAreAskedFor == Spec => []RepliesAreAsked
<1>1. AskInv => RepliesAreAsked
  BY DEF AskInv, ListsAreAsked, AskedFor, RepliesAreAsked
<1> QED
  BY <1>1, AskInvariant, PTL

-----------------------------------------------------------------------------
(* While a user's AddItems come one at a time.                             *)

(* A step of one handler that writes no table keeps CartInv if it keeps    *)
(* what CartInv says of that handler.                                      *)
LEMMA OneHandler ==
  ASSUME CartInv, UNCHANGED <<carts, items>>, NEW r \in Request, NEW x \in ReqRec,
         req' = [req EXCEPT ![r] = x],
         IsAsked(r)',
         x.op = "add" => HoldsPlace(r)',
         x.op = "add" /\ Running(r)' =>
           \A s \in Request \ {r} : req[s].op = "add" /\ req[s].user = x.user => ~Running(s)
  PROVE  CartInv'
<1>1. req' \in [Request -> ReqRec] /\ req'[r] = x /\ \A s \in Request \ {r} : req'[s] = req[s]
  BY DEF CartInv, TypeOK
<1>2. TypeOK'
  BY <1>1 DEF CartInv, TypeOK
<1>3. HandlersAreAsked'
  <2> SUFFICES ASSUME NEW s \in Request PROVE IsAsked(s)'
    BY DEF HandlersAreAsked, IsAsked
  <2>1. CASE s = r
    BY <2>1
  <2>2. CASE s # r
    <3>1. IsAsked(s)
      BY DEF CartInv, HandlersAreAsked, IsAsked
    <3> QED
      BY <1>1, <2>2, <3>1 DEF IsAsked, CartsOf
  <2> QED
    BY <2>1, <2>2
<1>4. AddsAreSerial'
  BY <1>1 DEF CartInv, TablesAreUnique, AddsAreSerial, Running
<1>5. AddsHoldTheirPlace'
  <2> SUFFICES ASSUME NEW s \in Request, req'[s].op = "add" PROVE HoldsPlace(s)'
    BY DEF AddsHoldTheirPlace, HoldsPlace
  <2>1. CASE s = r
    BY <1>1, <2>1
  <2>2. CASE s # r
    <3>1. HoldsPlace(s)
      BY <1>1, <2>2 DEF CartInv, TablesAreUnique, AddsHoldTheirPlace, HoldsPlace
    <3> QED
      BY <1>1, <2>2, <3>1 DEF HoldsPlace, CartsOf, RowsOf
  <2> QED
    BY <2>1, <2>2
<1>6. RowsHaveCarts' /\ OneCart' /\ OneRow'
  BY SameTables DEF CartInv, TablesAreUnique
<1> QED
  BY <1>2, <1>3, <1>4, <1>5, <1>6 DEF CartInv, TablesAreUnique

(* AddItem's arrival: no other AddItem of the user runs. *)
LEMMA BeginAddInv ==
  ASSUME SerialAdds, CartInv, NEW r \in Request, NEW u \in User, NEW p \in Product,
         NEW q \in 0..MaxQty, BeginAdd(r, u, p, q)
  PROVE  CartInv'
<1> DEFINE x == [req[r] EXCEPT !.op = "add", !.pc = "findCart", !.user = u,
                               !.product = p, !.qty = q]
<1>1. req[r] \in ReqRec /\ req[r].reply = Nothing
  BY DEF CartInv, TypeOK, HandlersAreAsked, BeginAdd
<1>2. x \in ReqRec
  BY <1>1, ReqTyped DEF Op, Pc
<1>3. req' = [req EXCEPT ![r] = x] /\ UNCHANGED <<carts, items>>
  BY DEF BeginAdd
<1>4. req'[r] = x
  BY <1>3 DEF CartInv, TypeOK
<1>5. /\ x.op = "add" /\ x.pc = "findCart" /\ x.user = u /\ x.product = p /\ x.qty = q
      /\ x.reply = Nothing
  BY <1>1 DEF ReqRec
<1>6. q \in Qty
  BY DEF BeginAdd, Qty
<1>7. IsAsked(r)'
  BY <1>4, <1>5, <1>6 DEF IsAsked
<1>8. HoldsPlace(r)'
  BY <1>4, <1>5 DEF HoldsPlace
<1>9. \A s \in Request \ {r} : req[s].op = "add" /\ req[s].user = x.user => ~Running(s)
  BY <1>5 DEF BeginAdd
<1> QED
  BY <1>2, <1>3, <1>7, <1>8, <1>9, OneHandler

(* The arrival of a GetCart or an EmptyCart. *)
LEMMA BeginInv ==
  ASSUME CartInv, NEW r \in Request, NEW op \in {"get", "empty"}, NEW u \in User,
         Begin(r, op, u)
  PROVE  CartInv'
<1> DEFINE x == [req[r] EXCEPT !.op = op, !.pc = "findCart", !.user = u]
<1>1. req[r] \in ReqRec /\ req[r].reply = Nothing
  BY DEF CartInv, TypeOK, HandlersAreAsked, Begin
<1>2. x \in ReqRec
  BY <1>1, ReqTyped DEF Op, Pc
<1>3. req' = [req EXCEPT ![r] = x] /\ UNCHANGED <<carts, items>>
  BY DEF Begin
<1>4. req'[r] = x
  BY <1>3 DEF CartInv, TypeOK
<1>5. x.op = op /\ x.pc = "findCart" /\ x.user = u /\ x.reply = Nothing
  BY <1>1 DEF ReqRec
<1>6. IsAsked(r)'
  BY <1>4, <1>5 DEF IsAsked
<1> QED
  BY <1>2, <1>3, <1>5, <1>6, OneHandler

(* While an AddItem runs, no other one of its user does. *)
LEMMA OnlyAdd ==
  ASSUME CartInv, NEW r \in Request, req[r].op = "add", Running(r)
  PROVE  \A s \in Request \ {r} : req[s].op = "add" /\ req[s].user = req[r].user => ~Running(s)
BY DEF CartInv, TablesAreUnique, AddsAreSerial

(* What CartInv says of a handler that has not answered. *)
LEMMA RunningHandler ==
  ASSUME CartInv, NEW r \in Request, Running(r)
  PROVE  /\ req[r] \in ReqRec
         /\ req[r].reply = Nothing
         /\ req[r].user \in User
         /\ req[r].op \in {"add", "get", "empty"}
         /\ req[r].op = "add" => req[r].product \in Product /\ req[r].qty \in Qty
         /\ req[r].cart \in Nat
<1>1. req[r] \in ReqRec
  BY DEF CartInv, TypeOK
<1>2. req[r].op \in Op /\ req[r].cart \in Nat
  BY <1>1 DEF ReqRec
<1>3. /\ req[r].reply = Nothing
      /\ req[r].user \in User
      /\ req[r].op # "none"
      /\ req[r].op = "add" => req[r].product \in Product /\ req[r].qty \in Qty
  BY DEF CartInv, HandlersAreAsked, Running
<1> QED
  BY <1>1, <1>2, <1>3 DEF Op

(* The cart found is the user's, and none is found only if there is none. *)
LEMMA FindCartInv ==
  ASSUME CartInv, NEW r \in Request, FindCart(r)
  PROVE  CartInv'
<1> DEFINE c == First(CartsOf(req[r].user))
           pc == CASE req[r].op = "add" -> IF c = 0 THEN "createCart" ELSE "findItem"
                   [] req[r].op = "get" -> IF c = 0 THEN "ok" ELSE "read"
                   [] OTHER -> IF c = 0 THEN "ok" ELSE "delete"
           x == [req[r] EXCEPT !.cart = c, !.pc = pc]
<1>1. /\ req[r] \in ReqRec /\ req[r].reply = Nothing /\ req[r].user \in User
      /\ req[r].op \in {"add", "get", "empty"}
      /\ req[r].op = "add" => req[r].product \in Product /\ req[r].qty \in Qty
      /\ Running(r)
  <2>1. Running(r)
    BY DEF FindCart, Running
  <2> QED
    BY <2>1, RunningHandler
<1>2. c \in Nat /\ (c = 0 => CartsOf(req[r].user) = {}) /\ (c # 0 => c \in CartsOf(req[r].user))
  <2>1. CartsOf(req[r].user) \in SUBSET (Nat \ {0})
    BY DEF CartInv, TypeOK, CartsOf
  <2> QED
    BY <2>1, FirstIs
<1>3. req' = [req EXCEPT ![r] = x] /\ UNCHANGED <<carts, items>>
  BY DEF FindCart
<1> HIDE DEF c
<1>4. pc \in Pc
  BY DEF Pc
<1>5. pc # "idle" /\ pc # "write"
  OBVIOUS
<1>6. /\ req[r].op = "add" => pc = (IF c = 0 THEN "createCart" ELSE "findItem")
      /\ req[r].op = "get" => pc = (IF c = 0 THEN "ok" ELSE "read")
      /\ req[r].op = "empty" => pc = (IF c = 0 THEN "ok" ELSE "delete")
  OBVIOUS
<1> HIDE DEF pc
<1>7. x \in ReqRec
  BY <1>1, <1>2, <1>4, ReqTyped
<1>8. /\ x.pc = pc /\ x.cart = c /\ x.op = req[r].op /\ x.user = req[r].user
      /\ x.product = req[r].product /\ x.qty = req[r].qty /\ x.reply = Nothing
  BY <1>1 DEF ReqRec
<1> HIDE DEF x
<1>9. req'[r] = x
  BY <1>3 DEF CartInv, TypeOK
<1>10. \A u \in User : CartsOf(u)' = CartsOf(u)
  BY <1>3, SameTables
<1>11. IsAsked(r)'
  <2>1. x.pc # "idle" /\ x.op # "none" /\ x.user \in User /\ x.reply = Nothing
    BY <1>1, <1>5, <1>8
  <2>2. x.op = "add" => x.product \in Product /\ x.qty \in Qty
    BY <1>1, <1>8
  <2>3. x.pc \in {"createCart", "findItem", "write"} => x.op = "add"
    BY <1>1, <1>6, <1>8
  <2>4. /\ x.pc = "read" => x.op = "get" /\ x.cart \in CartsOf(x.user)
        /\ x.pc = "delete" => x.op = "empty" /\ x.cart \in CartsOf(x.user)
    BY <1>1, <1>2, <1>6, <1>8
  <2> QED
    BY <1>9, <1>10, <2>1, <2>2, <2>3, <2>4 DEF IsAsked
<1>12. x.op = "add" => HoldsPlace(r)'
  <2> SUFFICES ASSUME x.op = "add" PROVE HoldsPlace(r)'
    OBVIOUS
  <2>1. x.pc = "createCart" => CartsOf(x.user) = {}
    BY <1>2, <1>6, <1>8
  <2>2. x.pc = "findItem" => x.cart \in CartsOf(x.user)
    BY <1>2, <1>6, <1>8
  <2>3. x.pc # "write" /\ x.user \in User
    BY <1>1, <1>5, <1>8
  <2> QED
    BY <1>9, <1>10, <2>1, <2>2, <2>3 DEF HoldsPlace
<1>13. x.op = "add" =>
         \A s \in Request \ {r} : req[s].op = "add" /\ req[s].user = x.user => ~Running(s)
  BY <1>1, <1>8, OnlyAdd
<1> QED
  BY <1>3, <1>7, <1>11, <1>12, <1>13, OneHandler

(* The row found is the product's only one in the cart. *)
LEMMA FindItemInv ==
  ASSUME CartInv, NEW r \in Request, FindItem(r)
  PROVE  CartInv'
<1> DEFINE c == req[r].cart
           p == req[r].product
           i == First(RowsOf(c, p))
           x == [req[r] EXCEPT !.item = i, !.pc = "write"]
<1>1. /\ req[r] \in ReqRec /\ req[r].reply = Nothing /\ req[r].user \in User
      /\ req[r].op = "add" /\ p \in Product /\ req[r].qty \in Qty
      /\ Running(r)
  <2>1. Running(r) /\ req[r].pc = "findItem"
    BY DEF FindItem, Running
  <2>2. req[r].op = "add"
    BY <2>1 DEF CartInv, HandlersAreAsked
  <2> QED
    BY <2>1, <2>2, RunningHandler
<1>2. c \in CartsOf(req[r].user) /\ c \in Nat
  BY <1>1 DEF CartInv, TablesAreUnique, AddsHoldTheirPlace, FindItem, ReqRec
<1>3. i \in Nat /\ (i = 0 => RowsOf(c, p) = {}) /\ (i # 0 => i \in RowsOf(c, p))
  <2>1. RowsOf(c, p) \in SUBSET (Nat \ {0})
    BY DEF CartInv, TypeOK, RowsOf
  <2> QED
    BY <2>1, FirstIs
<1>4. RowsOf(c, p) \subseteq {i}
  BY <1>1, <1>2, <1>3 DEF CartInv, TablesAreUnique, OneRow, CartsOf
<1>5. req' = [req EXCEPT ![r] = x] /\ UNCHANGED <<carts, items>>
  BY DEF FindItem
<1> HIDE DEF i
<1>6. x \in ReqRec
  BY <1>1, <1>3, ReqTyped DEF Pc
<1>7. /\ x.pc = "write" /\ x.item = i /\ x.cart = c /\ x.op = "add" /\ x.user = req[r].user
      /\ x.product = p /\ x.qty = req[r].qty /\ x.reply = Nothing
  BY <1>1 DEF ReqRec
<1> HIDE DEF x
<1>8. req'[r] = x
  BY <1>5 DEF CartInv, TypeOK
<1>9. CartsOf(req[r].user) = {d \in DOMAIN carts : carts[d] = x.user}
  BY <1>7 DEF CartsOf
<1>10. IsAsked(r)'
  BY <1>1, <1>7, <1>8 DEF IsAsked
<1>11. HoldsPlace(r)'
  <2> DEFINE C == {d \in DOMAIN carts : carts[d] = x.user}
             R == {j \in DOMAIN items :
                     items[j].live /\ items[j].cart = x.cart /\ items[j].product = x.product}
  <2>1. R = RowsOf(c, p)
    BY <1>7 DEF RowsOf
  <2>2. x.cart \in C /\ (x.item = 0 => R = {})
    BY <1>2, <1>3, <1>7, <1>9, <2>1
  <2>3. x.item # 0 =>
           /\ x.item \in DOMAIN items
           /\ items[x.item].cart = x.cart
           /\ items[x.item].product = x.product
           /\ R \subseteq {x.item}
    BY <1>3, <1>4, <1>7, <2>1 DEF RowsOf
  <2>4. CartsOf(req[r].user)' = C /\ RowsOf(req[r].cart, req[r].product)' = R
    BY <1>5, <1>8 DEF CartsOf, RowsOf
  <2> HIDE DEF C, R
  <2>5. req'[r] = x /\ x.pc = "write" /\ items' = items
    BY <1>5, <1>7, <1>8
  <2> QED
    BY <2>2, <2>3, <2>4, <2>5 DEF HoldsPlace
<1>12. \A s \in Request \ {r} : req[s].op = "add" /\ req[s].user = x.user => ~Running(s)
  BY <1>1, <1>7, OnlyAdd
<1> QED
  BY <1>5, <1>6, <1>10, <1>11, <1>12, OneHandler

(* GetCart answers with a list. *)
LEMMA ReadItemsInv ==
  ASSUME CartInv, NEW r \in Request, ReadItems(r)
  PROVE  CartInv'
<1> DEFINE l == [p \in Product |-> {<<i, items[i].qty>> : i \in RowsOf(req[r].cart, p)}]
           x == [req[r] EXCEPT !.reply = l, !.pc = "ok"]
<1>1. req[r] \in ReqRec /\ req[r].op = "get" /\ req[r].user \in User
  BY DEF CartInv, TypeOK, HandlersAreAsked, ReadItems
<1>2. l \in Listing
  <2> SUFFICES ASSUME NEW p \in Product, NEW i \in RowsOf(req[r].cart, p)
               PROVE  <<i, items[i].qty>> \in Nat \X Qty
    BY DEF Listing
  <2>1. i \in DOMAIN items /\ items \in Seq(Item)
    BY DEF CartInv, TypeOK, RowsOf
  <2>2. i \in Nat /\ items[i] \in Item
    BY <2>1
  <2> QED
    BY <2>2 DEF Item
<1>3. req' = [req EXCEPT ![r] = x] /\ UNCHANGED <<carts, items>>
  BY DEF ReadItems
<1> HIDE DEF l
<1>4. x \in ReqRec
  BY <1>1, <1>2, ReqTyped DEF Pc
<1>5. x.op = "get" /\ x.pc = "ok" /\ x.user = req[r].user
  BY <1>1 DEF ReqRec
<1> HIDE DEF x
<1>6. req'[r] = x
  BY <1>3 DEF CartInv, TypeOK
<1>7. IsAsked(r)'
  BY <1>1, <1>5, <1>6 DEF IsAsked
<1> QED
  BY <1>3, <1>4, <1>5, <1>7, OneHandler

(* A handler that fails leaves nothing behind. *)
LEMMA FailInv ==
  ASSUME CartInv, NEW r \in Request, Fail(r)
  PROVE  CartInv'
<1> DEFINE x == [req[r] EXCEPT !.pc = "error"]
<1>1. /\ req[r] \in ReqRec /\ req[r].user \in User /\ req[r].op # "none"
      /\ req[r].op = "add" => req[r].product \in Product /\ req[r].qty \in Qty
      /\ req[r].reply = Nothing
  BY DEF CartInv, TypeOK, HandlersAreAsked, Fail, Running
<1>2. req' = [req EXCEPT ![r] = x] /\ UNCHANGED <<carts, items>>
  BY DEF Fail
<1>3. x \in ReqRec
  BY <1>1, ReqTyped DEF Pc
<1>4. /\ x.op = req[r].op /\ x.pc = "error" /\ x.user = req[r].user /\ x.product = req[r].product
      /\ x.qty = req[r].qty /\ x.reply = Nothing
  BY <1>1 DEF ReqRec
<1> HIDE DEF x
<1>5. req'[r] = x
  BY <1>2 DEF CartInv, TypeOK
<1>6. IsAsked(r)' /\ HoldsPlace(r)' /\ ~Running(r)'
  BY <1>1, <1>4, <1>5 DEF IsAsked, HoldsPlace, Running
<1> QED
  BY <1>2, <1>3, <1>6, OneHandler

-----------------------------------------------------------------------------
(* The new cart is its user's only one, and holds nothing. *)
LEMMA CreateCartInv ==
  ASSUME CartInv, NEW r \in Request, CreateCart(r)
  PROVE  CartInv'
<1> DEFINE u == req[r].user
           n == Len(carts) + 1
           x == [req[r] EXCEPT !.cart = n, !.pc = "findItem"]
<1>1. /\ req[r] \in ReqRec /\ req[r].reply = Nothing /\ u \in User
      /\ req[r].op = "add" /\ req[r].product \in Product /\ req[r].qty \in Qty
      /\ Running(r)
  <2>1. Running(r) /\ req[r].pc = "createCart"
    BY DEF CreateCart, Running
  <2>2. req[r].op = "add"
    BY <2>1 DEF CartInv, HandlersAreAsked
  <2> QED
    BY <2>1, <2>2, RunningHandler
<1>2. carts \in Seq(User) /\ items \in Seq(Item)
  BY DEF CartInv, TypeOK
<1>3. carts' = Append(carts, u) /\ items' = items /\ req' = [req EXCEPT ![r] = x]
  BY DEF CreateCart
<1>4. /\ carts' \in Seq(User) /\ n \in Nat /\ n \notin DOMAIN carts
      /\ DOMAIN carts' = DOMAIN carts \cup {n}
      /\ carts'[n] = u /\ \A d \in DOMAIN carts : carts'[d] = carts[d]
  BY <1>1, <1>2, <1>3
<1>5. \A d \in DOMAIN carts : carts[d] # u
  BY <1>1 DEF CartInv, TablesAreUnique, AddsHoldTheirPlace, CreateCart, CartsOf
<1>6. x \in ReqRec
  BY <1>1, <1>4, ReqTyped DEF Pc
<1>7. /\ x.pc = "findItem" /\ x.cart = n /\ x.op = "add" /\ x.user = u
      /\ x.product = req[r].product /\ x.qty = req[r].qty /\ x.reply = Nothing
  BY <1>1 DEF ReqRec
<1> HIDE DEF x, n
<1>8. req' \in [Request -> ReqRec] /\ req'[r] = x /\ \A s \in Request \ {r} : req'[s] = req[s]
  BY <1>3, <1>6 DEF CartInv, TypeOK
<1>9. TypeOK'
  BY <1>2, <1>3, <1>4, <1>8 DEF TypeOK
<1>10. HandlersAreAsked'
  <2> SUFFICES ASSUME NEW s \in Request PROVE IsAsked(s)'
    BY DEF HandlersAreAsked, IsAsked
  <2>1. CASE s = r
    BY <1>1, <1>7, <1>8, <2>1 DEF IsAsked
  <2>2. CASE s # r
    <3>1. IsAsked(s)
      BY DEF CartInv, HandlersAreAsked, IsAsked
    <3> QED
      BY <1>4, <1>8, <2>2, <3>1 DEF IsAsked, CartsOf
  <2> QED
    BY <2>1, <2>2
<1>11. \A s \in Request \ {r} : req[s].op = "add" /\ req[s].user = u => ~Running(s)
  BY <1>1, OnlyAdd
<1>12. AddsAreSerial'
  BY <1>1, <1>7, <1>8, <1>11 DEF CartInv, TablesAreUnique, AddsAreSerial, Running
<1>13. RowsHaveCarts'
  BY <1>3, <1>4 DEF CartInv, TablesAreUnique, RowsHaveCarts
<1>14. OneCart'
  BY <1>4, <1>5 DEF CartInv, TablesAreUnique, OneCart
<1>15. \A p \in Product, i \in DOMAIN items : items[i].cart # n
  BY <1>4 DEF CartInv, TablesAreUnique, RowsHaveCarts
<1>16. OneRow'
  <2> SUFFICES ASSUME NEW d \in DOMAIN carts', NEW p \in Product,
                      NEW i \in RowsOf(d, p), NEW j \in RowsOf(d, p)
               PROVE  i = j
    BY <1>3 DEF OneRow, RowsOf
  <2>1. d # n
    BY <1>15 DEF RowsOf
  <2> QED
    BY <1>4, <2>1 DEF CartInv, TablesAreUnique, OneRow
<1>17. AddsHoldTheirPlace'
  <2> SUFFICES ASSUME NEW s \in Request, req'[s].op = "add" PROVE HoldsPlace(s)'
    BY DEF AddsHoldTheirPlace, HoldsPlace
  <2>1. CASE s = r
    BY <1>4, <1>7, <1>8, <2>1 DEF HoldsPlace, CartsOf
  <2>2. CASE s # r
    <3>1. HoldsPlace(s) /\ req'[s] = req[s] /\ (Running(s) => req[s].user # u)
      BY <1>8, <1>11, <2>2 DEF CartInv, TablesAreUnique, AddsHoldTheirPlace, HoldsPlace
    <3>2. Running(s) => \A d \in DOMAIN carts' : carts'[d] = req[s].user =>
                          d \in DOMAIN carts /\ carts[d] = req[s].user
      BY <1>4, <3>1
    <3> QED
      BY <1>3, <1>4, <3>1, <3>2 DEF HoldsPlace, CartsOf, RowsOf, Running
  <2> QED
    BY <2>1, <2>2
<1> QED
  BY <1>9, <1>10, <1>12, <1>13, <1>14, <1>16, <1>17 DEF CartInv, TablesAreUnique

(* Deleting rows makes nothing double; no other handler of the tables      *)
(* relied on a row that is gone.                                           *)
LEMMA DeleteItemsInv ==
  ASSUME CartInv, NEW r \in Request, DeleteItems(r)
  PROVE  CartInv'
<1> DEFINE x == [req[r] EXCEPT !.pc = "ok"]
<1>1. req[r] \in ReqRec /\ req[r].op = "empty" /\ req[r].user \in User /\ req[r].reply = Nothing
  <2>1. Running(r) /\ req[r].pc = "delete"
    BY DEF DeleteItems, Running
  <2>2. req[r].op = "empty"
    BY <2>1 DEF CartInv, HandlersAreAsked
  <2> QED
    BY <2>1, <2>2, RunningHandler
<1>2. carts \in Seq(User) /\ items \in Seq(Item)
  BY DEF CartInv, TypeOK
<1>3. /\ carts' = carts /\ req' = [req EXCEPT ![r] = x]
      /\ items' = [i \in DOMAIN items |->
                     IF items[i].cart = req[r].cart THEN [items[i] EXCEPT !.live = FALSE]
                                                    ELSE items[i]]
  BY DEF DeleteItems
<1>4. \A i \in DOMAIN items : items[i] \in Item
  BY <1>2
<1>5. \A y \in Item : /\ [y EXCEPT !.live = FALSE] \in Item
                      /\ [y EXCEPT !.live = FALSE].cart = y.cart
                      /\ [y EXCEPT !.live = FALSE].product = y.product
                      /\ ~[y EXCEPT !.live = FALSE].live
  BY DEF Item
<1>6. DOMAIN items' = DOMAIN items
  BY <1>3
<1>7. \A i \in DOMAIN items : /\ items'[i] \in Item
                              /\ items'[i].cart = items[i].cart
                              /\ items'[i].product = items[i].product
                              /\ items'[i].live => items[i].live
  BY <1>3, <1>4, <1>5, <1>6
<1>8. items' \in Seq(Item)
  <2> DEFINE n == Len(items)
  <2>1. n \in Nat /\ DOMAIN items = 1..n
    BY <1>2
  <2>2. items' = [i \in 1..n |-> IF items[i].cart = req[r].cart
                                 THEN [items[i] EXCEPT !.live = FALSE] ELSE items[i]]
    BY <1>3, <2>1
  <2>3. items' \in [1..n -> Item]
    BY <1>7, <2>1, <2>2
  <2> QED
    BY <2>1, <2>3, SeqDef
<1>9. x \in ReqRec
  BY <1>1, ReqTyped DEF Pc
<1>10. x.pc = "ok" /\ x.op = "empty" /\ x.user = req[r].user /\ x.reply = Nothing
  BY <1>1 DEF ReqRec
<1> HIDE DEF x
<1>11. req' \in [Request -> ReqRec] /\ req'[r] = x /\ \A s \in Request \ {r} : req'[s] = req[s]
  BY <1>3, <1>9 DEF CartInv, TypeOK
<1>12. TypeOK'
  BY <1>2, <1>3, <1>8, <1>11 DEF TypeOK
<1>13. HandlersAreAsked'
  <2> SUFFICES ASSUME NEW s \in Request PROVE IsAsked(s)'
    BY DEF HandlersAreAsked, IsAsked
  <2>1. CASE s = r
    BY <1>1, <1>10, <1>11, <2>1 DEF IsAsked
  <2>2. CASE s # r
    <3>1. IsAsked(s)
      BY DEF CartInv, HandlersAreAsked, IsAsked
    <3> QED
      BY <1>3, <1>11, <2>2, <3>1 DEF IsAsked, CartsOf
  <2> QED
    BY <2>1, <2>2
<1>14. AddsAreSerial'
  BY <1>10, <1>11 DEF CartInv, TablesAreUnique, AddsAreSerial, Running
<1>15. RowsHaveCarts' /\ OneCart'
  BY <1>3, <1>6, <1>7 DEF CartInv, TablesAreUnique, RowsHaveCarts, OneCart
<1>16. OneRow'
  BY <1>3, <1>6, <1>7 DEF CartInv, TablesAreUnique, OneRow, RowsOf
<1>17. AddsHoldTheirPlace'
  <2> SUFFICES ASSUME NEW s \in Request, req'[s].op = "add" PROVE HoldsPlace(s)'
    BY DEF AddsHoldTheirPlace, HoldsPlace
  <2>1. s # r /\ req'[s] = req[s]
    BY <1>10, <1>11
  <2>2. HoldsPlace(s)
    BY <2>1 DEF CartInv, TablesAreUnique, AddsHoldTheirPlace, HoldsPlace
  <2> QED
    BY <1>3, <1>6, <1>7, <2>1, <2>2 DEF HoldsPlace, CartsOf, RowsOf
<1> QED
  BY <1>12, <1>13, <1>14, <1>15, <1>16, <1>17 DEF CartInv, TablesAreUnique

(* The row it writes is the only live one of its cart and product. *)
LEMMA WritesOneRow ==
  ASSUME CartInv, NEW r \in Request, WriteItem(r)
  PROVE  \E k \in Nat :
           /\ items' \in Seq(Item)
           /\ DOMAIN items' = DOMAIN items \cup {k}
           /\ \A i \in DOMAIN items : /\ items'[i].cart = items[i].cart
                                      /\ items'[i].product = items[i].product
                                      /\ i # k => items'[i] = items[i]
           /\ items'[k] = [cart |-> req[r].cart, product |-> req[r].product,
                            qty |-> req[r].qty, live |-> TRUE]
           /\ RowsOf(req[r].cart, req[r].product) \subseteq {k}
<1>1. req[r].pc = "write" /\ req[r].op = "add" /\ Running(r)
  BY DEF WriteItem, Running, CartInv, HandlersAreAsked
<1>2. req[r].product \in Product /\ req[r].qty \in Qty /\ req[r].cart \in Nat
  BY <1>1, RunningHandler
<1>3. HoldsPlace(r)
  BY <1>1 DEF CartInv, TablesAreUnique, AddsHoldTheirPlace, HoldsPlace
<1>4. Found(r)
  BY <1>3 DEF HoldsPlace, Found
<1>5. RowsOf(req[r].cart, req[r].product) \subseteq
        {IF req[r].item = 0 THEN Len(items) + 1 ELSE req[r].item}
  BY <1>1, <1>3 DEF HoldsPlace
<1>6. TypeOK
  BY DEF CartInv
<1> QED
  BY <1>1, <1>2, <1>4, <1>5, <1>6, WritesRow

(* It makes nothing double, and disturbs no other user's AddItem. *)
LEMMA WriteItemInv ==
  ASSUME CartInv, NEW r \in Request, WriteItem(r)
  PROVE  CartInv'
<1> DEFINE u == req[r].user
           c == req[r].cart
           p == req[r].product
           x == [req[r] EXCEPT !.pc = "ok"]
<1>1. /\ req[r] \in ReqRec /\ req[r].reply = Nothing /\ u \in User
      /\ req[r].op = "add" /\ p \in Product /\ req[r].qty \in Qty
      /\ Running(r)
  <2>1. Running(r) /\ req[r].pc = "write"
    BY DEF WriteItem, Running
  <2>2. req[r].op = "add"
    BY <2>1 DEF CartInv, HandlersAreAsked
  <2> QED
    BY <2>1, <2>2, RunningHandler
<1>2. c \in DOMAIN carts /\ carts[c] = u
  BY <1>1 DEF CartInv, TablesAreUnique, AddsHoldTheirPlace, WriteItem, CartsOf
<1>3. carts' = carts /\ req' = [req EXCEPT ![r] = x]
  BY DEF WriteItem
<1>4. PICK k \in Nat :
        /\ items' \in Seq(Item)
        /\ DOMAIN items' = DOMAIN items \cup {k}
        /\ \A i \in DOMAIN items : /\ items'[i].cart = items[i].cart
                                   /\ items'[i].product = items[i].product
                                   /\ i # k => items'[i] = items[i]
        /\ items'[k] = [cart |-> c, product |-> p, qty |-> req[r].qty, live |-> TRUE]
        /\ RowsOf(c, p) \subseteq {k}
  BY WritesOneRow
<1>5. items'[k].cart = c /\ items'[k].product = p
  BY <1>4
<1>6. x \in ReqRec
  BY <1>1, ReqTyped DEF Pc
<1>7. /\ x.pc = "ok" /\ x.op = "add" /\ x.user = u /\ x.product = p /\ x.qty = req[r].qty
      /\ x.reply = Nothing
  BY <1>1 DEF ReqRec
<1> HIDE DEF x
<1>8. req' \in [Request -> ReqRec] /\ req'[r] = x /\ \A s \in Request \ {r} : req'[s] = req[s]
  BY <1>3, <1>6 DEF CartInv, TypeOK
<1>9. TypeOK'
  BY <1>3, <1>4, <1>8 DEF CartInv, TypeOK
<1>10. HandlersAreAsked'
  <2> SUFFICES ASSUME NEW s \in Request PROVE IsAsked(s)'
    BY DEF HandlersAreAsked, IsAsked
  <2>1. CASE s = r
    BY <1>1, <1>7, <1>8, <2>1 DEF IsAsked
  <2>2. CASE s # r
    <3>1. IsAsked(s)
      BY DEF CartInv, HandlersAreAsked, IsAsked
    <3> QED
      BY <1>3, <1>8, <2>2, <3>1 DEF IsAsked, CartsOf
  <2> QED
    BY <2>1, <2>2
<1>11. AddsAreSerial'
  BY <1>7, <1>8 DEF CartInv, TablesAreUnique, AddsAreSerial, Running
<1>12. RowsHaveCarts'
  BY <1>2, <1>3, <1>4, <1>5 DEF CartInv, TablesAreUnique, RowsHaveCarts
<1>13. OneCart'
  BY <1>3 DEF CartInv, TablesAreUnique, OneCart
<1>14. \A d \in Nat, z \in Product :
         RowsOf(d, z)' \subseteq RowsOf(d, z) \cup (IF d = c /\ z = p THEN {k} ELSE {})
  BY <1>4, <1>5 DEF RowsOf
<1>15. OneRow'
  <2> SUFFICES ASSUME NEW d \in DOMAIN carts, NEW z \in Product,
                      NEW i \in RowsOf(d, z)', NEW j \in RowsOf(d, z)'
               PROVE  i = j
    BY <1>3 DEF OneRow
  <2>0. d \in Nat
    BY DEF CartInv, TypeOK
  <2>1. CASE d = c /\ z = p
    BY <1>4, <1>14, <2>0, <2>1
  <2>2. CASE ~(d = c /\ z = p)
    BY <1>14, <2>0, <2>2 DEF CartInv, TablesAreUnique, OneRow
  <2> QED
    BY <2>1, <2>2
<1>16. AddsHoldTheirPlace'
  <2> SUFFICES ASSUME NEW s \in Request, req'[s].op = "add" PROVE HoldsPlace(s)'
    BY DEF AddsHoldTheirPlace, HoldsPlace
  <2>1. CASE s = r
    BY <1>7, <1>8, <2>1 DEF HoldsPlace
  <2>2. CASE s # r
    <3>1. HoldsPlace(s) /\ req'[s] = req[s] /\ req[s].op = "add"
      BY <1>8, <2>2 DEF CartInv, TablesAreUnique, AddsHoldTheirPlace, HoldsPlace
    <3>2. Running(s) => req[s].user # u
      BY <1>1, <2>2, <3>1, OnlyAdd
    <3>3. CASE ~Running(s)
      BY <3>1, <3>3 DEF HoldsPlace, Running
    <3>4. CASE req[s].pc \in {"findItem", "write"}
      <4>1. req[s].cart \in DOMAIN carts /\ carts[req[s].cart] = req[s].user /\ req[s].cart # c
        BY <1>2, <3>1, <3>2, <3>4 DEF HoldsPlace, CartsOf, Running
      <4>2. \A i \in DOMAIN items' :
              items'[i].live /\ items'[i].cart = req[s].cart /\ items'[i].product = req[s].product
              => i # k /\ i \in RowsOf(req[s].cart, req[s].product)
        BY <1>4, <1>5, <4>1 DEF RowsOf
      <4> QED
        BY <1>3, <1>4, <3>1, <3>4, <4>1, <4>2 DEF HoldsPlace, CartsOf, RowsOf
    <3>5. CASE Running(s) /\ req[s].pc \notin {"findItem", "write"}
      BY <1>3, <3>1, <3>5 DEF HoldsPlace, CartsOf
    <3> QED
      BY <3>3, <3>4, <3>5 DEF Running
  <2> QED
    BY <2>1, <2>2
<1> QED
  BY <1>9, <1>10, <1>11, <1>12, <1>13, <1>15, <1>16 DEF CartInv, TablesAreUnique

-----------------------------------------------------------------------------
(* Empty tables, and nothing asked. *)
LEMMA InitInv == Init => CartInv
<1> SUFFICES ASSUME Init PROVE CartInv
  OBVIOUS
<1>1. Nothing \in Listing
  BY DEF Nothing, Listing
<1>2. TypeOK
  BY <1>1 DEF Init, TypeOK, ReqRec, Op, Pc
<1>3. \A r \in Request : req[r].op = "none" /\ req[r].pc = "idle" /\ req[r].user = None
                         /\ req[r].product = None /\ req[r].qty = 0 /\ req[r].reply = Nothing
  BY DEF Init
<1>4. HandlersAreAsked
  BY <1>3 DEF HandlersAreAsked
<1>5. TablesAreUnique
  BY <1>3 DEF Init, TablesAreUnique, AddsAreSerial, RowsHaveCarts, OneCart, OneRow,
              AddsHoldTheirPlace, RowsOf
<1> QED
  BY <1>2, <1>4, <1>5 DEF CartInv

(* Every step keeps it. *)
LEMMA NextInv ==
  ASSUME SerialAdds, CartInv, Next
  PROVE  CartInv'
<1>1. PICK r \in Request :
        \/ \E u \in User, p \in Product, q \in 0..MaxQty : BeginAdd(r, u, p, q)
        \/ \E u \in User, op \in {"get", "empty"} : Begin(r, op, u)
        \/ Step(r)
  BY DEF Next
<1>2. CASE \E u \in User, p \in Product, q \in 0..MaxQty : BeginAdd(r, u, p, q)
  BY <1>2, BeginAddInv
<1>3. CASE \E u \in User, op \in {"get", "empty"} : Begin(r, op, u)
  BY <1>3, BeginInv
<1>4. CASE FindCart(r)
  BY <1>4, FindCartInv
<1>5. CASE CreateCart(r)
  BY <1>5, CreateCartInv
<1>6. CASE FindItem(r)
  BY <1>6, FindItemInv
<1>7. CASE WriteItem(r)
  BY <1>7, WriteItemInv
<1>8. CASE ReadItems(r)
  BY <1>8, ReadItemsInv
<1>9. CASE DeleteItems(r)
  BY <1>9, DeleteItemsInv
<1>10. CASE Fail(r)
  BY <1>10, FailInv
<1> QED
  BY <1>1, <1>2, <1>3, <1>4, <1>5, <1>6, <1>7, <1>8, <1>9, <1>10 DEF Step

(* Standing still does too. *)
LEMMA StutterInv ==
  ASSUME CartInv, UNCHANGED vars
  PROVE  CartInv'
<1>1. TypeOK'
  BY DEF CartInv, TypeOK, vars
<1>2. HandlersAreAsked'
  BY DEF CartInv, HandlersAreAsked, CartsOf, vars
<1>3. RowsHaveCarts' /\ OneCart' /\ OneRow' /\ AddsAreSerial'
  BY SameTables DEF CartInv, TablesAreUnique, AddsAreSerial, Running, vars
<1>4. AddsHoldTheirPlace'
  BY DEF CartInv, TablesAreUnique, AddsHoldTheirPlace, CartsOf, RowsOf, vars
<1> QED
  BY <1>1, <1>2, <1>3, <1>4 DEF CartInv, TablesAreUnique

(* While a user's AddItems come one at a time, each user has one cart and  *)
(* each cart one row per product, whatever GetCarts and EmptyCarts run     *)
(* between their statements (cart_add.go:28-85).                           *)
THEOREM TablesStayUnique ==
  ASSUME SerialAdds
  PROVE  Spec => []CartInv
<1>1. Init => CartInv
  BY InitInv
<1>2. CartInv /\ [Next]_vars => CartInv'
  BY NextInv, StutterInv
<1> QED
  BY <1>1, <1>2, PTL DEF Spec

-----------------------------------------------------------------------------
(* The service implements CartContents: what the variables of the contents *)
(* stand for.                                                              *)
InCarts == [u \in User |-> [p \in Product |-> Quantity(u, p)]]
Calls == [r \in Request |-> [op |-> req[r].op, user |-> req[r].user,
                             product |-> req[r].product, qty |-> req[r].qty]]
Acked == {r \in Request : req[r].pc = "ok"}
Answers == [r \in Request |-> [p \in Product |-> Listed(r, p)]]

(* The live rows of a user's product.                                      *)
Rows(u, p) == {i \in DOMAIN items : items[i].live /\ items[i].product = p
                                    /\ carts[items[i].cart] = u}

(* While the tables are unique, the quantity is that of the one row.       *)
LEMMA QuantityIs ==
  CartInv => \A u \in User, p \in Product :
               /\ Rows(u, p) = {} => Quantity(u, p) = 0
               /\ \A i \in Rows(u, p) : Quantity(u, p) = items[i].qty
<1> SUFFICES ASSUME CartInv, NEW u \in User, NEW p \in Product
             PROVE  /\ Rows(u, p) = {} => Quantity(u, p) = 0
                    /\ \A i \in Rows(u, p) : Quantity(u, p) = items[i].qty
  OBVIOUS
<1> DEFINE c == First(CartsOf(u))
           i == First(RowsOf(c, p))
<1>1. c \in Nat /\ (CartsOf(u) = {} => c = 0) /\ (CartsOf(u) # {} => c \in CartsOf(u))
  BY FindsCart DEF CartInv
<1>2. i \in Nat /\ (RowsOf(c, p) = {} => i = 0) /\ (RowsOf(c, p) # {} => i \in RowsOf(c, p))
  BY <1>1, FindsRow DEF CartInv
<1>3. Quantity(u, p) = IF i = 0 THEN 0 ELSE items[i].qty
  BY DEF Quantity
<1> HIDE DEF c, i
<1>4. RowsOf(c, p) = Rows(u, p)
  <2>1. 0 \notin DOMAIN carts /\ \A j \in DOMAIN items : items[j].cart \in DOMAIN carts
    BY DEF CartInv, TypeOK, TablesAreUnique, RowsHaveCarts
  <2>2. \A j \in DOMAIN items : carts[items[j].cart] = u => items[j].cart = c
    BY <1>1, <2>1 DEF CartInv, TablesAreUnique, OneCart, CartsOf
  <2>3. \A j \in DOMAIN items : items[j].cart = c => carts[items[j].cart] = u
    BY <1>1, <2>1 DEF CartsOf
  <2> QED
    BY <2>2, <2>3 DEF RowsOf, Rows
<1>5. \A j \in Rows(u, p) : j = i
  <2> SUFFICES ASSUME NEW j \in Rows(u, p) PROVE j = i
    OBVIOUS
  <2>1. j \in RowsOf(c, p) /\ i \in RowsOf(c, p) /\ c \in DOMAIN carts
    BY <1>2, <1>4 DEF CartInv, TablesAreUnique, RowsHaveCarts, RowsOf
  <2> QED
    BY <2>1 DEF CartInv, TablesAreUnique, OneRow
<1>6. 0 \notin DOMAIN items
  BY DEF CartInv, TypeOK
<1> QED
  BY <1>2, <1>3, <1>4, <1>5, <1>6 DEF Rows

(* The same after a step.                                                  *)
LEMMA QuantityBecomes ==
  CartInv' => \A u \in User, p \in Product :
               /\ Rows(u, p)' = {} => Quantity(u, p)' = 0
               /\ \A i \in Rows(u, p)' : Quantity(u, p)' = items'[i].qty
<1>1. (CartInv => \A u \in User, p \in Product :
               /\ Rows(u, p) = {} => Quantity(u, p) = 0
               /\ \A i \in Rows(u, p) : Quantity(u, p) = items[i].qty)'
  BY QuantityIs, PTL
<1> QED
  BY <1>1

(* Rows that stay as they were keep the quantity.                          *)
LEMMA SameRows ==
  ASSUME CartInv, CartInv', NEW u \in User, NEW p \in Product,
         \A i : i \in Rows(u, p)' <=> i \in Rows(u, p),
         \A i \in Rows(u, p) : items'[i].qty = items[i].qty
  PROVE  Quantity(u, p)' = Quantity(u, p)
<1>1. CASE Rows(u, p) = {}
  BY <1>1, QuantityIs, QuantityBecomes
<1>2. ASSUME NEW i \in Rows(u, p)
      PROVE  Quantity(u, p)' = Quantity(u, p)
  <2>1. Quantity(u, p) = items[i].qty
    BY QuantityIs
  <2>2. Quantity(u, p)' = items'[i].qty
    BY QuantityBecomes
  <2> QED
    BY <2>1, <2>2
<1> QED
  BY <1>1, <1>2

-----------------------------------------------------------------------------
(* A step that asks nothing new. *)
LEMMA CallsStay ==
  ASSUME \A r \in Request : /\ req'[r].op = req[r].op /\ req'[r].user = req[r].user
                            /\ req'[r].product = req[r].product /\ req'[r].qty = req[r].qty
  PROVE  Calls' = Calls
BY DEF Calls

(* The quantity in a list of rows of one product. *)
QuantityIn(rows) == IF rows = {} THEN 0 ELSE (CHOOSE row \in rows : TRUE)[2]

LEMMA QuantityInOne == \A i, n : QuantityIn({<<i, n>>}) = n
<1> SUFFICES ASSUME NEW i, NEW n PROVE QuantityIn({<<i, n>>}) = n
  OBVIOUS
<1>1. (CHOOSE row \in {<<i, n>>} : TRUE) \in {<<i, n>>}
  OBVIOUS
<1>2. (CHOOSE row \in {<<i, n>>} : TRUE) = <<i, n>>
  BY <1>1
<1> QED
  BY <1>2 DEF QuantityIn

LEMMA ListedIs ==
  \A r \in Request, p \in Product : Listed(r, p) = QuantityIn(req[r].reply[p])
BY DEF Listed, QuantityIn

LEMMA ListedBecomes ==
  \A r \in Request, p \in Product : Listed(r, p)' = QuantityIn(req'[r].reply[p])
<1>1. (\A r \in Request, p \in Product : Listed(r, p) = QuantityIn(req[r].reply[p]))'
  BY ListedIs, PTL
<1> QED
  BY <1>1

(* A step that lists nothing. *)
LEMMA AnswersStay ==
  ASSUME \A r \in Request : req'[r].reply = req[r].reply
  PROVE  Answers' = Answers
<1>1. ASSUME NEW r \in Request, NEW p \in Product
      PROVE  Listed(r, p)' = Listed(r, p)
  BY ListedIs, ListedBecomes
<1> QED
  BY <1>1 DEF Answers

(* A step that answers nobody. *)
LEMMA AckedStays ==
  ASSUME \A r \in Request : req'[r].pc = "ok" <=> req[r].pc = "ok"
  PROVE  Acked' = Acked
BY DEF Acked

(* A step that answers one handler. *)
LEMMA AckedGrows ==
  ASSUME NEW r \in Request, req[r].pc # "ok", req'[r].pc = "ok",
         \A s \in Request \ {r} : req'[s].pc = req[s].pc
  PROVE  r \notin Acked /\ Acked' = Acked \cup {r}
BY DEF Acked

(* A step that writes no table. *)
LEMMA InCartsStay ==
  ASSUME UNCHANGED <<carts, items>>
  PROVE  InCarts' = InCarts
BY DEF InCarts, Quantity, CartsOf, RowsOf

LEMMA ContentsStutter ==
  ASSUME InCarts' = InCarts, Calls' = Calls, Acked' = Acked, Answers' = Answers
  PROVE  UNCHANGED Contents!vars
BY DEF Contents!vars, InCarts, Calls, Acked, Answers

(* A call arrives. *)
LEMMA ContentsAsk ==
  ASSUME NEW r \in Request, NEW call \in Contents!Call, Calls[r] = Contents!NoCall,
         Calls' = [Calls EXCEPT ![r] = call],
         InCarts' = InCarts, Acked' = Acked, Answers' = Answers
  PROVE  Contents!Next
<1>1. Contents!Ask(r, call)
  BY DEF Contents!Ask, InCarts, Calls, Acked, Answers
<1> QED
  BY <1>1 DEF Contents!Next

(* A call takes effect. *)
LEMMA ContentsAck ==
  ASSUME NEW r \in Request, r \notin Acked, Acked' = Acked \cup {r}, Calls' = Calls,
         Contents!Put(r) \/ Contents!Clear(r) \/ Contents!Read(r)
  PROVE  Contents!Next
<1>1. Contents!Ack(r)
  BY DEF Contents!Ack, Calls, Acked
<1> QED
  BY <1>1 DEF Contents!Next

(* A handler of the steps within a call keeps what it was asked. *)
LEMMA StepKeepsCall ==
  ASSUME CartInv, NEW r \in Request, Step(r)
  PROVE  /\ \A s \in Request : /\ req'[s].op = req[s].op /\ req'[s].user = req[s].user
                               /\ req'[s].product = req[s].product /\ req'[s].qty = req[s].qty
         /\ \A s \in Request \ {r} : req'[s] = req[s]
<1>1. req \in [Request -> ReqRec]
  BY DEF CartInv, TypeOK
<1>2. CASE FindCart(r)
  BY <1>1, <1>2 DEF FindCart, ReqRec
<1>3. CASE CreateCart(r)
  BY <1>1, <1>3 DEF CreateCart, ReqRec
<1>4. CASE FindItem(r)
  BY <1>1, <1>4 DEF FindItem, ReqRec
<1>5. CASE WriteItem(r)
  BY <1>1, <1>5 DEF WriteItem, ReqRec
<1>6. CASE ReadItems(r)
  BY <1>1, <1>6 DEF ReadItems, ReqRec
<1>7. CASE DeleteItems(r)
  BY <1>1, <1>7 DEF DeleteItems, ReqRec
<1>8. CASE Fail(r)
  BY <1>1, <1>8 DEF Fail, ReqRec
<1> QED
  BY <1>2, <1>3, <1>4, <1>5, <1>6, <1>7, <1>8 DEF Step

(* Only ReadItems lists. *)
LEMMA StepListsNothing ==
  ASSUME CartInv, NEW r \in Request,
         \/ FindCart(r) \/ CreateCart(r) \/ FindItem(r) \/ WriteItem(r) \/ DeleteItems(r)
         \/ Fail(r)
  PROVE  Answers' = Answers
<1>1. req \in [Request -> ReqRec]
  BY DEF CartInv, TypeOK
<1>2. req'[r].reply = req[r].reply
  <2>1. CASE FindCart(r)
    BY <1>1, <2>1 DEF FindCart, ReqRec
  <2>2. CASE CreateCart(r)
    BY <1>1, <2>2 DEF CreateCart, ReqRec
  <2>3. CASE FindItem(r)
    BY <1>1, <2>3 DEF FindItem, ReqRec
  <2>4. CASE WriteItem(r)
    BY <1>1, <2>4 DEF WriteItem, ReqRec
  <2>5. CASE DeleteItems(r)
    BY <1>1, <2>5 DEF DeleteItems, ReqRec
  <2>6. CASE Fail(r)
    BY <1>1, <2>6 DEF Fail, ReqRec
  <2> QED
    BY <2>1, <2>2, <2>3, <2>4, <2>5, <2>6
<1>3. \A s \in Request : req'[s].reply = req[s].reply
  BY <1>2, StepKeepsCall DEF Step
<1> QED
  BY <1>3, AnswersStay

(* The arrival of an AddItem. *)
LEMMA BeginAddAsks ==
  ASSUME CartInv, NEW r \in Request, NEW u \in User, NEW p \in Product,
         NEW q \in 0..MaxQty, BeginAdd(r, u, p, q)
  PROVE  Contents!Next
<1> DEFINE call == [op |-> "add", user |-> u, product |-> p, qty |-> q]
<1>1. req \in [Request -> ReqRec]
  BY DEF CartInv, TypeOK
<1>2. /\ req[r].pc = "idle" /\ req[r].op = "none" /\ req[r].user = None
      /\ req[r].product = None /\ req[r].qty = 0
  BY DEF BeginAdd, CartInv, HandlersAreAsked
<1>3. /\ req'[r].op = "add" /\ req'[r].user = u /\ req'[r].product = p /\ req'[r].qty = q
      /\ req'[r].pc = "findCart" /\ req'[r].reply = req[r].reply
      /\ \A s \in Request \ {r} : req'[s] = req[s]
  BY <1>1 DEF BeginAdd, ReqRec
<1>4. Calls[r] = Contents!NoCall
  BY <1>2 DEF Calls, Contents!NoCall
<1>5. \A s \in Request : Calls'[s] = IF s = r THEN call ELSE Calls[s]
  BY <1>3 DEF Calls
<1>6. Calls' = [Calls EXCEPT ![r] = call]
  BY <1>5 DEF Calls
<1>7. call \in Contents!Call
  BY DEF Contents!Call, BeginAdd
<1>8. Answers' = Answers
  BY <1>3, AnswersStay
<1>9. Acked' = Acked
  BY <1>2, <1>3, AckedStays
<1>10. InCarts' = InCarts
  BY InCartsStay DEF BeginAdd
<1> HIDE DEF call
<1> QED
  BY <1>4, <1>6, <1>7, <1>8, <1>9, <1>10, ContentsAsk

(* The arrival of a GetCart or an EmptyCart. *)
LEMMA BeginAsks ==
  ASSUME CartInv, NEW r \in Request, NEW op \in {"get", "empty"}, NEW u \in User,
         Begin(r, op, u)
  PROVE  Contents!Next
<1> DEFINE call == [op |-> op, user |-> u, product |-> None, qty |-> 0]
<1>1. req \in [Request -> ReqRec]
  BY DEF CartInv, TypeOK
<1>2. /\ req[r].pc = "idle" /\ req[r].op = "none" /\ req[r].user = None
      /\ req[r].product = None /\ req[r].qty = 0
  BY DEF Begin, CartInv, HandlersAreAsked
<1>3. /\ req'[r].op = op /\ req'[r].user = u /\ req'[r].product = None /\ req'[r].qty = 0
      /\ req'[r].pc = "findCart" /\ req'[r].reply = req[r].reply
      /\ \A s \in Request \ {r} : req'[s] = req[s]
  BY <1>1, <1>2 DEF Begin, ReqRec
<1>4. Calls[r] = Contents!NoCall
  BY <1>2 DEF Calls, Contents!NoCall
<1>5. \A s \in Request : Calls'[s] = IF s = r THEN call ELSE Calls[s]
  BY <1>3 DEF Calls
<1>6. Calls' = [Calls EXCEPT ![r] = call]
  BY <1>5 DEF Calls
<1>7. call \in Contents!Call
  BY DEF Contents!Call
<1>8. Answers' = Answers
  BY <1>3, AnswersStay
<1>9. Acked' = Acked
  BY <1>2, <1>3, AckedStays
<1>10. InCarts' = InCarts
  BY InCartsStay DEF Begin
<1> HIDE DEF call
<1> QED
  BY <1>4, <1>6, <1>7, <1>8, <1>9, <1>10, ContentsAsk

(* One user's contents change. *)
LEMMA OneUser ==
  ASSUME NEW u \in User, NEW p \in Product, NEW q,
         Quantity(u, p)' = q,
         \A v \in User, z \in Product : (v # u \/ z # p) => Quantity(v, z)' = Quantity(v, z)
  PROVE  InCarts' = [InCarts EXCEPT ![u][p] = q]
<1>1. \A v \in User, z \in Product :
        InCarts'[v][z] = IF v = u /\ z = p THEN q ELSE InCarts[v][z]
  BY DEF InCarts
<1>2. InCarts' = [v \in User |-> [z \in Product |-> InCarts'[v][z]]]
  BY DEF InCarts
<1>3. [InCarts EXCEPT ![u][p] = q] =
        [v \in User |-> [z \in Product |-> IF v = u /\ z = p THEN q ELSE InCarts[v][z]]]
  BY DEF InCarts
<1> QED
  BY <1>1, <1>2, <1>3

LEMMA OneCleared ==
  ASSUME NEW u \in User,
         \A z \in Product : Quantity(u, z)' = 0,
         \A v \in User, z \in Product : v # u => Quantity(v, z)' = Quantity(v, z)
  PROVE  InCarts' = [InCarts EXCEPT ![u] = Contents!NoItems]
<1>1. \A v \in User : InCarts'[v] = IF v = u THEN Contents!NoItems ELSE InCarts[v]
  BY DEF InCarts, Contents!NoItems
<1>2. InCarts' = [v \in User |-> InCarts'[v]] /\ InCarts = [v \in User |-> InCarts[v]]
  BY DEF InCarts
<1> QED
  BY <1>1, <1>2

(* A user without a cart has nothing in it. *)
LEMMA NoCart ==
  ASSUME CartInv, NEW u \in User, CartsOf(u) = {}
  PROVE  InCarts[u] = Contents!NoItems
<1>1. \A p \in Product : Rows(u, p) = {}
  BY DEF CartsOf, Rows, CartInv, TablesAreUnique, RowsHaveCarts
<1>2. \A p \in Product : Quantity(u, p) = 0
  BY <1>1, QuantityIs
<1> QED
  BY <1>2 DEF InCarts, Contents!NoItems

(* A GetCart or an EmptyCart of a user without a cart takes effect when it *)
(* finds none; any other lookup changes nothing.                           *)
LEMMA FindCartActs ==
  ASSUME CartInv, NEW r \in Request, FindCart(r)
  PROVE  Contents!Next \/ UNCHANGED Contents!vars
<1> DEFINE u == req[r].user
           c == First(CartsOf(u))
<1>1. req \in [Request -> ReqRec]
  BY DEF CartInv, TypeOK
<1>2. /\ Running(r) /\ u \in User /\ req[r].op \in {"add", "get", "empty"}
      /\ req[r].reply = Nothing
  BY RunningHandler DEF FindCart, Running
<1>3. CartsOf(u) # {} => c # 0
  <2>1. 0 \notin CartsOf(u)
    BY DEF CartInv, TypeOK, CartsOf
  <2> QED
    BY <1>2, <2>1, FindsCart DEF CartInv
<1>4. InCarts' = InCarts
  BY InCartsStay DEF FindCart
<1>5. Step(r)
  BY DEF Step
<1>6. Calls' = Calls /\ Answers' = Answers
  BY <1>5, StepKeepsCall, CallsStay, StepListsNothing
<1>7. CASE c = 0 /\ req[r].op # "add"
  <2>1. req'[r].pc = "ok"
    <3>1. req[r].op = "get" \/ req[r].op = "empty"
      BY <1>2, <1>7
    <3> QED
      BY <1>1, <1>7, <3>1 DEF FindCart
  <2>2. r \notin Acked /\ Acked' = Acked \cup {r}
    <3>1. req[r].pc # "ok" /\ \A s \in Request \ {r} : req'[s].pc = req[s].pc
      BY <1>5, StepKeepsCall DEF FindCart
    <3> QED
      BY <2>1, <3>1, AckedGrows
  <2>3. InCarts[u] = Contents!NoItems
    BY <1>2, <1>3, <1>7, NoCart
  <2>4. CASE req[r].op = "empty"
    <3>1. InCarts' = [InCarts EXCEPT ![u] = Contents!NoItems]
      BY <1>4, <2>3 DEF InCarts
    <3>2. Calls[r].op = "empty" /\ Calls[r].user = u
      BY <2>4 DEF Calls
    <3>3. Contents!Clear(r)
      BY <1>6, <2>4, <3>1, <3>2 DEF Contents!Clear, InCarts, Calls, Answers
    <3> QED
      BY <1>6, <2>2, <3>3, ContentsAck
  <2>5. CASE req[r].op = "get"
    <3>1. Answers[r] = Contents!NoItems
      <4>1. \A p \in Product : Listed(r, p) = 0
        BY <1>2 DEF Listed, Nothing
      <4> QED
        BY <4>1 DEF Answers, Contents!NoItems
    <3>2. Answers' = [Answers EXCEPT ![r] = InCarts[u]]
      BY <1>6, <2>3, <3>1 DEF Answers
    <3>3. Contents!Read(r)
      BY <1>4, <2>5, <3>2 DEF Contents!Read, InCarts, Calls, Answers
    <3> QED
      BY <1>6, <2>2, <3>3, ContentsAck
  <2> QED
    BY <1>2, <1>7, <2>4, <2>5
<1>8. CASE ~(c = 0 /\ req[r].op # "add")
  <2>1. req'[r].pc # "ok"
    <3>1. CASE req[r].op = "add"
      BY <1>1, <3>1 DEF FindCart
    <3>2. CASE req[r].op = "get" /\ c # 0
      BY <1>1, <3>2 DEF FindCart
    <3>3. CASE req[r].op = "empty" /\ c # 0
      BY <1>1, <3>3 DEF FindCart
    <3> QED
      BY <1>2, <1>8, <3>1, <3>2, <3>3
  <2>2. \A s \in Request : req'[s].pc = "ok" <=> req[s].pc = "ok"
    BY <1>5, <2>1, StepKeepsCall DEF FindCart
  <2> QED
    BY <1>4, <1>6, <2>2, AckedStays, ContentsStutter
<1> QED
  BY <1>7, <1>8

(* The second half of FirstOrCreate, the lookup of a row and a failure     *)
(* change nothing a client sees.                                           *)
LEMMA QuietSteps ==
  ASSUME CartInv, CartInv', NEW r \in Request, CreateCart(r) \/ FindItem(r) \/ Fail(r)
  PROVE  UNCHANGED Contents!vars
<1>1. req \in [Request -> ReqRec]
  BY DEF CartInv, TypeOK
<1>2. Step(r)
  BY DEF Step
<1>3. Calls' = Calls /\ Answers' = Answers
  BY <1>2, StepKeepsCall, CallsStay, StepListsNothing
<1>4. Acked' = Acked
  <2>1. req[r].pc # "ok" /\ req'[r].pc # "ok"
    <3>1. CASE CreateCart(r)
      BY <1>1, <3>1 DEF CreateCart, ReqRec
    <3>2. CASE FindItem(r)
      BY <1>1, <3>2 DEF FindItem, ReqRec
    <3>3. CASE Fail(r)
      BY <1>1, <3>3 DEF Fail, Running, ReqRec
    <3> QED
      BY <3>1, <3>2, <3>3
  <2>2. \A s \in Request : req'[s].pc = "ok" <=> req[s].pc = "ok"
    BY <1>2, <2>1, StepKeepsCall
  <2> QED
    BY <2>2, AckedStays
<1>5. InCarts' = InCarts
  <2>1. CASE UNCHANGED <<carts, items>>
    BY <2>1, InCartsStay
  <2>2. CASE CreateCart(r)
    <3>1. req[r].user \in User
      BY <2>2 DEF CreateCart, CartInv, HandlersAreAsked
    <3>2. items' = items /\ \A c \in DOMAIN carts : carts'[c] = carts[c]
      BY <2>2, <3>1 DEF CreateCart, CartInv, TypeOK
    <3>3. \A u \in User, p \in Product : \A i : i \in Rows(u, p)' <=> i \in Rows(u, p)
      BY <3>2 DEF Rows, CartInv, TablesAreUnique, RowsHaveCarts
    <3>4. \A u \in User, p \in Product : Quantity(u, p)' = Quantity(u, p)
      BY <3>2, <3>3, SameRows
    <3> QED
      BY <3>4 DEF InCarts
  <2> QED
    BY <2>1, <2>2 DEF FindItem, Fail
<1> QED
  BY <1>3, <1>4, <1>5, ContentsStutter

(* AddItem's transaction is the moment the quantity is put. *)
LEMMA WriteItemActs ==
  ASSUME CartInv, CartInv', NEW r \in Request, WriteItem(r)
  PROVE  Contents!Next
<1>1. req \in [Request -> ReqRec]
  BY DEF CartInv, TypeOK
<1>2. PICK u \in User, p \in Product, q \in Qty, c \in DOMAIN carts :
        /\ req[r].op = "add" /\ u = req[r].user /\ p = req[r].product
        /\ q = req[r].qty /\ c = req[r].cart /\ carts[c] = u
  BY DEF WriteItem, CartInv, HandlersAreAsked, TablesAreUnique, AddsHoldTheirPlace, CartsOf
<1>3. PICK k \in Nat :
        /\ DOMAIN items' = DOMAIN items \cup {k}
        /\ \A i \in DOMAIN items : /\ items'[i].cart = items[i].cart
                                   /\ items'[i].product = items[i].product
                                   /\ i # k => items'[i] = items[i]
        /\ items'[k] = [cart |-> c, product |-> p, qty |-> q, live |-> TRUE]
        /\ RowsOf(c, p) \subseteq {k}
  BY <1>2, WritesOneRow
<1>4. items'[k].cart = c /\ items'[k].product = p /\ items'[k].qty = q /\ items'[k].live
  BY <1>3
<1>5. carts' = carts
  BY DEF WriteItem
<1>6. Quantity(u, p)' = q
  <2>1. k \in Rows(u, p)'
    BY <1>2, <1>3, <1>4, <1>5 DEF Rows
  <2>2. Quantity(u, p)' = items'[k].qty
    BY <1>2, <2>1, QuantityBecomes
  <2> QED
    BY <1>4, <2>2
<1>7. ASSUME NEW v \in User, NEW z \in Product, v # u \/ z # p
      PROVE  Quantity(v, z)' = Quantity(v, z)
  <2>1. k \in DOMAIN items => items[k].cart = c /\ items[k].product = p
    BY <1>3, <1>4
  <2>2. k \notin Rows(v, z) /\ k \notin Rows(v, z)'
    BY <1>2, <1>4, <1>5, <1>7, <2>1 DEF Rows
  <2>3. \A i : i \in Rows(v, z)' <=> i \in Rows(v, z)
    <3> SUFFICES ASSUME NEW i, i # k PROVE i \in Rows(v, z)' <=> i \in Rows(v, z)
      BY <2>2
    <3> QED
      BY <1>3, <1>5 DEF Rows
  <2>4. \A i \in Rows(v, z) : items'[i].qty = items[i].qty
    BY <1>3, <2>2 DEF Rows
  <2> QED
    BY <2>3, <2>4, SameRows
<1>8. InCarts' = [InCarts EXCEPT ![u][p] = q]
  BY <1>2, <1>6, <1>7, OneUser
<1>9. Calls' = Calls /\ Answers' = Answers
  BY StepKeepsCall, CallsStay, StepListsNothing DEF Step
<1>10. r \notin Acked /\ Acked' = Acked \cup {r}
  <2>1. req[r].pc # "ok" /\ req'[r].pc = "ok"
    BY <1>1 DEF WriteItem, ReqRec
  <2>2. \A s \in Request \ {r} : req'[s].pc = req[s].pc
    BY StepKeepsCall DEF Step
  <2> QED
    BY <2>1, <2>2, AckedGrows
<1>11. Contents!Put(r)
  <2>1. Calls[r].op = "add" /\ Calls[r].user = u /\ Calls[r].product = p /\ Calls[r].qty = q
    BY <1>2 DEF Calls
  <2> QED
    BY <1>8, <1>9, <2>1 DEF Contents!Put, InCarts, Calls, Answers
<1> QED
  BY <1>9, <1>10, <1>11, ContentsAck

(* EmptyCart's transaction is the moment the user's contents are cleared. *)
LEMMA DeleteItemsActs ==
  ASSUME CartInv, CartInv', NEW r \in Request, DeleteItems(r)
  PROVE  Contents!Next
<1>1. req \in [Request -> ReqRec] /\ items \in Seq(Item)
  BY DEF CartInv, TypeOK
<1>2. PICK u \in User, c \in DOMAIN carts :
        req[r].op = "empty" /\ u = req[r].user /\ c = req[r].cart /\ carts[c] = u
  BY DEF DeleteItems, CartInv, HandlersAreAsked, CartsOf
<1>3. /\ carts' = carts /\ DOMAIN items' = DOMAIN items
      /\ \A i \in DOMAIN items :
           items'[i] = IF items[i].cart = c THEN [items[i] EXCEPT !.live = FALSE] ELSE items[i]
  BY <1>2 DEF DeleteItems
<1>4. \A i \in DOMAIN items : /\ items[i].cart = c => ~items'[i].live
                              /\ items[i].cart # c => items'[i] = items[i]
                              /\ items'[i].cart = items[i].cart
  <2>1. \A i \in DOMAIN items : items[i] \in Item
    BY <1>1
  <2>2. \A y \in Item : ~[y EXCEPT !.live = FALSE].live /\ [y EXCEPT !.live = FALSE].cart = y.cart
    BY DEF Item
  <2> QED
    BY <1>3, <2>1, <2>2
<1>5. \A i \in DOMAIN items : carts[items[i].cart] = u <=> items[i].cart = c
  BY <1>2 DEF CartInv, TablesAreUnique, RowsHaveCarts, OneCart
<1>6. ASSUME NEW z \in Product
      PROVE  Quantity(u, z)' = 0
  <2>1. Rows(u, z)' = {}
    BY <1>3, <1>4, <1>5 DEF Rows
  <2> QED
    BY <1>2, <2>1, QuantityBecomes
<1>7. ASSUME NEW v \in User, NEW z \in Product, v # u
      PROVE  Quantity(v, z)' = Quantity(v, z)
  <2>1. \A i \in DOMAIN items : carts[items[i].cart] = v => items[i].cart # c
    BY <1>2, <1>7
  <2>2. \A i : i \in Rows(v, z)' <=> i \in Rows(v, z)
    BY <1>3, <1>4, <2>1 DEF Rows
  <2>3. \A i \in Rows(v, z) : items'[i].qty = items[i].qty
    BY <1>4, <2>1 DEF Rows
  <2> QED
    BY <2>2, <2>3, SameRows
<1>8. InCarts' = [InCarts EXCEPT ![u] = Contents!NoItems]
  BY <1>2, <1>6, <1>7, OneCleared
<1>9. Calls' = Calls /\ Answers' = Answers
  BY StepKeepsCall, CallsStay, StepListsNothing DEF Step
<1>10. r \notin Acked /\ Acked' = Acked \cup {r}
  <2>1. req[r].pc # "ok" /\ req'[r].pc = "ok"
    BY <1>1 DEF DeleteItems, ReqRec
  <2>2. \A s \in Request \ {r} : req'[s].pc = req[s].pc
    BY StepKeepsCall DEF Step
  <2> QED
    BY <2>1, <2>2, AckedGrows
<1>11. Contents!Clear(r)
  <2>1. Calls[r].op = "empty" /\ Calls[r].user = u
    BY <1>2 DEF Calls
  <2> QED
    BY <1>8, <1>9, <2>1 DEF Contents!Clear, InCarts, Calls, Answers
<1> QED
  BY <1>9, <1>10, <1>11, ContentsAck

(* GetCart's second statement is the moment the contents are read. *)
LEMMA ReadItemsActs ==
  ASSUME CartInv, NEW r \in Request, ReadItems(r)
  PROVE  Contents!Next
<1> DEFINE u == req[r].user
           c == req[r].cart
           l == [p \in Product |-> {<<i, items[i].qty>> : i \in RowsOf(c, p)}]
<1>1. req \in [Request -> ReqRec]
  BY DEF CartInv, TypeOK
<1>2. req[r].op = "get" /\ u \in User /\ c \in DOMAIN carts /\ carts[c] = u
  BY DEF ReadItems, CartInv, HandlersAreAsked, CartsOf
<1>3. req'[r].pc = "ok" /\ req'[r].reply = l /\ req[r].pc # "ok"
  BY <1>1 DEF ReadItems, ReqRec
<1>4. ASSUME NEW p \in Product
      PROVE  Listed(r, p)' = Quantity(u, p)
  <2>1. Listed(r, p)' = QuantityIn(l[p])
    BY <1>3, ListedBecomes
  <2>2. RowsOf(c, p) = Rows(u, p)
    BY <1>2 DEF RowsOf, Rows, CartInv, TablesAreUnique, RowsHaveCarts, OneCart
  <2>3. CASE RowsOf(c, p) = {}
    <3>1. l[p] = {}
      BY <2>3
    <3>2. Quantity(u, p) = 0
      BY <1>2, <2>2, <2>3, QuantityIs
    <3> QED
      BY <2>1, <3>1, <3>2 DEF QuantityIn
  <2>4. ASSUME NEW i \in RowsOf(c, p)
        PROVE  Listed(r, p)' = Quantity(u, p)
    <3>1. \A j \in RowsOf(c, p) : j = i
      BY <1>2 DEF CartInv, TablesAreUnique, OneRow
    <3>2. l[p] = {<<i, items[i].qty>>}
      BY <3>1
    <3>3. QuantityIn(l[p]) = items[i].qty
      BY <3>2, QuantityInOne
    <3>4. Quantity(u, p) = items[i].qty
      BY <1>2, <2>2, QuantityIs
    <3> QED
      BY <2>1, <3>3, <3>4
  <2> QED
    BY <2>3, <2>4
<1>5. ASSUME NEW s \in Request \ {r}, NEW p \in Product
      PROVE  Listed(s, p)' = Listed(s, p)
  <2>1. req'[s] = req[s]
    BY StepKeepsCall DEF Step
  <2> QED
    BY <2>1, ListedIs, ListedBecomes
<1>6. Answers' = [Answers EXCEPT ![r] = InCarts[u]]
  <2>1. \A s \in Request : Answers'[s] = IF s = r THEN InCarts[u] ELSE Answers[s]
    BY <1>2, <1>4, <1>5 DEF Answers, InCarts
  <2>2. Answers' = [s \in Request |-> Answers'[s]] /\ Answers = [s \in Request |-> Answers[s]]
    BY DEF Answers
  <2> QED
    BY <2>1, <2>2
<1>7. InCarts' = InCarts
  BY InCartsStay DEF ReadItems
<1>8. Calls' = Calls
  BY StepKeepsCall, CallsStay DEF Step
<1>9. r \notin Acked /\ Acked' = Acked \cup {r}
  <2>1. \A s \in Request \ {r} : req'[s].pc = req[s].pc
    BY StepKeepsCall DEF Step
  <2> QED
    BY <1>3, <2>1, AckedGrows
<1>10. Contents!Read(r)
  <2>1. Calls[r].op = "get" /\ Calls[r].user = u
    BY <1>2 DEF Calls
  <2> QED
    BY <1>6, <1>7, <2>1 DEF Contents!Read, InCarts, Calls, Answers
<1> QED
  BY <1>8, <1>9, <1>10, ContentsAck

(* Empty tables are empty contents. *)
LEMMA ContentsInit == Init => Contents!Init
<1> SUFFICES ASSUME Init PROVE Contents!Init
  OBVIOUS
<1>1. CartInv
  BY InitInv
<1>2. \A u \in User, p \in Product : Quantity(u, p) = 0
  <2>1. \A u \in User, p \in Product : Rows(u, p) = {}
    BY DEF Init, Rows
  <2> QED
    BY <1>1, <2>1, QuantityIs
<1>3. \A r \in Request, p \in Product : Listed(r, p) = 0
  BY DEF Init, Listed, Nothing
<1> QED
  BY <1>2, <1>3 DEF Init, Contents!Init, Contents!NoItems, Contents!NoCall

(* Every step is one of the contents', or changes nothing of them. *)
LEMMA ContentsStep ==
  ASSUME CartInv, CartInv', [Next]_vars
  PROVE  [Contents!Next]_(Contents!vars)
<1>1. CASE Next
  <2>1. PICK r \in Request :
          \/ \E u \in User, p \in Product, q \in 0..MaxQty : BeginAdd(r, u, p, q)
          \/ \E u \in User, op \in {"get", "empty"} : Begin(r, op, u)
          \/ Step(r)
    BY <1>1 DEF Next
  <2>2. CASE \E u \in User, p \in Product, q \in 0..MaxQty : BeginAdd(r, u, p, q)
    BY <2>2, BeginAddAsks
  <2>3. CASE \E u \in User, op \in {"get", "empty"} : Begin(r, op, u)
    BY <2>3, BeginAsks
  <2>4. CASE FindCart(r)
    BY <2>4, FindCartActs
  <2>5. CASE CreateCart(r) \/ FindItem(r) \/ Fail(r)
    BY <2>5, QuietSteps
  <2>6. CASE WriteItem(r)
    BY <2>6, WriteItemActs
  <2>7. CASE ReadItems(r)
    BY <2>7, ReadItemsActs
  <2>8. CASE DeleteItems(r)
    BY <2>8, DeleteItemsActs
  <2> QED
    BY <2>1, <2>2, <2>3, <2>4, <2>5, <2>6, <2>7, <2>8 DEF Step
<1>2. CASE UNCHANGED vars
  <2>1. InCarts' = InCarts /\ Calls' = Calls /\ Acked' = Acked
    BY <1>2, InCartsStay DEF vars, Calls, Acked
  <2>2. Answers' = Answers
    BY <1>2, AnswersStay DEF vars
  <2> QED
    BY <2>1, <2>2, ContentsStutter
<1> QED
  BY <1>1, <1>2

(* Every call that is answered without error took effect at one instant,   *)
(* on one quantity per user and product, although it looked its cart and   *)
(* row up before (cart_add.go:28-85, cart_get.go:20-57,                    *)
(* cart_empty.go:19-51).                                                   *)
THEOREM CartImplementsContents ==
  ASSUME SerialAdds
  PROVE  Spec => ImplementsContents
<1>1. Init => CartInv /\ Contents!Init
  BY InitInv, ContentsInit
<1>2. CartInv /\ [Next]_vars => CartInv'
  BY NextInv, StutterInv
<1>3. CartInv /\ CartInv' /\ [Next]_vars => [Contents!Next]_(Contents!vars)
  BY ContentsStep
<1> QED
  BY <1>1, <1>2, <1>3, PTL DEF Spec, ImplementsContents, Contents!Spec
=============================================================================
