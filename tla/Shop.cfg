\* A checkout and two calls of the cart service by clients, with faults.
SPECIFICATION ShopSpec
CONSTANTS
  u1 = u1
  u2 = u2
  p1 = p1
  p2 = p2
  c1 = c1
  o1 = o1
  t1 = t1
  r1 = r1
  r2 = r2
  None = None
  User <- TwoUsers
  Product <- TwoProducts
  Checkout <- OneCheckout
  OrderId <- OneOrder
  TxnId <- OneTxn
  GatewayMark = {}
  Request <- FourCalls
  MaxQty = 2
  MaxAmount = 4
  Amount <- SumOfItems
  Direct = {"EmptyCart"}
  SerialAdds = TRUE
  Faulty = TRUE
SYMMETRY Symmetry
CHECK_DEADLOCK FALSE
INVARIANT CartInv
INVARIANT RepliesAreAsked
PROPERTY ImplementsContents
PROPERTY ImplementsPurchase
