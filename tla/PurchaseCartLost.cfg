\* A PlaceOrder that fails after its EmptyCart was served.
SPECIFICATION Spec
CONSTANTS
  u1 = u1
  u2 = u2
  c1 = c1
  c2 = c2
  o1 = o1
  o2 = o2
  t1 = t1
  t2 = t2
  g1 = g1
  None = None
  User <- OneUser
  Checkout <- OneCheckout
  OrderId <- TwoOrders
  TxnId <- OneTxn
  GatewayMark = {}
  MaxQty = 1
  Direct = {}
  Faulty = TRUE
INVARIANT FailedOrderLeavesCart
