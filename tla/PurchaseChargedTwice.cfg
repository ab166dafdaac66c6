\* Two charges of one order, by clients.
SPECIFICATION Spec
CONSTANTS
  u1 = u1
  u2 = u2
  c1 = c1
  c2 = c2
  o1 = o1
  o2 = o2
  t1 = t1
  t2 = t2
  g1 = g1
  None = None
  User <- OneUser
  Checkout <- OneCheckout
  OrderId <- OneOrder
  TxnId <- TwoTxns
  GatewayMark = {}
  MaxQty = 1
  Direct = {"PlaceOrder", "Charge"}
  Faulty = FALSE
INVARIANT OneChargeSucceeds
