\* One checkout of services that may hang, among clients that charge and mark orders themselves.
SPECIFICATION AnswerSpec
CONSTANTS
  u1 = u1
  u2 = u2
  c1 = c1
  c2 = c2
  o1 = o1
  o2 = o2
  t1 = t1
  t2 = t2
  g1 = g1
  None = None
  User <- OneUser
  Checkout <- OneCheckout
  OrderId <- OneOrder
  TxnId <- TwoTxns
  GatewayMark = {g1}
  MaxQty = 1
  Direct = {"Charge", "MarkOrderPaid"}
  Faulty = TRUE
INVARIANT SuccessMeansPaid
INVARIANT ChargedIsPaid
PROPERTY OrdersOnlyAdvance
INVARIANT IndInv
PROPERTY ImplementsLedger
PROPERTY EveryCheckoutAnswered
