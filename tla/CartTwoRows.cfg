\* AddItems of a product at once, for a cart that exists.
SPECIFICATION Spec
CONSTANTS
  u1 = u1
  p1 = p1
  r1 = r1
  r2 = r2
  r3 = r3
  None = None
  User <- OneUser
  Product <- OneProduct
  Request <- ThreeRequests
  MaxQty = 1
  SerialAdds = FALSE
  Faulty = FALSE
CHECK_DEADLOCK FALSE
INVARIANT OneRowPerProduct
