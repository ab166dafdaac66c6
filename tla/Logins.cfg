\* Two logins of two users, auth that may hang, a cache that may fail.
SPECIFICATION LiveSpec
CONSTANTS
  u1 = u1
  u2 = u2
  l1 = l1
  l2 = l2
  None = None
  User = {u1, u2}
  Login = {l1, l2}
  CallTime = 1
  CacheLife = 3
  TokenLife = 5
  MaxClock = 5
INVARIANT TypeOK
INVARIANT SessionInv
INVARIANT TokensLast
PROPERTY ImplementsDesk
PROPERTY LoginAnswered
CHECK_DEADLOCK FALSE
