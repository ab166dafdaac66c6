\* The login path: four requests of two addresses with one email or none:
\* more than an address's bursts before and after a cleanup, and than an email's burst.
SPECIFICATION Spec
CONSTANTS
  a1 = a1
  a2 = a2
  e1 = e1
  r1 = r1
  r2 = r2
  r3 = r3
  r4 = r4
  None = None
  Ip <- TwoIps
  Email <- OneEmail
  Request <- FourRequests
  IpBurst = 1
  UserBurst = 2
  IpRate = 1
  UserRate = 1
  MaxTicks = 1
  MaxCleanups = 1
SYMMETRY Symmetry
INVARIANT TypeOK
INVARIANT RateInv
INVARIANT LoginsBounded
INVARIANT AddressBounded
PROPERTY ImplementsBuckets
CHECK_DEADLOCK FALSE
