\* Three calls for two emails at two replicas, with faults.
SPECIFICATION Spec
CONSTANTS
  p1 = p1
  p2 = p2
  r1 = r1
  r2 = r2
  r3 = r3
  e1 = e1
  e2 = e2
  None = None
  Replica <- TwoReplicas
  Request <- ThreeRequests
  Email <- TwoEmails
  MaxRetries = 2
  MaxId = 2
  MaxTopic = 2
  Faulty = TRUE
SYMMETRY Symmetry
INVARIANT TypeOK
INVARIANT RegInv
INVARIANT EventsAreTrue
PROPERTY ImplementsAccounts
CHECK_DEADLOCK FALSE
