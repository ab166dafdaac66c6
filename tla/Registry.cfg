\* Two lives of a service, of one replica or two, of each of the seven services.
SPECIFICATION LiveSpec
CONSTANTS
  p1 = p1
  p2 = p2
  None = None
  Process = {p1, p2}
  TTL = 3
INVARIANT TypeOK
INVARIANT RegistryInv
INVARIANT AddressAnswers
PROPERTY ImplementsAddressBook
PROPERTY UnkeptLeaves
CHECK_DEADLOCK FALSE
