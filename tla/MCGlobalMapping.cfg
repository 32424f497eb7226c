SPECIFICATION MapsSpec
CONSTANTS
  F = F
  G = G
  H = H
  X1 = X1
  X2 = X2
  X3 = X3
  Null = Null
  Absent = Absent
  None = None
  Globals = {F, G, H}
  Addrs = {X1, X2, X3}
  NullMappings = FALSE
  SharedAddresses = FALSE
INVARIANTS
  ReverseIsInverse
PROPERTIES
  ImplementsAddressBook
