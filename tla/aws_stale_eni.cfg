SPECIFICATION Spec
INVARIANT RoutedWhenSuccessful
CONSTANTS
  g1 = g1  g2 = g2
  a1 = a1  a2 = a2  b1 = b1
  eniA1 = eniA1  eniA2 = eniA2  eniB = eniB
  nat = nat
  None = None
  Gateway = {g1}
  NumTables = 1
  NumPrefixes = 2
  Addr <- MCAddr
  AddrsOf <- TwoAddresses
  Eni <- MCEni
  EniOf <- MCEniOf
  Foreign = {nat}
  Lists <- ListsFixed
  DryRun = {}
  Edited = {}
  InitialTables <- FirstTableAny
  Disturbances = {"readdress"}
  MaxDisturbances = 1
