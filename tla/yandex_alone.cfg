SPECIFICATION Spec
INVARIANT RoutedWhenSuccessful
PROPERTY ImplementsPromise
CONSTANTS
  g1 = g1  g2 = g2  g3 = g3
  ip1 = ip1  ip2 = ip2  ip3 = ip3
  nat = nat
  None = None
  Gateway = {g1, g2}
  NumTables = 2
  Prefix = {"a", "b", "x"}
  Address = {ip1, ip2, ip3}
  AddressOf <- MCAddressOf
  Foreign = {nat}
  Lists <- ListsAlone
  DryRun = {g2}
  Edited = {}
  InitialTables <- FirstTableAny
  MaxOperations = 3
  Disturbances = {"fault", "expire", "reject", "crash"}
  MaxDisturbances = 3
