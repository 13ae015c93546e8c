SPECIFICATION FairSpec
PROPERTY NothingDeleted
CONSTANTS
  g1 = g1  g2 = g2  g3 = g3
  ip1 = ip1  ip2 = ip2  ip3 = ip3
  nat = nat
  None = None
  Gateway = {g1, g2}
  NumTables = 1
  Prefix = {"a", "b"}
  Address = {ip1, ip2, ip3}
  AddressOf <- MCAddressOf
  Foreign = {nat}
  Lists <- ListsApart
  DryRun = {}
  Edited = {}
  InitialTables <- EmptyTables
  MaxOperations = 2
  Disturbances = {}
  MaxDisturbances = 0
