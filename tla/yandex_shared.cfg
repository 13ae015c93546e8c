SPECIFICATION FairSpec
INVARIANTS TypeOK NoSuccessForRejectedUpdate
PROPERTIES UnmanagedUntouched Converges
CONSTANTS
  g1 = g1  g2 = g2  g3 = g3
  ip1 = ip1  ip2 = ip2  ip3 = ip3
  nat = nat
  None = None
  Gateway = {g1, g2}
  NumTables = 1
  Prefix = {"a", "b", "x"}
  Address = {ip1, ip2, ip3}
  AddressOf <- MCAddressOf
  Foreign = {nat}
  Lists <- ListsApart
  DryRun = {}
  Edited = {"a"}
  InitialTables <- FirstTableAny
  MaxOperations = 3
  Disturbances = {"fault", "expire", "reject", "crash", "edit"}
  MaxDisturbances = 3
