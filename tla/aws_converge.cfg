SPECIFICATION FairSpec
PROPERTIES ImplementsPromise Converges QuietOnceConverged
INVARIANT RoutedWhenSuccessful
CONSTANTS
  g1 = g1  g2 = g2
  a1 = a1  a2 = a2  b1 = b1
  eniA1 = eniA1  eniA2 = eniA2  eniB = eniB
  nat = nat
  None = None
  Gateway = {g1, g2}
  NumTables = 2
  NumPrefixes = 2
  Addr <- MCAddr
  AddrsOf <- OneAddress
  Eni <- MCEni
  EniOf <- MCEniOf
  Foreign = {nat}
  Lists <- ListsFixed
  DryRun = {g2}
  Edited = {2}
  InitialTables <- FirstTableAny
  Disturbances = {"fault", "expire", "crash", "edit", "blackhole"}
  MaxDisturbances = 2
