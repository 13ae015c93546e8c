SPECIFICATION FairSpec
PROPERTY ConfiguredNotDeleted
CONSTANTS
  gw1 = gw1  gw2 = gw2
  Prefix = {"a", "b", "c"}
  Unlisted = {}
  Hop = {gw1, gw2}
  Blackhole = Blackhole
  Default = Default
  Configurations <- Cleanup
  InitialKernels <- AnyKernel
  None = None
  Disturbances = {"gateway"}
  MaxDisturbances = 1
