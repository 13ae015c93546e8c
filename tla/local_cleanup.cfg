SPECIFICATION FairSpec
INVARIANT TypeOK
INVARIANT InstalledWhenSuccessful
PROPERTY ForeignNotDeleted
PROPERTY FixedNotDeleted
PROPERTY Converges
PROPERTY QuietOnceConverged
CONSTANTS
  gw1 = gw1  gw2 = gw2
  Prefix = {"a", "b", "c", "six"}
  Unlisted = {"six"}
  Hop = {gw1, gw2}
  Blackhole = Blackhole
  Default = Default
  Configurations <- Several
  InitialKernels <- AnyKernel
  None = None
  Disturbances = {"fault", "crash", "edit", "gateway"}
  MaxDisturbances = 2
