SPECIFICATION ServiceFairSpec
INVARIANT TypeOK
INVARIANT ServiceTypeOK
INVARIANT NoRefreshForgotten
INVARIANT FailureReported
INVARIANT ChangesAnnounced
INVARIANT CloudAsTold
INVARIANT NoFalseSuccess
PROPERTY RefreshHonoured
PROPERTY RefreshPostponesSchedule
PROPERTY ShutdownEventually
PROPERTY StartsEventually
CHECK_DEADLOCK FALSE
CONSTANT Configurations <- AllConfigurations
CONSTANT Setups <- MCSetups
CONSTANT MaxDisturbances = 2
