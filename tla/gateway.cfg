SPECIFICATION FairSpec
INVARIANT TypeOK
INVARIANT HealthyApplied
PROPERTY NothingLostSilently
INVARIANT TokenOutlivesRequest
INVARIANT BatchBounded
INVARIANT EveryCommandStarts
PROPERTY ImplementsLoop
PROPERTY AppliedWasOffered
PROPERTY OfferedRouted
CHECK_DEADLOCK FALSE
CONSTANT p1 = p1
CONSTANT p2 = p2
CONSTANT Prefix <- MCPrefix
CONSTANT OriginLists <- MCOriginLists
CONSTANT Publications <- MCPublications
CONSTANT ActionTimeouts = {0, 2}
CONSTANT Minute = 2
CONSTANT NumSuccess = 0
CONSTANT NumFailed = 2
CONSTANT OrphanTime = 1
CONSTANT HttpTimeout = 1
CONSTANT Margin = 2
CONSTANT Hour = 4
CONSTANT Lifetimes = {2, 3}
CONSTANT PassTimeout = 2
CONSTANT MaxDisturbances = 2
