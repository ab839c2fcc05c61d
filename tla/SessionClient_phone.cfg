\* Two screens, each of which can be left or closed under a running call, and three
\* starts and retries in all.
SPECIFICATION FairSpec
CONSTANTS
  MaxScreens = 2
  Ids = {s1, s2}
  MaxTries = 3
  Device = device
  Agent = agent
  None = none
INVARIANT TypeOK
INVARIANT FailureIsDefinite
INVARIANT MetadataIsReal
PROPERTY NothingOutlivesItsCall
PROPERTY EveryStartEnds
CHECK_DEADLOCK FALSE
