\* One screen: the shortest way to two sessions.
SPECIFICATION Spec
CONSTANTS
  MaxScreens = 1
  Ids = {s1, s2}
  MaxTries = 3
  Device = device
  Agent = agent
  None = none
INVARIANT NoSecondSession
CHECK_DEADLOCK FALSE
