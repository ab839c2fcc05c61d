\* The app is killed and relaunched after a cleanup that failed.
SPECIFICATION RelaunchSpec
CONSTANTS
  Restores = {r1, r2}
  Callers = {c1}
  MaxCalls = 3
  MaxVersion = 1
  MaxFaults = 3
  MaxRestarts = 1
  Controlled = {TRUE}
  Corrupt = corrupt
  None = none
INVARIANT RestoreRetriesCleanup
CHECK_DEADLOCK FALSE
