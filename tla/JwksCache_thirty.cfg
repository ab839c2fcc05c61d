\* One verification after another; a tick is 5/3 s, so that the interval is 30 s
\* and the deadline 5 s.
SPECIFICATION Spec
CONSTANTS
  Requests = {r1}
  Refresh = 18
  Deadline = 3
  MaxClock = 20
  MaxRotations = 1
  None = none
PROPERTY KeysWithinRefresh
CHECK_DEADLOCK FALSE
