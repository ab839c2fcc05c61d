\* Two verifications at a time, over two refresh intervals and a rotation.
SPECIFICATION FairSpec
CONSTANTS
  Requests = {r1, r2}
  Refresh = 2
  Deadline = 1
  MaxClock = 4
  MaxRotations = 1
  None = none
PROPERTY KeysAreFresh
PROPERTY TrafficIsBounded
PROPERTY FetchEnds
CHECK_DEADLOCK FALSE
