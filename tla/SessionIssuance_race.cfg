SPECIFICATION FairSpec
CONSTANTS
  u1 = u1
  u2 = u2
  d1 = d1
  d2 = d2
  d3 = d3
  a1 = a1
  a2 = a2
  p1 = p1
  p2 = p2
  id1 = id1
  id2 = id2
  None = None
  Owner <- MCOwner
  CreatedAt <- MCCreatedAt
  ProjectAgent <- MCProjectAgent
  Users = {u1}
  Devices = {d1}
  Agents = {a1}
  Projects = {p1}
  SessionIds = {id1, id2}
  Regions = {eu}
  Requests <- RaceRequests
  Revocations <- RaceRevocations
  Times = {1}
  Starts = {s1, s2}
  Revokes = {r1, r2}
INVARIANTS
  OneEventPerRevocation
PROPERTIES
  IssuedOnlyWhileLive
  ImplementsAuthority
  EveryCallEnds
