\* Two workers over one row of each kind, with a fault.
SPECIFICATION FairSpec
CONSTANTS
  later = later
  tired = tired
  bad = bad
  None = None
  Never = Never
  AvailableAt <- MCAvailableAt
  Attempted <- MCAttempted
  Events = {later, tired, bad}
  Malformed = {}
  Workers = {w1, w2}
  MaxAttempts = 2
  IntegerMax = 3
  MaxFaults = 1
  Horizon = 0
INVARIANTS
  TypeOK
  DeliveriesBounded
  OverlapOnlyAfterLoss
  OutcomesAreTrue
PROPERTIES
  ConclusionsAreFinal
  ImplementsDelivery
  EveryEventEnds
