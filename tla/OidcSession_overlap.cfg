\* Every overlap of restores, sign-ins, sign-outs and refreshes, and those the
\* controller allows, within one process.
SPECIFICATION FairSpec
CONSTANTS
  Restores = {r1, r2}
  Callers = {c1}
  MaxCalls = 3
  MaxVersion = 1
  MaxFaults = 3
  MaxRestarts = 0
  Controlled = {TRUE, FALSE}
  Corrupt = corrupt
  None = none
INVARIANT TypeOK
INVARIANT DeadStaysDead
INVARIANT TokensAreStored
INVARIANT NothingLeft
INVARIANT EvidenceIsOwn
PROPERTY EverythingEnds
CHECK_DEADLOCK FALSE
