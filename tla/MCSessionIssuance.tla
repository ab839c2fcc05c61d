--------------------------- MODULE MCSessionIssuance ---------------------------
(* Small instance of SessionIssuance.  One id is asked for by its owner, by   *)
(* the same owner with another device, and by a stranger with rows of his     *)
(* own; a second id shares the first one's device and agent.                  *)
EXTENDS SessionIssuance, TLC

CONSTANTS u1, u2, d1, d2, d3, a1, a2, p1, p2, id1, id2

MCOwner == [x \in (Aggregates \cup Projects) \cap {d1, d2, a1, p1} |-> u1]
           @@ [x \in (Aggregates \cup Projects) \ {d1, d2, a1, p1} |-> u2]

\* d2 and p2 were created at 2: an instance whose clock reads 1 must refuse them.
MCCreatedAt == [x \in Aggregates \cup Projects |-> IF x \in {d2, p2} THEN 2 ELSE 1]
MCProjectAgent == [p \in Projects |-> IF p = p1 THEN a1 ELSE a2]

Ask(owner, id, device, agent, project) ==
  [owner |-> owner, id |-> id, device |-> device, agent |-> agent, project |-> project]

OwnRequest == Ask(u1, id1, d1, a1, p1)
OtherDevice == Ask(u1, id1, d2, a1, p1)
Stranger == Ask(u2, id1, d3, a2, p2)
SecondId == Ask(u1, id2, d1, a1, p1)
ForeignProject == Ask(u1, id1, d1, a1, p2)
RevokeDevice == [actor |-> u1, aggregate |-> d1]
RevokeAgent == [actor |-> u1, aggregate |-> a1]
RevokeNew == [actor |-> u1, aggregate |-> d2]
RevokeForeign == [actor |-> u2, aggregate |-> d1]

\* Retries of one request against reuse of its id and requests for foreign rows.
RetryRequests == {OwnRequest, OtherDevice, Stranger, ForeignProject}
RetryRevocations == {RevokeNew, RevokeForeign}

\* Starts that share a device and an agent against the revocation of either.
RaceRequests == {OwnRequest, SecondId}
RaceRevocations == {RevokeDevice, RevokeAgent}

\* Calls of one kind are interchangeable.
CallSymmetry == Permutations(Starts) \cup Permutations(Revokes)
===============================================================================
