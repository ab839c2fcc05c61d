--------------------------- MODULE SessionAuthority ---------------------------
(***************************************************************************)
(* What the control plane promises about sessions and revocations, with no *)
(* transactions, locks or failures: a session row is issued, and a caller  *)
(* is told so, at an instant when its device and agent are not revoked;    *)
(* an id names one row for ever; a revocation is announced by the event    *)
(* that is recorded with it.  SessionIssuance implements this module.      *)
(***************************************************************************)
CONSTANTS Session,    \* the rows a session can have: records with id, device, agent
          SessionIds,
          Aggregates, \* devices and agents
          Calls,      \* the Start calls that can be told their session was started
          None

VARIABLES issued,     \* [SessionIds -> Session or None]
          revoked,    \* set of revoked aggregates
          announced,  \* set of aggregates whose revocation event is recorded
          granted     \* [Calls -> Session or None]: what each caller was told

vars == <<issued, revoked, announced, granted>>

Init ==
  /\ issued = [id \in SessionIds |-> None]
  /\ revoked = {}
  /\ announced = {}
  /\ granted = [c \in Calls |-> None]

Live(row) == row.device \notin revoked /\ row.agent \notin revoked

\* The row exists from now on; its caller may never hear of it.
Issue(row) ==
  /\ Live(row)
  /\ issued[row.id] = None
  /\ issued' = [issued EXCEPT ![row.id] = row]
  /\ UNCHANGED <<revoked, announced, granted>>

\* The caller is told of the row, which this step issues unless it exists.
Grant(c, row) ==
  /\ Live(row)
  /\ issued[row.id] \in {None, row}
  /\ issued' = [issued EXCEPT ![row.id] = row]
  /\ granted' = [granted EXCEPT ![c] = row]
  /\ UNCHANGED <<revoked, announced>>

Revoke(a) ==
  /\ a \notin revoked
  /\ revoked' = revoked \cup {a}
  /\ announced' = announced \cup {a}
  /\ UNCHANGED <<issued, granted>>

Next ==
  \/ \E row \in Session : Issue(row)
  \/ \E c \in Calls, row \in Session : Grant(c, row)
  \/ \E a \in Aggregates : Revoke(a)

Spec == Init /\ [][Next]_vars
===============================================================================
