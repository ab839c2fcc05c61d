------------------------- MODULE SessionIssuanceProofs -------------------------
(***************************************************************************)
(* Theorems about SessionIssuance, for every set of users, devices, calls  *)
(* and instants.  IInv is the inductive invariant; its parts say what the  *)
(* row locks, the unique key and the position of each call mean.           *)
(***************************************************************************)
EXTENDS SessionIssuance, TLAPS

PastDevice == {"agent", "project", "insert", "read", "commit", "inDoubt"}
PastAgent == PastDevice \ {"agent"}
PastInsert == {"read", "commit", "inDoubt"}
Ending == {"commit", "inDoubt"}
PastLock == {"update", "enqueue"} \cup Ending

\* A call that has begun knows what it was asked.
KindInv ==
  /\ \A s \in Starts : /\ pc[s] \in {"idle", "inDoubt", "done"} \cup StartSteps
                       /\ pc[s] # "idle" => row[s] \in Session
  /\ \A r \in Revokes : /\ pc[r] \in {"idle", "inDoubt", "done"} \cup RevokeSteps
                        /\ pc[r] # "idle" => intent[r] \in Intent

\* A row lock is held by whoever passed its statement, in compatible modes, and
\* a shared lock keeps the row from being revoked.
LockInv ==
  /\ \A s \in Starts :
       /\ pc[s] \in PastDevice => s \in shared[row[s].device]
       /\ pc[s] \in PastAgent => s \in shared[row[s].agent]
  /\ \A r \in Revokes : pc[r] \in PastLock => r \in exclusive[intent[r].aggregate]
  /\ \A a \in Aggregates :
       /\ shared[a] # {} => exclusive[a] = {} /\ revokedAt[a] = None
       /\ \A r1, r2 \in exclusive[a] : r1 = r2

\* The private writes of an open revocation, and what it saw of the row.
RevokeInv ==
  /\ \A r \in marked : pc[r] \in {"enqueue"} \cup Ending
  /\ queued \subseteq marked
  /\ \A r \in Revokes :
       LET a == intent[r].aggregate IN
       /\ pc[r] = "update" => revokedAt[a] = None /\ r \notin marked
       /\ pc[r] = "enqueue" => r \in marked /\ r \notin queued
       /\ r \in marked => revokedAt[a] = None
       /\ pc[r] \in Ending => r \in queued \/ (r \notin marked /\ revokedAt[a] # None)
       /\ answer[r] = "ok" => pc[r] = "done" /\ revokedAt[a] # None

\* The private row of an open Start owns its key, and what was read back stays
\* what the commit will leave in the table.
InsertInv ==
  /\ \A id \in SessionIds : sessions[id] # None => sessions[id].id = id
  /\ \A s \in Starts :
       /\ inserted[s] # None => /\ pc[s] \in PastInsert
                                /\ inserted[s] = row[s]
                                /\ sessions[row[s].id] = None
       /\ pc[s] \in PastInsert => Stored(s) # None
       /\ pc[s] \in Ending => found[s] = Stored(s) /\ SameSession(found[s], row[s])
       /\ answer[s] = "ok" => /\ pc[s] = "done"
                              /\ found[s] # None
                              /\ sessions[row[s].id] = found[s]
                              /\ SameSession(found[s], row[s])
  /\ \A s, t \in Starts :
       inserted[s] # None /\ inserted[t] # None /\ inserted[s].id = inserted[t].id => s = t

IInv == TypeOK /\ KindInv /\ LockInv /\ RevokeInv /\ InsertInv /\ OneEventPerRevocation

-----------------------------------------------------------------------------
(* Typing *)

\* The steps of Next one by one, with the quantifiers and shared forms opened.
LEMMA NextCases ==
  ASSUME Next
  PROVE  \/ \E s \in Starts : \/ StartBegin(s) \/ AuthorizeDevice(s) \/ AuthorizeAgent(s)
                              \/ AuthorizeProject(s) \/ InsertSession(s) \/ ReadSession(s)
         \/ \E r \in Revokes : \/ RevokeBegin(r) \/ LockAggregate(r)
                               \/ MarkRevoked(r) \/ EnqueueEvent(r)
         \/ \E c \in Calls : \/ Commit(c) \/ LoseCommit(c) \/ SettleCommitted(c)
                             \/ SettleAborted(c) \/ Fail(c)
         \/ UNCHANGED vars
  BY DEF Next, StartStep, RevokeStep, EndStep, Finished

\* Initially every variable has its type and no call has begun.
LEMMA InitTyped == Init => TypeOK /\ KindInv
  BY ConstantsAssumption DEF Init, TypeOK, KindInv, Calls

\* The end of a transaction keeps the types of what it touches.
LEMMA EndTyped ==
  ASSUME TypeOK, NEW c \in Calls, EndTransaction(c)
  PROVE  /\ shared' \in [Aggregates -> SUBSET Starts]
         /\ exclusive' \in [Aggregates -> SUBSET Revokes]
         /\ inserted' \in [Starts -> Session \cup {None}]
         /\ marked' \subseteq Revokes
         /\ queued' \subseteq Revokes
  BY DEF TypeOK, EndTransaction

\* An early return keeps the types.
LEMMA ReturnTyped ==
  ASSUME TypeOK, KindInv, NEW c \in Calls,
         NEW verdict \in {"denied", "invalid", "unavailable"},
         Return(c, verdict), pc[c] # "idle"
  PROVE  TypeOK' /\ KindInv'
  <1>1. EndTransaction(c) /\ UNCHANGED <<tables, asked>>
    BY DEF Return
  <1>2. pc' \in [Calls -> {"idle", "inDoubt", "done"} \cup StartSteps \cup RevokeSteps]
    BY DEF Return, TypeOK
  <1>3. answer' \in [Calls -> {"none", "ok", "denied", "invalid", "unavailable", "unknown"}]
    BY DEF Return, TypeOK
  <1>4. TypeOK'
    BY <1>1, <1>2, <1>3, EndTyped DEF TypeOK, tables, asked
  <1>5. \A d \in Calls : pc'[d] = pc[d] \/ (d = c /\ pc'[d] = "done")
    BY DEF Return, TypeOK
  <1>6. KindInv'
    BY <1>1, <1>5 DEF KindInv, tables, asked, Calls
  <1>7. QED
    BY <1>4, <1>6

\* What a commit publishes is a session row, an instant and an event.
LEMMA PublishTyped ==
  ASSUME TypeOK, KindInv, NEW c \in Calls, pc[c] # "idle", Publish(c)
  PROVE  /\ revokedAt' \in [Aggregates -> Times \cup {None}]
         /\ sessions' \in [SessionIds -> Session \cup {None}]
         /\ events' \subseteq Event
  <1>1. sessions' \in [SessionIds -> Session \cup {None}]
    BY DEF TypeOK, Publish
  <1>2. c \in Revokes => intent[c] \in Intent
    BY DEF KindInv
  <1>3. revokedAt' \in [Aggregates -> Times \cup {None}]
    BY <1>2 DEF TypeOK, Publish, Intent
  <1>4. events' \subseteq Event
    BY <1>2 DEF TypeOK, Publish, Intent, Event, EventOf
  <1>5. QED
    BY <1>1, <1>3, <1>4

\* Every step keeps TypeOK and KindInv.
LEMMA StepTyped == TypeOK /\ KindInv /\ [Next]_vars => TypeOK' /\ KindInv'
  <1> SUFFICES ASSUME TypeOK, KindInv, [Next]_vars
               PROVE  TypeOK' /\ KindInv'
    OBVIOUS
  <1> USE DEF tables, locks, writes, asked, Advance
  <1>1. ASSUME NEW s \in Starts, StartBegin(s) PROVE TypeOK' /\ KindInv'
    <2>1. PICK q \in Requests, region \in Regions, startedAt \in Times :
            row' = [row EXCEPT ![s] =
                 [owner |-> q.owner, id |-> q.id, device |-> q.device, agent |-> q.agent,
                  project |-> q.project, region |-> region, startedAt |-> startedAt]]
      BY <1>1 DEF StartBegin
    <2>2. q \in Request
      BY ConstantsAssumption
    <2>3. [owner |-> q.owner, id |-> q.id, device |-> q.device, agent |-> q.agent,
           project |-> q.project, region |-> region, startedAt |-> startedAt] \in Session
      BY <2>2 DEF Request, Session
    <2>4. row' \in [Starts -> Session \cup {None}] /\ row'[s] \in Session
      BY <2>1, <2>3 DEF TypeOK
    <2>5. QED
      BY <1>1, <2>1, <2>4, ConstantsAssumption DEF StartBegin, TypeOK, KindInv, Calls, StartSteps
  <1>2. ASSUME NEW s \in Starts, NEW a \in Aggregates, NEW from \in StartSteps, NEW to \in StartSteps,
               Authorize(s, a, from, to)
        PROVE  TypeOK' /\ KindInv'
    <2>1. CASE Return(s, "denied")
      BY <1>2, <2>1, ReturnTyped DEF Authorize, Calls, StartSteps
    <2>2. CASE ~Return(s, "denied")
      <3>1. /\ shared' = [shared EXCEPT ![a] = @ \cup {s}]
            /\ pc' = [pc EXCEPT ![s] = to]
            /\ pc[s] = from
            /\ UNCHANGED <<tables, exclusive, writes, asked, answer>>
        BY <1>2, <2>2 DEF Authorize
      <3>2. TypeOK'
        BY <3>1 DEF TypeOK, Calls
      <3>3. KindInv'
        BY <3>1, ConstantsAssumption DEF TypeOK, KindInv, Calls, StartSteps
      <3>4. QED
        BY <3>2, <3>3
    <2>3. QED
      BY <2>1, <2>2
  <1>3. ASSUME NEW s \in Starts, AuthorizeDevice(s) PROVE TypeOK' /\ KindInv'
    <2>1. row[s].device \in Aggregates
      BY <1>3 DEF AuthorizeDevice, Authorize, KindInv, Session, Aggregates
    <2>2. QED
      BY <1>2, <1>3, <2>1 DEF AuthorizeDevice, StartSteps
  <1>4. ASSUME NEW s \in Starts, AuthorizeAgent(s) PROVE TypeOK' /\ KindInv'
    <2>1. row[s].agent \in Aggregates
      BY <1>4 DEF AuthorizeAgent, Authorize, KindInv, Session, Aggregates
    <2>2. QED
      BY <1>2, <1>4, <2>1 DEF AuthorizeAgent, StartSteps
  <1>5. ASSUME NEW s \in Starts, AuthorizeProject(s) PROVE TypeOK' /\ KindInv'
    <2>1. CASE Return(s, "denied")
      BY <1>5, <2>1, ReturnTyped DEF AuthorizeProject, Calls
    <2>2. CASE ~Return(s, "denied")
      BY <1>5, <2>2, ConstantsAssumption DEF AuthorizeProject, TypeOK, KindInv, Calls, StartSteps
    <2>3. QED
      BY <2>1, <2>2
  <1>6. ASSUME NEW s \in Starts, InsertSession(s) PROVE TypeOK' /\ KindInv'
    BY <1>6, ConstantsAssumption DEF InsertSession, TypeOK, KindInv, Calls, StartSteps
  <1>7. ASSUME NEW s \in Starts, ReadSession(s) PROVE TypeOK' /\ KindInv'
    <2>1. CASE Return(s, "denied")
      BY <1>7, <2>1, ReturnTyped DEF ReadSession, Calls
    <2>2. CASE ~Return(s, "denied")
      <3>1. Stored(s) \in Session \cup {None}
        BY <1>7 DEF ReadSession, Stored, TypeOK, KindInv, Session
      <3>2. QED
        BY <1>7, <2>2, <3>1, ConstantsAssumption DEF ReadSession, TypeOK, KindInv, Calls, StartSteps
    <2>3. QED
      BY <2>1, <2>2
  <1>8. ASSUME NEW r \in Revokes, RevokeBegin(r) PROVE TypeOK' /\ KindInv'
    <2>1. PICK v \in Revocations, revokedNow \in Times :
            intent' = [intent EXCEPT ![r] =
                    [actor |-> v.actor, aggregate |-> v.aggregate, at |-> revokedNow]]
      BY <1>8 DEF RevokeBegin
    <2>2. [actor |-> v.actor, aggregate |-> v.aggregate, at |-> revokedNow] \in Intent
      BY ConstantsAssumption DEF Revocation, Intent
    <2>3. intent' \in [Revokes -> Intent \cup {None}] /\ intent'[r] \in Intent
      BY <2>1, <2>2 DEF TypeOK
    <2>4. QED
      BY <1>8, <2>1, <2>3, ConstantsAssumption DEF RevokeBegin, TypeOK, KindInv, Calls, RevokeSteps
  <1>9. ASSUME NEW r \in Revokes, LockAggregate(r) PROVE TypeOK' /\ KindInv'
    <2>1. CASE Return(r, "denied") \/ Return(r, "invalid")
      BY <1>9, <2>1, ReturnTyped DEF LockAggregate, Calls
    <2>2. CASE ~(Return(r, "denied") \/ Return(r, "invalid"))
      <3>1. intent[r].aggregate \in Aggregates
        BY <1>9 DEF LockAggregate, KindInv, Intent
      <3>2. QED
        BY <1>9, <2>2, <3>1, ConstantsAssumption DEF LockAggregate, TypeOK, KindInv, Calls, RevokeSteps
    <2>3. QED
      BY <2>1, <2>2
  <1>10. ASSUME NEW r \in Revokes, MarkRevoked(r) \/ EnqueueEvent(r) PROVE TypeOK' /\ KindInv'
    BY <1>10, ConstantsAssumption DEF MarkRevoked, EnqueueEvent, TypeOK, KindInv, Calls, RevokeSteps
  <1>11. ASSUME NEW c \in Calls, Commit(c) \/ SettleCommitted(c) PROVE TypeOK' /\ KindInv'
    <2>1. pc[c] # "idle" /\ Publish(c) /\ EndTransaction(c)
      BY <1>11 DEF Commit, SettleCommitted
    <2>2. /\ pc' = [pc EXCEPT ![c] = "done"]
          /\ answer' = [answer EXCEPT ![c] = "ok"] \/ UNCHANGED answer
          /\ UNCHANGED asked
      BY <1>11 DEF Commit, SettleCommitted
    <2>3. TypeOK'
      BY <2>1, <2>2, EndTyped, PublishTyped DEF TypeOK
    <2>4. KindInv'
      BY <2>1, <2>2 DEF TypeOK, KindInv, Calls
    <2>5. QED
      BY <2>3, <2>4
  <1>12. ASSUME NEW c \in Calls, SettleAborted(c) PROVE TypeOK' /\ KindInv'
    BY <1>12, EndTyped DEF SettleAborted, TypeOK, KindInv
  <1>13. ASSUME NEW c \in Calls, LoseCommit(c) PROVE TypeOK' /\ KindInv'
    BY <1>13 DEF LoseCommit, TypeOK, KindInv
  <1>14. ASSUME NEW c \in Calls, Fail(c) PROVE TypeOK' /\ KindInv'
    BY <1>14, ReturnTyped DEF Fail, Working, Open
  <1>15. CASE UNCHANGED vars
    BY <1>15 DEF vars, TypeOK, KindInv
  <1>16. QED
    BY <1>1, <1>3, <1>4, <1>5, <1>6, <1>7, <1>8, <1>9, <1>10, <1>11, <1>12, <1>13, <1>14, <1>15,
       NextCases

\* Every variable of the model always has its type.
THEOREM TypeCorrect == Spec => []TypeOK
  <1>1. TypeOK /\ KindInv /\ [Next]_vars => (TypeOK /\ KindInv)'
    BY StepTyped
  <1>2. QED
    BY InitTyped, <1>1, PTL DEF Spec

-----------------------------------------------------------------------------
(* The inductive invariant *)

\* Initially there are no locks, writes, rows or events.
LEMMA InitIInv == Init => IInv
  <1> SUFFICES ASSUME Init PROVE IInv
    OBVIOUS
  <1>1. TypeOK /\ KindInv
    BY InitTyped
  <1>2. LockInv
    BY ConstantsAssumption DEF Init, LockInv, PastDevice, PastAgent, PastLock, Ending, Calls
  <1>3. RevokeInv
    BY ConstantsAssumption DEF Init, RevokeInv, Ending, Calls
  <1>4. InsertInv
    BY ConstantsAssumption DEF Init, InsertInv, PastInsert, Ending, Calls
  <1>5. OneEventPerRevocation
    BY DEF Init, OneEventPerRevocation
  <1>6. QED
    BY <1>1, <1>2, <1>3, <1>4, <1>5 DEF IInv

\* The end of a transaction leaves the locks of the others compatible and in
\* the hands of those that passed the statement that took them.
LEMMA LocksKept ==
  ASSUME IInv, NEW c \in Calls, EndTransaction(c), UNCHANGED asked,
         \A d \in Calls : pc'[d] = (IF d = c THEN "done" ELSE pc[d]),
         \A a \in Aggregates : shared[a] # {} => revokedAt'[a] = None
  PROVE  LockInv'
  <1> USE DEF asked
  <1>1. \A s \in Starts : pc[s] # "idle" => row[s].device \in Aggregates /\ row[s].agent \in Aggregates
    BY DEF IInv, KindInv, Session, Aggregates
  <1>2. \A r \in Revokes : pc[r] # "idle" => intent[r].aggregate \in Aggregates
    BY DEF IInv, KindInv, Intent
  <1>3. \A s \in Starts : /\ pc'[s] \in PastDevice => s \in shared'[row'[s].device]
                          /\ pc'[s] \in PastAgent => s \in shared'[row'[s].agent]
    BY <1>1 DEF IInv, LockInv, EndTransaction, Calls, PastDevice, PastAgent
  <1>4. \A r \in Revokes : pc'[r] \in PastLock => r \in exclusive'[intent'[r].aggregate]
    BY <1>2 DEF IInv, LockInv, EndTransaction, Calls, PastLock, Ending
  <1>5. \A a \in Aggregates : /\ shared'[a] # {} => exclusive'[a] = {} /\ revokedAt'[a] = None
                              /\ \A r1, r2 \in exclusive'[a] : r1 = r2
    BY DEF IInv, LockInv, EndTransaction
  <1>6. QED
    BY <1>3, <1>4, <1>5 DEF LockInv

\* A transaction that ends without publishing anything leaves the invariant:
\* its locks and private writes disappear with it.
LEMMA AbortKeeps ==
  ASSUME IInv, NEW c \in Calls,
         EndTransaction(c), pc' = [pc EXCEPT ![c] = "done"], UNCHANGED <<tables, asked>>,
         \A d \in Calls : answer'[d] = "ok" => answer[d] = "ok" /\ d # c
  PROVE  LockInv' /\ RevokeInv' /\ InsertInv' /\ OneEventPerRevocation'
  <1> USE DEF tables, asked
  <1>0. \A d \in Calls : pc'[d] = (IF d = c THEN "done" ELSE pc[d])
    BY DEF IInv, TypeOK
  <1>1. LockInv'
    <2>1. \A a \in Aggregates : shared[a] # {} => revokedAt'[a] = None
      BY DEF IInv, LockInv
    <2>2. QED
      BY <1>0, <2>1, LocksKept
  <1>2. RevokeInv'
    BY <1>0 DEF IInv, TypeOK, RevokeInv, EndTransaction, Calls, Ending
  <1>3. InsertInv'
    BY <1>0 DEF IInv, TypeOK, InsertInv, EndTransaction, Calls, PastInsert, Ending, Stored
  <1>4. OneEventPerRevocation'
    BY DEF IInv, OneEventPerRevocation
  <1>5. QED
    BY <1>1, <1>2, <1>3, <1>4

\* A transaction that commits publishes a row whose key it owned, or a
\* revocation of a row that it alone had locked, with its event.
LEMMA PublishKeeps ==
  ASSUME IInv, NEW c \in Calls, pc[c] \in Ending,
         Publish(c), EndTransaction(c), pc' = [pc EXCEPT ![c] = "done"], UNCHANGED asked,
         \A d \in Calls : answer'[d] = "ok" => answer[d] = "ok" \/ d = c
  PROVE  LockInv' /\ RevokeInv' /\ InsertInv' /\ OneEventPerRevocation'
  <1> USE DEF asked
  <1>0. \A d \in Calls : pc'[d] = (IF d = c THEN "done" ELSE pc[d])
    BY DEF IInv, TypeOK
  <1>1. CASE c \in Starts
    <2>1. c \notin marked /\ c \notin queued
      BY <1>1, ConstantsAssumption DEF IInv, TypeOK
    <2>2. revokedAt' = revokedAt /\ events' = events
      BY <2>1 DEF Publish, IInv, TypeOK
    <2>3. marked' = marked /\ queued' = queued
      BY <2>1 DEF EndTransaction
    <2>4. LockInv'
      <3>1. \A a \in Aggregates : shared[a] # {} => revokedAt'[a] = None
        BY <2>2 DEF IInv, LockInv
      <3>2. QED
        BY <1>0, <3>1, LocksKept
    <2>5. RevokeInv'
      BY <1>0, <1>1, <2>2, <2>3, ConstantsAssumption DEF IInv, TypeOK, RevokeInv, Calls, Ending
    <2>6. InsertInv'
      <3>1. \A id \in SessionIds :
              sessions'[id] = IF inserted[c] # None /\ inserted[c].id = id THEN inserted[c] ELSE sessions[id]
        BY <1>1 DEF Publish
      <3>2. \A t \in Starts : inserted'[t] = IF t = c THEN None ELSE inserted[t]
        BY DEF EndTransaction
      <3>3. inserted[c] # None => inserted[c] = row[c] /\ sessions[row[c].id] = None
        BY <1>1 DEF IInv, InsertInv
      <3>4. \A t \in Starts : pc[t] # "idle" => row[t].id \in SessionIds
        BY DEF IInv, KindInv, Session
      <3>5. \A t \in Starts : t # c /\ inserted[t] # None /\ inserted[c] # None => inserted[t].id # inserted[c].id
        BY <1>1 DEF IInv, InsertInv
      <3>6. \A t \in Starts : pc'[t] = IF t = c THEN "done" ELSE pc[t]
        BY <1>0 DEF Calls
      <3>7. \A id \in SessionIds : sessions'[id] # None => sessions'[id].id = id
        BY <3>1 DEF IInv, InsertInv
      <3>8. \A t, u \in Starts :
              inserted'[t] # None /\ inserted'[u] # None /\ inserted'[t].id = inserted'[u].id => t = u
        BY <3>2 DEF IInv, InsertInv
      <3>9. ASSUME NEW t \in Starts
            PROVE  /\ inserted'[t] # None => /\ pc'[t] \in PastInsert
                                             /\ inserted'[t] = row'[t]
                                             /\ sessions'[row'[t].id] = None
                   /\ pc'[t] \in PastInsert => Stored(t)' # None
                   /\ pc'[t] \in Ending => found'[t] = Stored(t)' /\ SameSession(found'[t], row'[t])
                   /\ answer'[t] = "ok" => /\ pc'[t] = "done"
                                           /\ found'[t] # None
                                           /\ sessions'[row'[t].id] = found'[t]
                                           /\ SameSession(found'[t], row'[t])
        <4>1. /\ inserted[t] # None => /\ pc[t] \in PastInsert
                                       /\ inserted[t] = row[t]
                                       /\ sessions[row[t].id] = None
              /\ pc[t] \in PastInsert => Stored(t) # None
              /\ pc[t] \in Ending => found[t] = Stored(t) /\ SameSession(found[t], row[t])
              /\ answer[t] = "ok" => /\ pc[t] = "done"
                                     /\ found[t] # None
                                     /\ sessions[row[t].id] = found[t]
                                     /\ SameSession(found[t], row[t])
          BY DEF IInv, InsertInv
        <4>2. CASE t = c
          <5>1. pc'[t] = "done" /\ inserted'[t] = None
            BY <3>2, <3>6, <4>2
          <5>2. found[t] = Stored(t) /\ Stored(t) # None /\ SameSession(found[t], row[t])
            BY <4>1, <4>2 DEF Ending, PastInsert
          <5>3. row[t].id \in SessionIds
            BY <3>4, <4>2 DEF Ending
          <5>4. sessions'[row[t].id] = Stored(t)
            BY <3>1, <3>3, <4>2, <5>2, <5>3 DEF Stored
          <5>5. QED
            BY <5>1, <5>2, <5>4 DEF PastInsert, Ending
        <4>3. CASE t # c
          <5>1. pc'[t] = pc[t] /\ inserted'[t] = inserted[t]
            BY <3>2, <3>6, <4>3
          <5>2. answer'[t] = "ok" => answer[t] = "ok"
            BY <4>3 DEF Calls
          <5>3. pc[t] # "idle" => sessions'[row[t].id] =
                  IF inserted[c] # None /\ inserted[c].id = row[t].id THEN inserted[c] ELSE sessions[row[t].id]
            BY <3>1, <3>4
          <5>4. pc[t] # "idle" /\ sessions[row[t].id] # None => sessions'[row[t].id] = sessions[row[t].id]
            BY <3>3, <5>3
          <5>5. pc[t] # "idle" /\ inserted[t] # None => sessions'[row[t].id] = None
            BY <3>5, <4>1, <4>3, <5>3
          <5>6. pc[t] \in PastInsert => Stored(t)' = Stored(t)
            BY <4>1, <5>1, <5>4 DEF Stored, PastInsert
          <5>7. inserted'[t] # None => /\ pc'[t] \in PastInsert
                                       /\ inserted'[t] = row'[t]
                                       /\ sessions'[row'[t].id] = None
            BY <4>1, <5>1, <5>5 DEF PastInsert
          <5>8. pc'[t] \in PastInsert => Stored(t)' # None
            BY <4>1, <5>1, <5>6
          <5>9. pc'[t] \in Ending => found'[t] = Stored(t)' /\ SameSession(found'[t], row'[t])
            BY <4>1, <5>1, <5>6 DEF PastInsert, Ending
          <5>10. answer'[t] = "ok" => /\ pc'[t] = "done"
                                      /\ found'[t] # None
                                      /\ sessions'[row'[t].id] = found'[t]
                                      /\ SameSession(found'[t], row'[t])
            BY <4>1, <5>1, <5>2, <5>4
          <5>11. QED
            BY <5>7, <5>8, <5>9, <5>10
        <4>4. QED
          BY <4>2, <4>3
      <3>10. QED
        BY <3>7, <3>8, <3>9 DEF InsertInv
    <2>7. OneEventPerRevocation'
      BY <2>2 DEF IInv, OneEventPerRevocation
    <2>8. QED
      BY <2>4, <2>5, <2>6, <2>7
  <1>2. CASE c \in Revokes
    <2>0. c \notin Starts /\ intent[c] \in Intent
      BY <1>2, ConstantsAssumption DEF IInv, KindInv, Ending
    <2>1. sessions' = sessions /\ inserted' = inserted
      BY <2>0 DEF Publish, EndTransaction, IInv, TypeOK
    <2>2. c \in exclusive[intent[c].aggregate] /\ intent[c].aggregate \in Aggregates
      BY <1>2, <2>0 DEF IInv, LockInv, PastLock, Ending, Intent
    <2>3. shared[intent[c].aggregate] = {}
      BY <2>2 DEF IInv, LockInv
    <2>4. c \in marked <=> c \in queued
      BY <1>2 DEF IInv, RevokeInv
    <2>5. intent[c].at # None
      BY <2>0, ConstantsAssumption DEF Intent
    <2>6. LockInv'
      <3>1. \A a \in Aggregates : shared[a] # {} => revokedAt'[a] = None
        BY <2>3 DEF IInv, LockInv, Publish
      <3>2. QED
        BY <1>0, <3>1, LocksKept
    <2>7. RevokeInv'
      <3>1. \A r \in Revokes : r # c /\ pc[r] \in PastLock => intent[r].aggregate # intent[c].aggregate
        BY <2>2 DEF IInv, LockInv
      <3>2. \A r \in Revokes : pc[r] # "idle" => intent[r].aggregate \in Aggregates
        BY DEF IInv, KindInv, Intent
      <3>3. \A a \in Aggregates : revokedAt'[a] = IF c \in marked /\ intent[c].aggregate = a
                                                  THEN intent[c].at ELSE revokedAt[a]
        BY DEF Publish
      <3>4. QED
        BY <1>0, <1>2, <2>2, <2>4, <2>5, <3>1, <3>2, <3>3 DEF IInv, TypeOK, RevokeInv, EndTransaction, Calls,
           PastLock, Ending
    <2>8. InsertInv'
      BY <1>0, <2>0, <2>1 DEF IInv, TypeOK, InsertInv, Calls, PastInsert, Ending, Stored
    <2>9. OneEventPerRevocation'
      <3>1. CASE c \notin marked
        BY <2>4, <3>1 DEF IInv, TypeOK, OneEventPerRevocation, Publish
      <3>2. CASE c \in marked
        <4>1. revokedAt[intent[c].aggregate] = None
          BY <1>2, <3>2 DEF IInv, RevokeInv
        <4>2. events' = events \cup {EventOf(c)}
          BY <2>4, <3>2 DEF Publish
        <4>3. \A a \in Aggregates : revokedAt'[a] = IF intent[c].aggregate = a
                                                    THEN intent[c].at ELSE revokedAt[a]
          BY <3>2 DEF Publish
        <4>4. {e \in events : e.aggregate = intent[c].aggregate} = {}
          BY <2>2, <4>1 DEF IInv, OneEventPerRevocation
        <4>5. EventOf(c).aggregate = intent[c].aggregate /\ EventOf(c).availableAt = intent[c].at
          BY DEF EventOf
        <4>6. ASSUME NEW a \in Aggregates
              PROVE LET announcing == {e \in events' : e.aggregate = a} IN
                    IF revokedAt'[a] = None THEN announcing = {}
                    ELSE \E e \in announcing : announcing = {e} /\ e.availableAt = revokedAt'[a]
          <5>1. CASE a = intent[c].aggregate
            <6>1. {e \in events' : e.aggregate = a} = {EventOf(c)}
              BY <4>2, <4>4, <4>5, <5>1
            <6>2. revokedAt'[a] = EventOf(c).availableAt /\ revokedAt'[a] # None
              BY <2>2, <2>5, <4>3, <4>5, <5>1
            <6>3. QED
              BY <6>1, <6>2
          <5>2. CASE a # intent[c].aggregate
            <6>1. {e \in events' : e.aggregate = a} = {e \in events : e.aggregate = a}
              BY <4>2, <4>5, <5>2
            <6>2. revokedAt'[a] = revokedAt[a]
              BY <4>3, <5>2
            <6>3. QED
              BY <6>1, <6>2 DEF IInv, OneEventPerRevocation
          <5>3. QED
            BY <5>1, <5>2
        <4>7. QED
          BY <4>6 DEF OneEventPerRevocation
      <3>3. QED
        BY <3>1, <3>2
    <2>10. QED
      BY <2>6, <2>7, <2>8, <2>9
  <1>3. QED
    BY <1>1, <1>2 DEF Calls

\* The parts of the invariant that typing does not cover.
Rest == LockInv /\ RevokeInv /\ InsertInv /\ OneEventPerRevocation

\* An early return is an end without publication.
LEMMA ReturnKeeps ==
  ASSUME IInv, NEW c \in Calls, NEW verdict \in {"denied", "invalid", "unavailable"},
         Return(c, verdict)
  PROVE  Rest'
  <1>1. \A d \in Calls : answer'[d] = IF d = c THEN verdict ELSE answer[d]
    BY DEF Return, IInv, TypeOK
  <1>2. \A d \in Calls : answer'[d] = "ok" => answer[d] = "ok" /\ d # c
    BY <1>1
  <1>3. QED
    BY <1>2, AbortKeeps DEF Return, Rest

\* An authorization takes a shared lock on a row that is not revoked and that
\* nobody is revoking.
LEMMA AuthorizeKeeps ==
  ASSUME IInv, NEW s \in Starts, NEW a \in Aggregates, NEW from, NEW to,
         \/ from = "device" /\ to = "agent" /\ a = row[s].device
         \/ from = "agent" /\ to = "project" /\ a = row[s].agent,
         Authorize(s, a, from, to)
  PROVE  Rest'
  <1>1. CASE Return(s, "denied")
    BY <1>1, ReturnKeeps DEF Calls
  <1>2. CASE ~Return(s, "denied")
    <2>1. /\ revokedAt[a] = None /\ exclusive[a] = {}
          /\ shared' = [shared EXCEPT ![a] = @ \cup {s}]
          /\ pc[s] = from /\ pc' = [pc EXCEPT ![s] = to]
          /\ UNCHANGED <<tables, exclusive, writes, asked, answer>>
      BY <1>2 DEF Authorize, Advance, Usable
    <2>2. \A d \in Calls : pc'[d] = (IF d = s THEN to ELSE pc[d])
      BY <2>1 DEF IInv, TypeOK
    <2>3. \A b \in Aggregates : shared'[b] = (IF b = a THEN shared[b] \cup {s} ELSE shared[b])
      BY <2>1 DEF IInv, TypeOK
    <2>4. LockInv'
      <3>1. \A t \in Starts : pc[t] # "idle" => row[t].device \in Aggregates /\ row[t].agent \in Aggregates
        BY DEF IInv, KindInv, Session, Aggregates
      <3>2. \A t \in Starts : /\ pc'[t] \in PastDevice => t \in shared'[row[t].device]
                              /\ pc'[t] \in PastAgent => t \in shared'[row[t].agent]
        <4> SUFFICES ASSUME NEW t \in Starts
                     PROVE  /\ pc'[t] \in PastDevice => t \in shared'[row[t].device]
                            /\ pc'[t] \in PastAgent => t \in shared'[row[t].agent]
          OBVIOUS
        <4>1. /\ pc[t] \in PastDevice => t \in shared[row[t].device]
              /\ pc[t] \in PastAgent => t \in shared[row[t].agent]
          BY DEF IInv, LockInv
        <4>2. pc[t] # "idle" => /\ shared[row[t].device] \subseteq shared'[row[t].device]
                                /\ shared[row[t].agent] \subseteq shared'[row[t].agent]
          BY <2>3, <3>1
        <4>3. pc'[t] = IF t = s THEN to ELSE pc[t]
          BY <2>2 DEF Calls
        <4>4. CASE t # s
          BY <4>1, <4>2, <4>3, <4>4 DEF PastDevice, PastAgent
        <4>5. CASE t = s
          <5>1. s \in shared'[a] /\ pc'[s] = to /\ pc[s] = from
            BY <2>1, <2>3, <4>3, <4>5
          <5>2. CASE from = "device"
            BY <4>5, <5>1, <5>2 DEF PastDevice, PastAgent
          <5>3. CASE from = "agent"
            BY <4>1, <4>2, <4>5, <5>1, <5>3 DEF PastDevice, PastAgent
          <5>4. QED
            BY <5>2, <5>3
        <4>6. QED
          BY <4>4, <4>5
      <3>3. \A r \in Revokes : pc'[r] = pc[r]
        BY <2>2, ConstantsAssumption DEF Calls
      <3>4. QED
        BY <2>1, <2>3, <3>2, <3>3 DEF IInv, LockInv, tables, asked
    <2>5. RevokeInv'
      BY <2>1, <2>2, ConstantsAssumption DEF IInv, TypeOK, RevokeInv, Calls, Ending, tables, asked, writes
    <2>6. InsertInv'
      BY <2>1, <2>2 DEF IInv, TypeOK, InsertInv, Calls, PastInsert, Ending, Stored, tables, asked, writes
    <2>7. OneEventPerRevocation'
      BY <2>1 DEF IInv, OneEventPerRevocation, tables
    <2>8. QED
      BY <2>4, <2>5, <2>6, <2>7 DEF Rest
  <1>3. QED
    BY <1>1, <1>2

\* Every step keeps the inductive invariant.
LEMMA StepIInv == IInv /\ [Next]_vars => IInv'
  <1> SUFFICES ASSUME IInv, [Next]_vars PROVE Rest'
    BY StepTyped DEF IInv, Rest
  <1> USE DEF tables, locks, writes, asked, Advance
  <1>1. ASSUME NEW s \in Starts, StartBegin(s) PROVE Rest'
    <2>1. \A d \in Calls : pc'[d] = (IF d = s THEN "device" ELSE pc[d])
      BY <1>1 DEF StartBegin, IInv, TypeOK
    <2>2. \A t \in Starts : t # s => row'[t] = row[t]
      BY <1>1 DEF StartBegin, IInv, TypeOK
    <2>3. inserted[s] = None /\ answer[s] # "ok"
      BY <1>1 DEF StartBegin, IInv, InsertInv, PastInsert, Ending
    <2>4. LockInv'
      BY <1>1, <2>1, <2>2, ConstantsAssumption DEF StartBegin, IInv, LockInv, Calls, PastDevice, PastAgent
    <2>5. RevokeInv'
      BY <1>1, <2>1, ConstantsAssumption DEF StartBegin, IInv, TypeOK, RevokeInv, Calls, Ending
    <2>6. InsertInv'
      BY <1>1, <2>1, <2>2, <2>3 DEF StartBegin, IInv, TypeOK, InsertInv, Calls, PastInsert, Ending, Stored
    <2>7. OneEventPerRevocation'
      BY <1>1 DEF StartBegin, IInv, OneEventPerRevocation
    <2>8. QED
      BY <2>4, <2>5, <2>6, <2>7 DEF Rest
  <1>2. ASSUME NEW s \in Starts, AuthorizeDevice(s) \/ AuthorizeAgent(s) PROVE Rest'
    <2>1. row[s].device \in Aggregates /\ row[s].agent \in Aggregates
      BY <1>2 DEF AuthorizeDevice, AuthorizeAgent, Authorize, IInv, KindInv, Session, Aggregates
    <2>2. QED
      BY <1>2, <2>1, AuthorizeKeeps DEF AuthorizeDevice, AuthorizeAgent
  <1>3. ASSUME NEW s \in Starts, AuthorizeProject(s) PROVE Rest'
    <2>1. CASE Return(s, "denied")
      BY <2>1, ReturnKeeps DEF Calls
    <2>2. CASE ~Return(s, "denied")
      <3>1. pc[s] = "project" /\ UNCHANGED <<tables, locks, writes, asked, answer>>
        BY <1>3, <2>2 DEF AuthorizeProject
      <3>2. \A d \in Calls : pc'[d] = (IF d = s THEN "insert" ELSE pc[d])
        BY <1>3, <2>2 DEF AuthorizeProject, IInv, TypeOK
      <3>3. LockInv'
        BY <3>1, <3>2, ConstantsAssumption DEF IInv, LockInv, Calls, PastDevice, PastAgent
      <3>4. RevokeInv'
        BY <3>1, <3>2, ConstantsAssumption DEF IInv, TypeOK, RevokeInv, Calls, Ending
      <3>5. InsertInv'
        BY <3>1, <3>2 DEF IInv, TypeOK, InsertInv, Calls, PastInsert, Ending, Stored
      <3>6. OneEventPerRevocation'
        BY <3>1 DEF IInv, OneEventPerRevocation
      <3>7. QED
        BY <3>3, <3>4, <3>5, <3>6 DEF Rest
    <2>3. QED
      BY <2>1, <2>2
  <1>4. ASSUME NEW s \in Starts, InsertSession(s) PROVE Rest'
    <2>1. /\ pc[s] = "insert" /\ UNCHANGED <<tables, locks, marked, queued, asked, answer>>
          /\ inserted' = IF sessions[row[s].id] = None THEN [inserted EXCEPT ![s] = row[s]] ELSE inserted
      BY <1>4 DEF InsertSession
    <2>2. \A d \in Calls : pc'[d] = (IF d = s THEN "read" ELSE pc[d])
      BY <1>4 DEF InsertSession, IInv, TypeOK
    <2>3. \A t \in Starts : t # s => inserted'[t] = inserted[t]
      BY <2>1 DEF IInv, TypeOK
    <2>4. inserted'[s] = IF sessions[row[s].id] = None THEN row[s] ELSE None
      BY <2>1 DEF IInv, TypeOK, InsertInv, PastInsert, Ending
    <2>5. row[s] \in Session /\ row[s] # None
      BY <2>1, ConstantsAssumption DEF IInv, KindInv
    <2>6. \A t \in Starts \ {s} : inserted[t] # None => inserted[t].id # row[s].id
      BY <1>4 DEF InsertSession
    <2>7. LockInv'
      BY <2>1, <2>2, ConstantsAssumption DEF IInv, LockInv, Calls, PastDevice, PastAgent
    <2>8. RevokeInv'
      BY <2>1, <2>2, ConstantsAssumption DEF IInv, TypeOK, RevokeInv, Calls, Ending
    <2>9. InsertInv'
      <3>1. \A t \in Starts : pc'[t] = IF t = s THEN "read" ELSE pc[t]
        BY <2>2 DEF Calls
      <3>2. inserted[s] = None
        BY <2>1 DEF IInv, InsertInv, PastInsert
      <3>3. \A t, u \in Starts :
              inserted'[t] # None /\ inserted'[u] # None /\ inserted'[t].id = inserted'[u].id => t = u
        BY <2>3, <2>4, <2>6 DEF IInv, InsertInv
      <3>4. ASSUME NEW t \in Starts
            PROVE  /\ inserted'[t] # None => /\ pc'[t] \in PastInsert
                                             /\ inserted'[t] = row'[t]
                                             /\ sessions'[row'[t].id] = None
                   /\ pc'[t] \in PastInsert => Stored(t)' # None
                   /\ pc'[t] \in Ending => found'[t] = Stored(t)' /\ SameSession(found'[t], row'[t])
                   /\ answer'[t] = "ok" => /\ pc'[t] = "done"
                                           /\ found'[t] # None
                                           /\ sessions'[row'[t].id] = found'[t]
                                           /\ SameSession(found'[t], row'[t])
        <4>1. CASE t = s
          <5>1. answer[s] # "ok"
            BY <2>1 DEF IInv, InsertInv
          <5>2. QED
            BY <2>1, <2>4, <2>5, <3>1, <4>1, <5>1 DEF Stored, PastInsert, Ending, tables, asked
        <4>2. CASE t # s
          BY <2>1, <2>3, <3>1, <4>2 DEF IInv, InsertInv, Stored, tables, asked
        <4>3. QED
          BY <4>1, <4>2
      <3>5. QED
        BY <2>1, <3>3, <3>4 DEF IInv, InsertInv, tables
    <2>10. OneEventPerRevocation'
      BY <2>1 DEF IInv, OneEventPerRevocation
    <2>11. QED
      BY <2>7, <2>8, <2>9, <2>10 DEF Rest
  <1>5. ASSUME NEW s \in Starts, ReadSession(s) PROVE Rest'
    <2>1. CASE Return(s, "denied")
      BY <2>1, ReturnKeeps DEF Calls
    <2>2. CASE ~Return(s, "denied")
      <3>1. /\ pc[s] = "read" /\ UNCHANGED <<tables, locks, writes, row, intent, answer>>
            /\ SameSession(Stored(s), row[s])
            /\ found' = [found EXCEPT ![s] = Stored(s)]
        BY <1>5, <2>2 DEF ReadSession
      <3>2. \A d \in Calls : pc'[d] = (IF d = s THEN "commit" ELSE pc[d])
        BY <1>5, <2>2 DEF ReadSession, IInv, TypeOK
      <3>3. \A t \in Starts : found'[t] = (IF t = s THEN Stored(s) ELSE found[t])
        BY <3>1 DEF IInv, TypeOK
      <3>4. answer[s] # "ok"
        BY <3>1 DEF IInv, InsertInv
      <3>5. LockInv'
        BY <3>1, <3>2, ConstantsAssumption DEF IInv, LockInv, Calls, PastDevice, PastAgent
      <3>6. RevokeInv'
        BY <3>1, <3>2, ConstantsAssumption DEF IInv, TypeOK, RevokeInv, Calls, Ending
      <3>7. InsertInv'
        BY <3>1, <3>2, <3>3, <3>4 DEF IInv, TypeOK, InsertInv, Calls, PastInsert, Ending, Stored
      <3>8. OneEventPerRevocation'
        BY <3>1 DEF IInv, OneEventPerRevocation
      <3>9. QED
        BY <3>5, <3>6, <3>7, <3>8 DEF Rest
    <2>3. QED
      BY <2>1, <2>2
  <1>6. ASSUME NEW r \in Revokes, RevokeBegin(r) PROVE Rest'
    <2>1. \A d \in Calls : pc'[d] = (IF d = r THEN "lock" ELSE pc[d])
      BY <1>6 DEF RevokeBegin, IInv, TypeOK
    <2>2. \A q \in Revokes : q # r => intent'[q] = intent[q]
      BY <1>6 DEF RevokeBegin, IInv, TypeOK
    <2>3. r \notin marked /\ answer[r] # "ok"
      BY <1>6 DEF RevokeBegin, IInv, RevokeInv, Ending
    <2>4. LockInv'
      BY <1>6, <2>1, <2>2, ConstantsAssumption DEF RevokeBegin, IInv, LockInv, Calls, PastLock, Ending,
         PastDevice, PastAgent
    <2>5. RevokeInv'
      BY <1>6, <2>1, <2>2, <2>3 DEF RevokeBegin, IInv, TypeOK, RevokeInv, Calls, Ending
    <2>6. InsertInv'
      BY <1>6, <2>1, ConstantsAssumption DEF RevokeBegin, IInv, TypeOK, InsertInv, Calls, PastInsert, Ending, Stored
    <2>7. OneEventPerRevocation'
      BY <1>6 DEF RevokeBegin, IInv, OneEventPerRevocation
    <2>8. QED
      BY <2>4, <2>5, <2>6, <2>7 DEF Rest
  <1>7. ASSUME NEW r \in Revokes, LockAggregate(r) PROVE Rest'
    <2>1. CASE Return(r, "denied") \/ Return(r, "invalid")
      BY <2>1, ReturnKeeps DEF Calls
    <2>2. CASE ~(Return(r, "denied") \/ Return(r, "invalid"))
      <3> DEFINE a == intent[r].aggregate
      <3>1. /\ pc[r] = "lock" /\ UNCHANGED <<tables, shared, writes, asked, answer>>
            /\ shared[a] = {} /\ exclusive[a] = {}
            /\ exclusive' = [exclusive EXCEPT ![a] = @ \cup {r}]
        BY <1>7, <2>2 DEF LockAggregate
      <3>2. a \in Aggregates
        BY <3>1 DEF IInv, KindInv, Intent
      <3>3. \A d \in Calls : pc'[d] = (IF d # r THEN pc[d] ELSE IF revokedAt[a] = None THEN "update" ELSE "commit")
        BY <1>7, <2>2 DEF LockAggregate, IInv, TypeOK
      <3>4. \A b \in Aggregates : exclusive'[b] = (IF b = a THEN {r} ELSE exclusive[b])
        BY <3>1, <3>2 DEF IInv, TypeOK
      <3>5. r \notin marked /\ answer[r] # "ok"
        BY <3>1 DEF IInv, RevokeInv, Ending
      <3>6. LockInv'
        <4>1. \A q \in Revokes : pc[q] # "idle" => intent[q].aggregate \in Aggregates
          BY DEF IInv, KindInv, Intent
        <4>2. \A q \in Revokes : pc'[q] \in PastLock => q \in exclusive'[intent[q].aggregate]
          BY <3>1, <3>2, <3>3, <3>4, <4>1 DEF IInv, LockInv, Calls, PastLock, Ending
        <4>3. \A s \in Starts : pc'[s] = pc[s]
          BY <3>3, ConstantsAssumption DEF Calls
        <4>4. \A b \in Aggregates : /\ shared[b] # {} => exclusive'[b] = {} /\ revokedAt[b] = None
                                    /\ \A r1, r2 \in exclusive'[b] : r1 = r2
          BY <3>1, <3>2, <3>4 DEF IInv, LockInv
        <4>5. QED
          BY <3>1, <4>2, <4>3, <4>4 DEF IInv, LockInv
      <3>7. RevokeInv'
        BY <3>1, <3>3, <3>5 DEF IInv, TypeOK, RevokeInv, Calls, Ending
      <3>8. InsertInv'
        BY <3>1, <3>3, ConstantsAssumption DEF IInv, TypeOK, InsertInv, Calls, PastInsert, Ending, Stored
      <3>9. OneEventPerRevocation'
        BY <3>1 DEF IInv, OneEventPerRevocation
      <3>10. QED
        BY <3>6, <3>7, <3>8, <3>9 DEF Rest
    <2>3. QED
      BY <2>1, <2>2
  <1>8. ASSUME NEW r \in Revokes, MarkRevoked(r) \/ EnqueueEvent(r) PROVE Rest'
    <2>1. \A d \in Calls : d # r => pc'[d] = pc[d]
      BY <1>8 DEF MarkRevoked, EnqueueEvent, IInv, TypeOK
    <2>2. \/ pc[r] = "update" /\ pc'[r] = "enqueue" /\ marked' = marked \cup {r} /\ queued' = queued
          \/ pc[r] = "enqueue" /\ pc'[r] = "commit" /\ marked' = marked /\ queued' = queued \cup {r}
      BY <1>8 DEF MarkRevoked, EnqueueEvent, IInv, TypeOK, Calls
    <2>3. UNCHANGED <<tables, locks, inserted, asked, answer>>
      BY <1>8 DEF MarkRevoked, EnqueueEvent
    <2>4. LockInv'
      BY <2>1, <2>2, <2>3, ConstantsAssumption DEF IInv, LockInv, Calls, PastLock, Ending, PastDevice, PastAgent
    <2>5. RevokeInv'
      BY <2>1, <2>2, <2>3 DEF IInv, TypeOK, RevokeInv, Calls, Ending
    <2>6. InsertInv'
      BY <2>1, <2>3, ConstantsAssumption DEF IInv, TypeOK, InsertInv, Calls, PastInsert, Ending, Stored
    <2>7. OneEventPerRevocation'
      BY <2>3 DEF IInv, OneEventPerRevocation
    <2>8. QED
      BY <2>4, <2>5, <2>6, <2>7 DEF Rest
  <1>9. ASSUME NEW c \in Calls, Commit(c) \/ SettleCommitted(c) PROVE Rest'
    <2>1. /\ pc[c] \in Ending /\ Publish(c) /\ EndTransaction(c)
          /\ pc' = [pc EXCEPT ![c] = "done"] /\ UNCHANGED asked
      BY <1>9 DEF Commit, SettleCommitted, Ending
    <2>2. \A d \in Calls : answer'[d] = "ok" => answer[d] = "ok" \/ d = c
      BY <1>9 DEF Commit, SettleCommitted, IInv, TypeOK
    <2>3. QED
      BY <2>1, <2>2, PublishKeeps DEF Rest
  <1>10. ASSUME NEW c \in Calls, SettleAborted(c) PROVE Rest'
    <2>1. answer[c] # "ok"
      BY <1>10 DEF SettleAborted, IInv, InsertInv, RevokeInv, Calls
    <2>2. QED
      BY <1>10, <2>1, AbortKeeps DEF SettleAborted, Rest
  <1>11. ASSUME NEW c \in Calls, LoseCommit(c) PROVE Rest'
    <2>1. \A d \in Calls : pc'[d] = (IF d = c THEN "inDoubt" ELSE pc[d])
      BY <1>11 DEF LoseCommit, IInv, TypeOK
    <2>2. \A d \in Calls : answer'[d] = "ok" => answer[d] = "ok" /\ d # c
      BY <1>11 DEF LoseCommit, IInv, TypeOK
    <2>3. pc[c] = "commit" /\ UNCHANGED <<tables, locks, writes, asked>>
      BY <1>11 DEF LoseCommit
    <2>4. LockInv'
      BY <2>1, <2>3 DEF IInv, LockInv, Calls, PastLock, Ending, PastDevice, PastAgent
    <2>5. RevokeInv'
      BY <2>1, <2>2, <2>3 DEF IInv, TypeOK, RevokeInv, Calls, Ending
    <2>6. InsertInv'
      BY <2>1, <2>2, <2>3 DEF IInv, TypeOK, InsertInv, Calls, PastInsert, Ending, Stored
    <2>7. OneEventPerRevocation'
      BY <2>3 DEF IInv, OneEventPerRevocation
    <2>8. QED
      BY <2>4, <2>5, <2>6, <2>7 DEF Rest
  <1>12. ASSUME NEW c \in Calls, Fail(c) PROVE Rest'
    BY <1>12, ReturnKeeps DEF Fail
  <1>13. CASE UNCHANGED vars
    BY <1>13 DEF vars, IInv, Rest, LockInv, RevokeInv, InsertInv, OneEventPerRevocation, Stored
  <1>14. QED
    BY <1>1, <1>2, <1>3, <1>4, <1>5, <1>6, <1>7, <1>8, <1>9, <1>10, <1>11, <1>12, <1>13, NextCases

-----------------------------------------------------------------------------
(* The theorems *)

\* The inductive invariant holds in every reachable state.
THEOREM Invariant == Spec => []IInv
  BY InitIInv, StepIInv, PTL DEF Spec

\* A revocation has exactly one event, with its time, from the moment it commits
\* (device.Repository.Revoke, workspace.Repository.RevokeAgent).
THEOREM RevocationAnnouncedOnce == Spec => []OneEventPerRevocation
  <1>1. IInv => OneEventPerRevocation
    BY DEF IInv
  <1>2. QED
    BY <1>1, Invariant, PTL

\* Whoever is told that a session started, or that a revocation succeeded, is
\* told the truth about the committed rows (Service.Start, Revoke).
THEOREM AnswersCanBeTrusted == Spec => []AnswersAreTrue
  <1>1. ASSUME IInv PROVE AnswersAreTrue
    <2>1. ASSUME NEW s \in Starts, answer[s] = "ok"
          PROVE  /\ sessions[row[s].id] = found[s]
                 /\ [found[s] EXCEPT !.startedAt = row[s].startedAt] = row[s]
      <3>1. /\ row[s] \in Session
            /\ sessions[row[s].id] = found[s] /\ found[s] # None
            /\ SameSession(found[s], row[s])
        BY <1>1, <2>1 DEF IInv, KindInv, InsertInv
      <3>2. row[s].id \in SessionIds
        BY <3>1 DEF Session
      <3>3. found[s] \in Session /\ found[s].id = row[s].id
        BY <1>1, <3>1, <3>2 DEF IInv, TypeOK, InsertInv
      <3>4. /\ found[s].owner = row[s].owner /\ found[s].device = row[s].device
            /\ found[s].agent = row[s].agent /\ found[s].project = row[s].project
            /\ found[s].region = row[s].region
        BY <3>1 DEF SameSession
      <3>5. [found[s] EXCEPT !.startedAt = row[s].startedAt] = row[s]
        BY <3>1, <3>3, <3>4 DEF Session
      <3>6. QED
        BY <3>1, <3>5
    <2>2. \A r \in Revokes : answer[r] = "ok" => revokedAt[intent[r].aggregate] # None
      BY <1>1 DEF IInv, RevokeInv
    <2>3. QED
      BY <2>1, <2>2 DEF AnswersAreTrue
  <1>2. QED
    BY <1>1, Invariant, PTL

\* The committed tables change only when a transaction publishes its writes.
LEMMA TablesChange ==
  ASSUME Next
  PROVE  \/ UNCHANGED tables
         \/ \E c \in Calls : pc[c] \in Ending /\ Publish(c)
  <1>1. ASSUME NEW s \in Starts,
               \/ StartBegin(s) \/ AuthorizeDevice(s) \/ AuthorizeAgent(s)
               \/ AuthorizeProject(s) \/ InsertSession(s) \/ ReadSession(s)
        PROVE  UNCHANGED tables
    BY <1>1 DEF StartBegin, AuthorizeDevice, AuthorizeAgent, Authorize, AuthorizeProject,
       InsertSession, ReadSession, Return
  <1>2. ASSUME NEW r \in Revokes,
               RevokeBegin(r) \/ LockAggregate(r) \/ MarkRevoked(r) \/ EnqueueEvent(r)
        PROVE  UNCHANGED tables
    BY <1>2 DEF RevokeBegin, LockAggregate, MarkRevoked, EnqueueEvent, Return
  <1>3. ASSUME NEW c \in Calls, LoseCommit(c) \/ SettleAborted(c) \/ Fail(c)
        PROVE  UNCHANGED tables
    BY <1>3 DEF LoseCommit, SettleAborted, Fail, Return
  <1>4. ASSUME NEW c \in Calls, Commit(c) \/ SettleCommitted(c)
        PROVE  pc[c] \in Ending /\ Publish(c)
    BY <1>4 DEF Commit, SettleCommitted, Advance, Ending
  <1>5. UNCHANGED vars => UNCHANGED tables
    BY DEF vars
  <1>6. QED
    BY <1>1, <1>2, <1>3, <1>4, <1>5, NextCases

\* What a session row being published owes to the locks its transaction holds.
LEMMA PublishedWhileLive ==
  ASSUME IInv, NEW s \in Starts, pc[s] \in Ending
  PROVE  /\ row[s] \in Session
         /\ revokedAt[row[s].device] = None
         /\ revokedAt[row[s].agent] = None
  <1>1. row[s] \in Session
    BY DEF IInv, KindInv, Ending
  <1>2. row[s].device \in Aggregates /\ row[s].agent \in Aggregates
    BY <1>1 DEF Session, Aggregates
  <1>3. s \in shared[row[s].device] /\ s \in shared[row[s].agent]
    BY DEF IInv, LockInv, Ending, PastDevice, PastAgent
  <1>4. QED
    BY <1>1, <1>2, <1>3 DEF IInv, LockInv

\* No session row appears once its device's or its agent's revocation has
\* committed (Service.Start against the two revocations).
THEOREM IssuedWhileLive == Spec => IssuedOnlyWhileLive
  <1> DEFINE Live(id) == sessions[id] = None /\ sessions'[id] # None =>
                           /\ revokedAt[sessions'[id].device] = None
                           /\ revokedAt[sessions'[id].agent] = None
  <1>1. ASSUME IInv, Next, NEW id \in SessionIds PROVE Live(id)
    <2>1. CASE UNCHANGED tables
      BY <2>1 DEF tables
    <2>2. ASSUME NEW c \in Calls, pc[c] \in Ending, Publish(c) PROVE Live(id)
      <3>1. CASE sessions'[id] = sessions[id]
        BY <3>1
      <3>2. CASE sessions'[id] # sessions[id]
        <4>1. c \in Starts /\ sessions'[id] = row[c]
          BY <1>1, <2>2, <3>2 DEF Publish, IInv, InsertInv
        <4>2. QED
          BY <1>1, <2>2, <4>1, PublishedWhileLive
      <3>3. QED
        BY <3>1, <3>2
    <2>3. QED
      BY <1>1, <2>1, <2>2, TablesChange
  <1>2. IInv /\ [Next]_vars => [\A id \in SessionIds : Live(id)]_vars
    BY <1>1
  <1>3. QED
    BY <1>2, Invariant, PTL DEF Spec, IssuedOnlyWhileLive

\* A committed session row, revocation time or event is never rewritten
\* (ON CONFLICT DO NOTHING, and the early commit of a repeated revocation).
THEOREM HistoryKept == Spec => HistoryIsKept
  <1> DEFINE Kept == /\ \A id \in SessionIds : sessions[id] # None => sessions'[id] = sessions[id]
                     /\ \A a \in Aggregates : revokedAt[a] # None => revokedAt'[a] = revokedAt[a]
                     /\ events \subseteq events'
  <1>1. ASSUME IInv, Next PROVE Kept
    <2>1. CASE UNCHANGED tables
      BY <2>1 DEF tables
    <2>2. ASSUME NEW c \in Calls, pc[c] \in Ending, Publish(c) PROVE Kept
      <3>1. \A id \in SessionIds : sessions[id] # None => sessions'[id] = sessions[id]
        BY <1>1, <2>2 DEF Publish, IInv, InsertInv
      <3>2. \A a \in Aggregates : revokedAt[a] # None => revokedAt'[a] = revokedAt[a]
        BY <1>1, <2>2 DEF Publish, IInv, RevokeInv, TypeOK
      <3>3. events \subseteq events'
        BY <2>2 DEF Publish
      <3>4. QED
        BY <3>1, <3>2, <3>3
    <2>3. QED
      BY <1>1, <2>1, <2>2, TablesChange
  <1>2. IInv /\ [Next]_vars => [Kept]_vars
    BY <1>1
  <1>3. QED
    BY <1>2, Invariant, PTL DEF Spec, HistoryIsKept

-----------------------------------------------------------------------------
(* The refinement *)

\* The empty tables are the abstract initial state.
LEMMA AuthorityInit == Init => Authority!Init
  <1> SUFFICES ASSUME Init PROVE Authority!Init
    OBVIOUS
  <1>1. {a \in Aggregates : revokedAt[a] # None} = {} /\ {e.aggregate : e \in events} = {}
    BY DEF Init
  <1>2. \A s \in Starts : answer[s] # "ok"
    BY DEF Init, Calls
  <1>3. QED
    BY <1>1, <1>2 DEF Authority!Init, Init

\* What the callers of Start have been told.
Granted == [s \in Starts |-> IF answer[s] = "ok" THEN found[s] ELSE None]
Revoked == {a \in Aggregates : revokedAt[a] # None}
Announced == {e.aggregate : e \in events}

\* A step that tells nobody "ok" leaves the grants of the authority alone.
LEMMA GrantedKept ==
  ASSUME IInv, Next, \A c \in Calls : ~Commit(c)
  PROVE  Granted' = Granted
  <1>1. \/ UNCHANGED <<answer, found>>
        \/ /\ UNCHANGED answer
           /\ \E s \in Starts : pc[s] = "read" /\ found' = [found EXCEPT ![s] = Stored(s)]
        \/ /\ UNCHANGED found
           /\ \E c \in Calls, verdict \in {"denied", "invalid", "unavailable", "unknown"} :
                pc[c] # "done" /\ answer' = [answer EXCEPT ![c] = verdict]
    <2> DEFINE Told(c) == \E verdict \in {"denied", "invalid", "unavailable", "unknown"} :
                            pc[c] # "done" /\ answer' = [answer EXCEPT ![c] = verdict]
    <2>1. ASSUME NEW c \in Calls, NEW verdict \in {"denied", "invalid", "unavailable"},
                 pc[c] # "done", Return(c, verdict)
          PROVE  UNCHANGED found /\ Told(c)
      BY <2>1 DEF Return, asked
    <2>2. ASSUME NEW s \in Starts, StartBegin(s) \/ InsertSession(s)
          PROVE  UNCHANGED <<answer, found>>
      BY <2>2 DEF StartBegin, InsertSession, asked
    <2>3. ASSUME NEW s \in Starts, AuthorizeDevice(s) \/ AuthorizeAgent(s) \/ AuthorizeProject(s)
          PROVE  UNCHANGED <<answer, found>> \/ (UNCHANGED found /\ Told(s))
      BY <2>1, <2>3 DEF AuthorizeDevice, AuthorizeAgent, Authorize, AuthorizeProject, asked, Calls
    <2>4. ASSUME NEW s \in Starts, ReadSession(s)
          PROVE  \/ /\ UNCHANGED answer
                    /\ pc[s] = "read" /\ found' = [found EXCEPT ![s] = Stored(s)]
                 \/ UNCHANGED found /\ Told(s)
      BY <2>1, <2>4 DEF ReadSession, Calls
    <2>5. ASSUME NEW r \in Revokes,
                 RevokeBegin(r) \/ LockAggregate(r) \/ MarkRevoked(r) \/ EnqueueEvent(r)
          PROVE  UNCHANGED <<answer, found>> \/ (UNCHANGED found /\ Told(r))
      BY <2>1, <2>5 DEF RevokeBegin, LockAggregate, MarkRevoked, EnqueueEvent, Advance, asked, Calls
    <2>6. ASSUME NEW c \in Calls, SettleCommitted(c) \/ SettleAborted(c)
          PROVE  UNCHANGED <<answer, found>>
      BY <2>6 DEF SettleCommitted, SettleAborted, asked
    <2>7. ASSUME NEW c \in Calls, LoseCommit(c) \/ Fail(c)
          PROVE  UNCHANGED found /\ Told(c)
      BY <2>1, <2>7 DEF LoseCommit, Fail, Working, Open, Advance, asked
    <2>8. UNCHANGED vars => UNCHANGED <<answer, found>>
      BY DEF vars, asked
    <2>9. Starts \subseteq Calls /\ Revokes \subseteq Calls
      BY DEF Calls
    <2> HIDE DEF Told
    <2>10. \/ UNCHANGED <<answer, found>>
           \/ /\ UNCHANGED answer
              /\ \E s \in Starts : pc[s] = "read" /\ found' = [found EXCEPT ![s] = Stored(s)]
           \/ UNCHANGED found /\ \E c \in Calls : Told(c)
      BY <2>2, <2>3, <2>4, <2>5, <2>6, <2>7, <2>8, <2>9, NextCases
    <2>11. QED
      BY <2>10 DEF Told
  <1>2. CASE UNCHANGED <<answer, found>>
    BY <1>2 DEF Granted
  <1>3. ASSUME UNCHANGED answer,
               NEW s \in Starts, pc[s] = "read", found' = [found EXCEPT ![s] = Stored(s)]
        PROVE  Granted' = Granted
    <2>1. answer[s] # "ok"
      BY <1>3 DEF IInv, InsertInv
    <2>2. \A t \in Starts : t # s => found'[t] = found[t]
      BY <1>3 DEF IInv, TypeOK
    <2>3. QED
      BY <1>3, <2>1, <2>2 DEF Granted
  <1>4. ASSUME UNCHANGED found,
               NEW c \in Calls, NEW verdict \in {"denied", "invalid", "unavailable", "unknown"},
               pc[c] # "done", answer' = [answer EXCEPT ![c] = verdict]
        PROVE  Granted' = Granted
    <2>1. \A s \in Starts : answer[s] = "ok" => s # c
      BY <1>4 DEF IInv, InsertInv
    <2>2. \A s \in Starts : answer'[s] = (IF s = c THEN verdict ELSE answer[s])
      BY <1>4 DEF IInv, TypeOK, Calls
    <2>3. QED
      BY <1>4, <2>1, <2>2 DEF Granted
  <1>5. QED
    BY <1>1, <1>2, <1>3, <1>4

\* The commit of a Start, published by its own call or behind its back.
LEMMA StartPublishes ==
  ASSUME IInv, NEW s \in Starts, pc[s] \in Ending, Publish(s)
  PROVE  /\ found[s] \in Session
         /\ sessions[found[s].id] \in {None, found[s]}
         /\ sessions' = IF inserted[s] = None THEN sessions
                        ELSE [sessions EXCEPT ![found[s].id] = found[s]]
         /\ inserted[s] = None => sessions[found[s].id] = found[s]
         /\ inserted[s] # None => sessions[found[s].id] = None
         /\ UNCHANGED <<revokedAt, events>>
         /\ revokedAt[found[s].device] = None
         /\ revokedAt[found[s].agent] = None
  <1>1. row[s] \in Session /\ row[s].id \in SessionIds
    BY DEF IInv, KindInv, Ending, Session
  <1>2. found[s] = Stored(s) /\ Stored(s) # None /\ SameSession(found[s], row[s])
    BY DEF IInv, InsertInv, Ending, PastInsert
  <1>3. inserted[s] # None => found[s] = row[s] /\ inserted[s] = row[s] /\ sessions[row[s].id] = None
    BY <1>2 DEF IInv, InsertInv, Stored
  <1>4. inserted[s] = None => found[s] = sessions[row[s].id] /\ found[s].id = row[s].id
    BY <1>1, <1>2 DEF IInv, InsertInv, Stored
  <1>5. found[s] \in Session
    BY <1>1, <1>2, <1>3, <1>4 DEF IInv, TypeOK
  <1>6. found[s].device = row[s].device /\ found[s].agent = row[s].agent
    BY <1>2 DEF SameSession
  <1>7. revokedAt[found[s].device] = None /\ revokedAt[found[s].agent] = None
    BY <1>6, PublishedWhileLive
  <1>8. s \notin marked /\ s \notin queued
    BY ConstantsAssumption DEF IInv, TypeOK
  <1>9. UNCHANGED <<revokedAt, events>>
    BY <1>8 DEF Publish, IInv, TypeOK
  <1>10. sessions' = IF inserted[s] = None THEN sessions
                     ELSE [sessions EXCEPT ![found[s].id] = found[s]]
    <2>1. sessions' = [id \in SessionIds |->
                         IF inserted[s] # None /\ inserted[s].id = id THEN inserted[s] ELSE sessions[id]]
      BY DEF Publish
    <2>2. sessions = [id \in SessionIds |-> sessions[id]]
      BY DEF IInv, TypeOK
    <2>3. CASE inserted[s] = None
      BY <2>1, <2>2, <2>3
    <2>4. CASE inserted[s] # None
      BY <1>3, <2>1, <2>2, <2>4
    <2>5. QED
      BY <2>3, <2>4
  <1>11. QED
    BY <1>1, <1>3, <1>4, <1>5, <1>7, <1>9, <1>10

\* The commit of a Revoke announces what it revokes, or changes nothing.
LEMMA RevokePublishes ==
  ASSUME IInv, NEW r \in Revokes, pc[r] \in Ending, Publish(r)
  PROVE  /\ UNCHANGED sessions
         /\ \/ UNCHANGED <<revokedAt, events>>
            \/ \E a \in Aggregates : /\ a \notin Revoked
                                     /\ Revoked' = Revoked \cup {a}
                                     /\ Announced' = Announced \cup {a}
  <1> DEFINE a == intent[r].aggregate
  <1>1. UNCHANGED sessions
    BY ConstantsAssumption DEF Publish, IInv, TypeOK
  <1>2. a \in Aggregates /\ intent[r].at \in Times
    BY DEF IInv, KindInv, Ending, Intent
  <1>3. CASE r \notin marked
    <2>1. r \notin queued
      BY <1>3 DEF IInv, RevokeInv
    <2>2. QED
      BY <1>1, <1>3, <2>1 DEF Publish, IInv, TypeOK
  <1>4. CASE r \in marked
    <2>1. r \in queued /\ revokedAt[a] = None
      BY <1>4 DEF IInv, RevokeInv
    <2>2. events' = events \cup {EventOf(r)} /\ EventOf(r).aggregate = a
      BY <2>1 DEF Publish, EventOf
    <2>3. \A b \in Aggregates : revokedAt'[b] = (IF b = a THEN intent[r].at ELSE revokedAt[b])
      BY <1>4 DEF Publish
    <2>4. intent[r].at # None
      BY <1>2, ConstantsAssumption
    <2>5. a \notin Revoked /\ Revoked' = Revoked \cup {a}
      BY <1>2, <2>1, <2>3, <2>4 DEF Revoked
    <2>6. Announced' = Announced \cup {a}
      BY <2>2 DEF Announced
    <2>7. QED
      BY <1>1, <1>2, <2>5, <2>6
  <1>5. QED
    BY <1>3, <1>4

\* Every step of the transactions is a step of the authority or a stutter.
LEMMA AuthorityStep == IInv /\ [Next]_vars => [Authority!Next]_(Authority!vars)
  <1> SUFFICES ASSUME IInv, [Next]_vars PROVE [Authority!Next]_(Authority!vars)
    OBVIOUS
  <1> USE DEF Authority!vars, Authority!Next
  <1>1. CASE UNCHANGED vars
    BY <1>1 DEF vars, tables, asked
  <1>2. ASSUME NEW s \in Starts, Commit(s) PROVE \E q \in Session : Authority!Grant(s, q)
    <2>1. pc[s] \in Ending /\ Publish(s) /\ answer' = [answer EXCEPT ![s] = "ok"] /\ UNCHANGED found
      BY <1>2 DEF Commit, Advance, Ending, asked
    <2>2. Granted' = [Granted EXCEPT ![s] = found[s]]
      BY <2>1 DEF Granted, IInv, TypeOK, Calls
    <2>3. sessions' = [sessions EXCEPT ![found[s].id] = found[s]]
      BY <2>1, StartPublishes DEF IInv, TypeOK
    <2>4. PICK q \in Session : q = found[s]
      BY <2>1, StartPublishes
    <2>5. Authority!Grant(s, q)
      BY <2>1, <2>2, <2>3, <2>4, StartPublishes DEF Authority!Grant, Authority!Live, Granted
    <2>6. QED
      BY <2>5
  <1>3. ASSUME Next, NEW s \in Starts, SettleCommitted(s)
        PROVE  [Authority!Next]_(Authority!vars)
    <2>1. pc[s] \in Ending /\ Publish(s) /\ UNCHANGED <<found, answer>>
      BY <1>3 DEF SettleCommitted, Advance, Ending, asked
    <2>2. PICK q \in Session : q = found[s]
      BY <2>1, StartPublishes
    <2>3. CASE inserted[s] = None
      <3>1. UNCHANGED sessions
        BY <2>1, <2>3, StartPublishes
      <3>2. QED
        BY <2>1, <3>1, StartPublishes
    <2>4. CASE inserted[s] # None
      <3>1. sessions' = [sessions EXCEPT ![found[s].id] = found[s]]
        BY <2>1, <2>4, StartPublishes
      <3>2. Authority!Issue(q)
        BY <2>1, <2>2, <2>4, <3>1, StartPublishes DEF Authority!Issue, Authority!Live
      <3>3. QED
        BY <3>2
    <2>5. QED
      BY <2>3, <2>4
  <1>4. ASSUME Next, NEW r \in Revokes, Commit(r) \/ SettleCommitted(r)
        PROVE  [Authority!Next]_(Authority!vars)
    <2>1. pc[r] \in Ending /\ Publish(r) /\ UNCHANGED found
      BY <1>4 DEF Commit, SettleCommitted, Advance, Ending, asked
    <2>2. \A s \in Starts : answer'[s] = answer[s]
      BY <1>4, ConstantsAssumption DEF Commit, SettleCommitted, IInv, TypeOK, Calls
    <2>3. Granted' = Granted
      BY <2>1, <2>2 DEF Granted
    <2>4. UNCHANGED sessions
      BY <2>1, RevokePublishes
    <2>5. CASE UNCHANGED <<revokedAt, events>>
      BY <2>3, <2>4, <2>5 DEF Granted
    <2>6. ASSUME NEW a \in Aggregates, a \notin Revoked, Revoked' = Revoked \cup {a},
                 Announced' = Announced \cup {a}
          PROVE  Authority!Revoke(a)
      BY <2>3, <2>4, <2>6 DEF Authority!Revoke, Granted, Revoked, Announced
    <2>7. QED
      BY <2>1, <2>5, <2>6, RevokePublishes
  <1>5. ASSUME Next, UNCHANGED tables, \A c \in Calls : ~Commit(c)
        PROVE  UNCHANGED Authority!vars
    BY <1>5, GrantedKept DEF Granted, tables
  <1>6. ASSUME Next, \A c \in Calls : ~(Commit(c) \/ SettleCommitted(c))
        PROVE  UNCHANGED tables
    BY <1>6, NextCases DEF StartBegin, AuthorizeDevice, AuthorizeAgent, Authorize, AuthorizeProject,
       InsertSession, ReadSession, RevokeBegin, LockAggregate, MarkRevoked, EnqueueEvent,
       LoseCommit, SettleAborted, Fail, Return, vars
  <1>7. QED
    <2>1. CASE \E s \in Starts : Commit(s)
      BY <1>2, <2>1
    <2>2. CASE \E c \in Calls : SettleCommitted(c) \/ (c \in Revokes /\ Commit(c))
      BY <1>1, <1>3, <1>4, <2>2 DEF Calls
    <2>3. CASE \A c \in Calls : ~(Commit(c) \/ SettleCommitted(c))
      BY <1>1, <1>5, <1>6, <2>3
    <2>4. QED
      BY <2>1, <2>2, <2>3 DEF Calls

\* The transactions implement the atomic authority: a session is granted or
\* issued while its device and agent are live, under an id that keeps its row,
\* and a revocation is announced as it happens.
THEOREM Refinement == Spec => ImplementsAuthority
  <1>1. Spec => Authority!Spec
    BY AuthorityInit, AuthorityStep, Invariant, PTL DEF Spec, Authority!Spec
  <1>2. QED
    BY <1>1 DEF ImplementsAuthority
=============================================================================
