---------------------------- MODULE SessionIssuance ----------------------------
(***************************************************************************)
(* The control plane's write transactions against PostgreSQL:              *)
(*   - session.Service.Start: authorize the device, the agent and the      *)
(*     project, insert the session row or find it, commit;                 *)
(*   - device.Repository.Revoke and workspace.Repository.RevokeAgent: lock *)
(*     the row, set revoked_at, enqueue the outbox event, commit.          *)
(* Each statement is a step.  The row locks and the unique key of          *)
(* session.sessions are part of the state, transactions are READ           *)
(* COMMITTED, and a commit may go unanswered: the caller is told that the  *)
(* outcome is unknown while the server still decides it.                   *)
(*                                                                         *)
(* Devices and agents are revoked by the same code shape and are both      *)
(* "aggregates" here.  The clocks of the API instances are not related: a  *)
(* reading is any member of Times.                                         *)
(***************************************************************************)
EXTENDS Naturals, FiniteSets

CONSTANTS Users, Devices, Agents, Projects, SessionIds, Regions, Times,
          Owner,        \* the user_id column of every device, agent and project
          CreatedAt,    \* their paired_at / created_at column
          ProjectAgent, \* the agent of each project's environment
          Starts,       \* the Start calls
          Revokes,      \* the Revoke and RevokeAgent calls
          Requests,     \* the requests the callers of Start make
          Revocations,  \* the requests the callers of Revoke make
          None

Aggregates == Devices \cup Agents
Calls == Starts \cup Revokes

Request == [owner: Users, id: SessionIds, device: Devices, agent: Agents, project: Projects]
Session == [owner: Users, id: SessionIds, device: Devices, agent: Agents, project: Projects,
            region: Regions, startedAt: Times]
Revocation == [actor: Users, aggregate: Aggregates]
Intent == [actor: Users, aggregate: Aggregates, at: Times]
Event == [by: Revokes, aggregate: Aggregates, availableAt: Times]

ASSUME ConstantsAssumption ==
  /\ Starts \cap Revokes = {}
  /\ Times \subseteq Nat
  /\ Requests \subseteq Request
  /\ Revocations \subseteq Revocation
  /\ Owner \in [Aggregates \cup Projects -> Users]
  /\ CreatedAt \in [Aggregates \cup Projects -> Nat]
  /\ ProjectAgent \in [Projects -> Agents]
  /\ None \notin Times \cup Session \cup Intent

VARIABLES
  revokedAt, \* committed revoked_at column of every aggregate
  sessions,  \* committed rows of session.sessions
  events,    \* committed rows of outbox.events
  shared,    \* FOR SHARE locks: the Starts that hold one on each aggregate
  exclusive, \* FOR UPDATE locks: the Revokes that hold one on each aggregate
  inserted,  \* the uncommitted session row of each Start, if it inserted one
  marked,    \* Revokes whose transaction has set revoked_at
  queued,    \* Revokes whose transaction has inserted its outbox event
  pc,        \* the statement each call is about to execute
  row,       \* the session each Start asks for
  found,     \* the session each Start read back
  intent,    \* what each Revoke asks for
  answer     \* what each caller was told

tables == <<revokedAt, sessions, events>>
locks == <<shared, exclusive>>
writes == <<inserted, marked, queued>>
asked == <<row, found, intent>>
vars == <<tables, locks, writes, pc, asked, answer>>

StartSteps == {"device", "agent", "project", "insert", "read", "commit"}
RevokeSteps == {"lock", "update", "enqueue", "commit"}
Open(c) == pc[c] \notin {"idle", "done"}          \* its transaction is open
Working(c) == Open(c) /\ pc[c] \notin {"commit", "inDoubt"} \* and a failure rolls it back

Init ==
  /\ revokedAt = [a \in Aggregates |-> None]
  /\ sessions = [id \in SessionIds |-> None]
  /\ events = {}
  /\ shared = [a \in Aggregates |-> {}]
  /\ exclusive = [a \in Aggregates |-> {}]
  /\ inserted = [s \in Starts |-> None]
  /\ marked = {}
  /\ queued = {}
  /\ pc = [c \in Calls |-> "idle"]
  /\ row = [s \in Starts |-> None]
  /\ found = [s \in Starts |-> None]
  /\ intent = [r \in Revokes |-> None]
  /\ answer = [c \in Calls |-> "none"]

Advance(c, from, to) == pc[c] = from /\ pc' = [pc EXCEPT ![c] = to]

\* Mutant of EndTransaction: the shared locks outlive the transaction.
EndTransaction_KeepsShared(c) ==
  /\ UNCHANGED shared
  /\ exclusive' = [a \in Aggregates |-> exclusive[a] \ {c}]
  /\ inserted' = [s \in Starts |-> IF s = c THEN None ELSE inserted[s]]
  /\ marked' = marked \ {c}
  /\ queued' = queued \ {c}

\* The end of a transaction releases its locks and forgets its private writes.
EndTransaction(c) ==
  /\ shared' = [a \in Aggregates |-> shared[a] \ {c}]
  /\ exclusive' = [a \in Aggregates |-> exclusive[a] \ {c}]
  /\ inserted' = [s \in Starts |-> IF s = c THEN None ELSE inserted[s]]
  /\ marked' = marked \ {c}
  /\ queued' = queued \ {c}

\* The deferred rollback of an early return, which tells the caller verdict.
Return(c, verdict) ==
  /\ EndTransaction(c)
  /\ pc' = [pc EXCEPT ![c] = "done"]
  /\ answer' = [answer EXCEPT ![c] = verdict]
  /\ UNCHANGED <<tables, asked>>

-----------------------------------------------------------------------------
(* Service.Start *)

\* startedAt is read before the transaction begins; region is the serving
\* instance's configuration, not the caller's.
StartBegin(s) ==
  /\ Advance(s, "idle", "device")
  /\ \E q \in Requests, region \in Regions, startedAt \in Times :
       row' = [row EXCEPT ![s] =
                 [owner |-> q.owner, id |-> q.id, device |-> q.device, agent |-> q.agent,
                  project |-> q.project, region |-> region, startedAt |-> startedAt]]
  /\ UNCHANGED <<tables, locks, writes, found, intent, answer>>

\* The WHERE clause of the two authorization queries, at the instance's clock.
Usable(a, actor, checkedAt) ==
  /\ Owner[a] = actor
  /\ revokedAt[a] = None
  /\ CreatedAt[a] <= checkedAt

\* Mutant of Authorize: a plain SELECT, without FOR SHARE.
Authorize_Unlocked(s, a, from, to) ==
  /\ Advance(s, from, to)
  /\ Usable(a, row[s].owner, CreatedAt[a])
  /\ UNCHANGED <<tables, locks, writes, asked, answer>>

\* SELECT ... FOR SHARE: waits for an uncommitted revocation of a row that
\* matches, and then looks at the row again.
Authorize(s, a, from, to) ==
  /\ pc[s] = from
  /\ \E checkedAt \in Times :
       \/ /\ Usable(a, row[s].owner, checkedAt)
          /\ exclusive[a] = {}
          /\ shared' = [shared EXCEPT ![a] = @ \cup {s}]
          /\ Advance(s, from, to)
          /\ UNCHANGED <<tables, exclusive, writes, asked, answer>>
       \/ /\ ~Usable(a, row[s].owner, checkedAt)
          /\ Return(s, "denied")

AuthorizeDevice(s) == Authorize(s, row[s].device, "device", "agent")
AuthorizeAgent(s) == Authorize(s, row[s].agent, "agent", "project")

\* The project's own row, its environment's agent and the creation order.  It
\* does not look at revocation, and no one locks these rows exclusively.
ProjectBound(p, actor, agent, checkedAt) ==
  /\ Owner[p] = actor
  /\ ProjectAgent[p] = agent
  /\ Owner[agent] = actor
  /\ CreatedAt[agent] <= CreatedAt[p]
  /\ CreatedAt[p] <= checkedAt

AuthorizeProject(s) ==
  /\ pc[s] = "project"
  /\ \E checkedAt \in Times :
       \/ /\ ProjectBound(row[s].project, row[s].owner, row[s].agent, checkedAt)
          /\ Advance(s, "project", "insert")
          /\ UNCHANGED <<tables, locks, writes, asked, answer>>
       \/ /\ ~ProjectBound(row[s].project, row[s].owner, row[s].agent, checkedAt)
          /\ Return(s, "denied")

\* Mutant of InsertSession: ON CONFLICT (id) DO UPDATE.
InsertSession_Overwrites(s) ==
  /\ Advance(s, "insert", "read")
  /\ \A other \in Starts \ {s} : inserted[other] # None => inserted[other].id # row[s].id
  /\ inserted' = [inserted EXCEPT ![s] = row[s]]
  /\ UNCHANGED <<tables, locks, marked, queued, asked, answer>>

\* INSERT ... ON CONFLICT (id) DO NOTHING: waits for another transaction's
\* uncommitted row of the same id.
InsertSession(s) ==
  /\ Advance(s, "insert", "read")
  /\ \A other \in Starts \ {s} : inserted[other] # None => inserted[other].id # row[s].id
  /\ inserted' = IF sessions[row[s].id] = None
                 THEN [inserted EXCEPT ![s] = row[s]] ELSE inserted
  /\ UNCHANGED <<tables, locks, marked, queued, asked, answer>>

Stored(s) == IF inserted[s] # None THEN inserted[s] ELSE sessions[row[s].id]

\* Mutant of SameSession: the device is not compared.
SameSession_AnyDevice(stored, requested) ==
  \A field \in {"owner", "agent", "project", "region"} : stored[field] = requested[field]

SameSession(stored, requested) ==
  \A field \in {"owner", "device", "agent", "project", "region"} : stored[field] = requested[field]

\* SELECT ... WHERE id AND user_id FOR SHARE, and the comparison that follows.
ReadSession(s) ==
  /\ pc[s] = "read"
  /\ \/ /\ SameSession(Stored(s), row[s])
        /\ found' = [found EXCEPT ![s] = Stored(s)]
        /\ Advance(s, "read", "commit")
        /\ UNCHANGED <<tables, locks, writes, row, intent, answer>>
     \/ /\ ~SameSession(Stored(s), row[s])
        /\ Return(s, "denied")

-----------------------------------------------------------------------------
(* device.Repository.Revoke and workspace.Repository.RevokeAgent *)

RevokeBegin(r) ==
  /\ Advance(r, "idle", "lock")
  /\ \E v \in Revocations, revokedNow \in Times :
       intent' = [intent EXCEPT ![r] =
                    [actor |-> v.actor, aggregate |-> v.aggregate, at |-> revokedNow]]
  /\ UNCHANGED <<tables, locks, writes, row, found, answer>>

\* Mutants of LockAggregate: an already revoked row is revoked once more; the
\* row is locked FOR SHARE.
LockAggregate_Again(r) ==
  LET a == intent[r].aggregate IN
  /\ Advance(r, "lock", "update")
  /\ Owner[a] = intent[r].actor
  /\ shared[a] = {} /\ exclusive[a] = {}
  /\ exclusive' = [exclusive EXCEPT ![a] = @ \cup {r}]
  /\ UNCHANGED <<tables, shared, writes, asked, answer>>

LockAggregate_Shared(r) ==
  LET a == intent[r].aggregate IN
  /\ Advance(r, "lock", "update")
  /\ Owner[a] = intent[r].actor
  /\ exclusive[a] = {}
  /\ shared' = [shared EXCEPT ![a] = @ \cup {r}]
  /\ UNCHANGED <<tables, exclusive, writes, asked, answer>>

\* SELECT ... FOR UPDATE: no row for a foreign owner; otherwise the lock, and
\* one of the three ways on.
LockAggregate(r) ==
  LET a == intent[r].aggregate IN
  /\ pc[r] = "lock"
  /\ \/ /\ Owner[a] # intent[r].actor
        /\ Return(r, "denied")
     \/ /\ Owner[a] = intent[r].actor
        /\ shared[a] = {} /\ exclusive[a] = {}
        /\ \/ /\ revokedAt[a] = None
              /\ intent[r].at < CreatedAt[a]
              /\ Return(r, "invalid")
           \/ /\ revokedAt[a] = None => intent[r].at >= CreatedAt[a]
              /\ exclusive' = [exclusive EXCEPT ![a] = @ \cup {r}]
              /\ pc' = [pc EXCEPT ![r] = IF revokedAt[a] = None THEN "update" ELSE "commit"]
              /\ UNCHANGED <<tables, shared, writes, asked, answer>>

MarkRevoked(r) ==
  /\ Advance(r, "update", "enqueue")
  /\ marked' = marked \cup {r}
  /\ UNCHANGED <<tables, locks, inserted, queued, asked, answer>>

EnqueueEvent(r) ==
  /\ Advance(r, "enqueue", "commit")
  /\ queued' = queued \cup {r}
  /\ UNCHANGED <<tables, locks, inserted, marked, asked, answer>>

-----------------------------------------------------------------------------
(* The end of either transaction *)

EventOf(r) == [by |-> r, aggregate |-> intent[r].aggregate, availableAt |-> intent[r].at]

\* What a commit makes visible: the session row of a Start that inserted one,
\* the revoked_at and the event of a Revoke that wrote them.
Publish(c) ==
  /\ sessions' = [id \in SessionIds |->
                    IF c \in Starts /\ inserted[c] # None /\ inserted[c].id = id
                    THEN inserted[c] ELSE sessions[id]]
  /\ revokedAt' = [a \in Aggregates |->
                     IF c \in marked /\ intent[c].aggregate = a THEN intent[c].at ELSE revokedAt[a]]
  /\ events' = IF c \in queued THEN events \cup {EventOf(c)} ELSE events

\* The server confirms the commit and the call returns success.
Commit(c) ==
  /\ Advance(c, "commit", "done")
  /\ Publish(c)
  /\ EndTransaction(c)
  /\ answer' = [answer EXCEPT ![c] = "ok"]
  /\ UNCHANGED asked

\* Mutant of LoseCommit: an error that follows the COMMIT is taken for success.
LoseCommit_Assumed(c) ==
  /\ Advance(c, "commit", "inDoubt")
  /\ answer' = [answer EXCEPT ![c] = "ok"]
  /\ UNCHANGED <<tables, locks, writes, asked>>

\* tx.Commit returns an error, whether or not the server received the commit.
\* Only Start tells its caller that the outcome is unknown.
LoseCommit(c) ==
  /\ Advance(c, "commit", "inDoubt")
  /\ answer' = [answer EXCEPT ![c] = IF c \in Starts THEN "unknown" ELSE "unavailable"]
  /\ UNCHANGED <<tables, locks, writes, asked>>

\* The server decides a commit that the caller no longer waits for.
SettleCommitted(c) ==
  /\ Advance(c, "inDoubt", "done")
  /\ Publish(c)
  /\ EndTransaction(c)
  /\ UNCHANGED <<asked, answer>>

SettleAborted(c) ==
  /\ Advance(c, "inDoubt", "done")
  /\ EndTransaction(c)
  /\ UNCHANGED <<tables, asked, answer>>

\* A statement fails, the operation deadline passes, the caller cancels or the
\* process dies before the commit: PostgreSQL rolls the transaction back.
Fail(c) ==
  /\ Working(c)
  /\ Return(c, "unavailable")

StartStep(s) ==
  \/ AuthorizeDevice(s) \/ AuthorizeAgent(s) \/ AuthorizeProject(s)
  \/ InsertSession(s) \/ ReadSession(s)

RevokeStep(r) == LockAggregate(r) \/ MarkRevoked(r) \/ EnqueueEvent(r)

EndStep(c) == Commit(c) \/ LoseCommit(c) \/ SettleCommitted(c) \/ SettleAborted(c)

\* Every call has returned and every transaction has ended.
Finished ==
  /\ \A c \in Calls : pc[c] = "done"
  /\ UNCHANGED vars

Next ==
  \/ \E s \in Starts : StartBegin(s) \/ StartStep(s)
  \/ \E r \in Revokes : RevokeBegin(r) \/ RevokeStep(r)
  \/ \E c \in Calls : EndStep(c) \/ Fail(c)
  \/ Finished

\* A call that has begun runs on, and the server settles what is in doubt.
\* Nothing is assumed about new calls or about failures.
Fairness ==
  /\ \A s \in Starts : WF_vars(StartStep(s))
  /\ \A r \in Revokes : WF_vars(RevokeStep(r))
  /\ \A c \in Calls : WF_vars(EndStep(c))

Spec == Init /\ [][Next]_vars
FairSpec == Spec /\ Fairness

-----------------------------------------------------------------------------
(* Properties *)

\* Every variable holds a value of the kind the code keeps in it.
TypeOK ==
  /\ revokedAt \in [Aggregates -> Times \cup {None}]
  /\ sessions \in [SessionIds -> Session \cup {None}]
  /\ events \subseteq Event
  /\ shared \in [Aggregates -> SUBSET Starts]
  /\ exclusive \in [Aggregates -> SUBSET Revokes]
  /\ inserted \in [Starts -> Session \cup {None}]
  /\ marked \subseteq Revokes
  /\ queued \subseteq Revokes
  /\ pc \in [Calls -> {"idle", "inDoubt", "done"} \cup StartSteps \cup RevokeSteps]
  /\ row \in [Starts -> Session \cup {None}]
  /\ found \in [Starts -> Session \cup {None}]
  /\ intent \in [Revokes -> Intent \cup {None}]
  /\ answer \in [Calls -> {"none", "ok", "denied", "invalid", "unavailable", "unknown"}]

\* Either a session is issued before the revocation of its device or agent
\* commits, or it is not issued at all: no session row appears once the
\* committed state says that its device or its agent is revoked, however the
\* statements of the two transactions interleave (device/README.md).
IssuedOnlyWhileLive ==
  [][\A id \in SessionIds : sessions[id] = None /\ sessions'[id] # None =>
        /\ revokedAt[sessions'[id].device] = None
        /\ revokedAt[sessions'[id].agent] = None]_vars

\* A revocation and its outbox event commit together, and a repeated, raced or
\* retried revocation adds no second event and keeps the first time.
OneEventPerRevocation ==
  \A a \in Aggregates :
    LET announcing == {e \in events : e.aggregate = a} IN
    IF revokedAt[a] = None THEN announcing = {}
    ELSE \E e \in announcing : announcing = {e} /\ e.availableAt = revokedAt[a]

\* A caller that is told its session started finds the committed row to be the
\* one it was told, and that row is the one it asked for in all but the time;
\* so two retries of one id that both succeed were told the same session.  A
\* caller that is told a revocation succeeded can rely on it.
AnswersAreTrue ==
  /\ \A s \in Starts : answer[s] = "ok" =>
       /\ sessions[row[s].id] = found[s]
       /\ [found[s] EXCEPT !.startedAt = row[s].startedAt] = row[s]
  /\ \A r \in Revokes : answer[r] = "ok" => revokedAt[intent[r].aggregate] # None

\* Committed history is never rewritten: a session row keeps its first owner,
\* device, region and time whatever is retried under its id, revoked_at keeps
\* its first value, and no outbox row is withdrawn.
HistoryIsKept ==
  [][/\ \A id \in SessionIds : sessions[id] # None => sessions'[id] = sessions[id]
     /\ \A a \in Aggregates : revokedAt[a] # None => revokedAt'[a] = revokedAt[a]
     /\ events \subseteq events']_vars

\* Every call that begins is answered and every transaction ends, so nobody
\* waits for ever on a row lock or on another's uncommitted key: the two
\* transactions take their locks in compatible orders.
EveryCallEnds == \A c \in Calls : Open(c) ~> pc[c] = "done"

\* The transactions together behave as the atomic authority.
Authority == INSTANCE SessionAuthority WITH
  Calls <- Starts,
  issued <- sessions,
  revoked <- {a \in Aggregates : revokedAt[a] # None},
  announced <- {e.aggregate : e \in events},
  granted <- [s \in Starts |-> IF answer[s] = "ok" THEN found[s] ELSE None]

\* What commits, and what callers are told, is what SessionAuthority allows:
\* a retry is granted only while its device and agent are still live, too.
ImplementsAuthority == Authority!Spec
===============================================================================
