----------------------------- MODULE OutboxWorker -----------------------------
(***************************************************************************)
(* The worker processes that drain outbox.events: runProcessingLoop around *)
(* Processor.ProcessNext, with Repository.Claim and Repository.Finish as   *)
(* its statements.  One transaction claims a due row FOR UPDATE SKIP       *)
(* LOCKED, calls the handler with the row locked, records the outcome and  *)
(* commits.                                                                *)
(*                                                                         *)
(* The database decides apart from the workers: a connection can break     *)
(* under a running handler, which frees the row; a commit can fail at the  *)
(* worker and be applied or not by the server later; a worker can die with *)
(* its row locked until the server notices.  Every worker has a wall clock *)
(* of its own, which can be set back (time.Now().UTC() has no monotonic    *)
(* part).  An event row appears at any time, with the instant of the API   *)
(* server that enqueued it.                                                *)
(***************************************************************************)
EXTENDS Integers

CONSTANTS Events, Workers,
          MaxAttempts,   \* maxDeliveryAttempts, 5 in the code
          IntegerMax,    \* the largest PostgreSQL integer, 2147483647 in the code
          Malformed,     \* events that parseEvent or the SQL length checks refuse
          AvailableAt,   \* available_at of each event when it is enqueued
          Attempted,     \* attempt_count of each event when it is enqueued
          Never,         \* a timestamp that is not finite
          MaxFaults,     \* bound: how many things go wrong in a behaviour
          Horizon,       \* bound: how far a clock runs while no event is waiting for it
          None

Verdicts == {"ok", "late", "failed", "refused"}
Conclusions == {"completed", "invalid", "permanent", "exhausted"}
Results == Conclusions \cup {"retry"}
RetryDelay == 1

Row == [outcome: Conclusions \cup {"pending"}, availableAt: Nat \cup {Never}, attempts: 0..IntegerMax]
Ending == [result: Results \cup {"rollback"}, at: Nat]

ASSUME ConstantsAssumption ==
  /\ MaxAttempts \in Nat \ {0}
  /\ IntegerMax \in Nat
  /\ MaxAttempts <= IntegerMax
  /\ Malformed \subseteq Events
  /\ AvailableAt \in [Events -> Nat \cup {Never}]
  /\ Attempted \in [Events -> 0..IntegerMax]
  /\ Never \notin Nat
  /\ MaxFaults \in Nat
  /\ Horizon \in Nat
  /\ None \notin Events \cup Workers \cup Row \cup Ending

VARIABLES
  rows,       \* committed row of each event, None before it is enqueued
  holder,     \* the worker whose open transaction has the row locked
  limbo,      \* how the server will end a transaction that its worker has left
  pc,         \* where each worker's ProcessNext is
  claim,      \* the event each worker has claimed
  readAt,     \* the worker's last clock reading: claimedAt, then finishedAt
  result,     \* the finishOutcome the worker has chosen
  clock,      \* the wall clock of each worker
  faults,     \* faults so far
  deliveries, \* history: handler calls begun, per event
  verdicts,   \* history: what the handler answered, per event
  lost        \* history: claims of each event that were rolled back

locks == <<holder, limbo>>
tx == <<claim, readAt, result>>
history == <<deliveries, verdicts, lost>>
vars == <<rows, locks, pc, tx, clock, faults, history>>

Init ==
  /\ rows = [e \in Events |-> None]
  /\ holder = [e \in Events |-> None]
  /\ limbo = [e \in Events |-> None]
  /\ pc = [w \in Workers |-> "idle"]
  /\ claim = [w \in Workers |-> None]
  /\ readAt = [w \in Workers |-> 0]
  /\ result = [w \in Workers |-> "retry"]
  /\ clock = [w \in Workers |-> 0]
  /\ faults = 0
  /\ deliveries = [e \in Events |-> 0]
  /\ verdicts = [e \in Events |-> {}]
  /\ lost = [e \in Events |-> 0]

Pending(e) == rows[e] # None /\ rows[e].outcome = "pending"
Locked(e) == holder[e] # None \/ limbo[e] # None

\* Mutant of Invalid: the infinity of a timestamp is not looked at.
Invalid_AnyTimestamp(e) == e \in Malformed

\* The columns Claim refuses to make an event of.
Invalid(e) == e \in Malformed \/ rows[e].availableAt = Never

\* A fault happens, within the bound.
Fault == faults < MaxFaults /\ faults' = faults + 1

\* The worker's transaction ends on its side; the server will end its own as
\* ending says, unless it has already dropped it.
Leave(w, ending, to) ==
  /\ holder' = [e \in Events |-> IF holder[e] = w THEN None ELSE holder[e]]
  /\ limbo' = [e \in Events |-> IF holder[e] = w THEN ending ELSE limbo[e]]
  /\ pc' = [pc EXCEPT ![w] = to]
  /\ claim' = [claim EXCEPT ![w] = None]
  /\ readAt' = [readAt EXCEPT ![w] = 0]
  /\ result' = [result EXCEPT ![w] = "retry"]

RolledBack == [result |-> "rollback", at |-> 0]

\* An event row is committed by the control plane.
Enqueue(e) ==
  /\ rows[e] = None
  /\ rows' = [rows EXCEPT ![e] = [outcome |-> "pending", availableAt |-> AvailableAt[e],
                                   attempts |-> Attempted[e]]]
  /\ UNCHANGED <<locks, pc, tx, clock, faults, history>>

-----------------------------------------------------------------------------
(* ProcessNext *)

\* claimedAt is read before the transaction begins.
Poll(w) ==
  /\ pc[w] = "idle"
  /\ pc' = [pc EXCEPT ![w] = "claim"]
  /\ readAt' = [readAt EXCEPT ![w] = clock[w]]
  /\ UNCHANGED <<rows, locks, claim, result, clock, faults, history>>

\* Mutants of Due: rows that are locked, or already processed, are claimed;
\* rows with an infinite timestamp are not.
Due_Locked(e, now) ==
  /\ Pending(e)
  /\ rows[e].availableAt # Never => rows[e].availableAt <= now

Due_Processed(e, now) ==
  /\ rows[e] # None
  /\ ~Locked(e)
  /\ rows[e].availableAt # Never => rows[e].availableAt <= now

Due_Finite(e, now) ==
  /\ Pending(e)
  /\ ~Locked(e)
  /\ rows[e].availableAt # Never /\ rows[e].availableAt <= now

\* The WHERE clause of the claim and its SKIP LOCKED.
Due(e, now) ==
  /\ Pending(e)
  /\ ~Locked(e)
  /\ rows[e].availableAt # Never => rows[e].availableAt <= now

\* ORDER BY available_at; ties are broken by random ids.
NotAfter(e, f) ==
  rows[f].availableAt # Never =>
    rows[e].availableAt # Never /\ rows[e].availableAt <= rows[f].availableAt

\* Nothing is due: the loop waits for its poll delay and comes back.
ClaimNothing(w) ==
  /\ pc[w] = "claim"
  /\ \A e \in Events : ~Due(e, readAt[w])
  /\ Leave(w, RolledBack, "idle")
  /\ UNCHANGED <<rows, clock, faults, history>>

\* The first due row is locked.  A row that is not an event, or that has used up
\* its attempts, goes to Finish without the handler.
Claim(w) ==
  /\ pc[w] = "claim"
  /\ \E e \in Events :
       /\ Due(e, readAt[w])
       /\ \A f \in Events : Due(f, readAt[w]) => NotAfter(e, f)
       /\ holder' = [holder EXCEPT ![e] = w]
       /\ claim' = [claim EXCEPT ![w] = e]
       /\ \/ /\ Invalid(e)
             /\ result' = [result EXCEPT ![w] = "invalid"]
             /\ pc' = [pc EXCEPT ![w] = "finish"]
             /\ UNCHANGED deliveries
          \/ /\ ~Invalid(e) /\ rows[e].attempts >= MaxAttempts
             /\ result' = [result EXCEPT ![w] = "exhausted"]
             /\ pc' = [pc EXCEPT ![w] = "finish"]
             /\ UNCHANGED deliveries
          \/ /\ ~Invalid(e) /\ rows[e].attempts < MaxAttempts
             /\ pc' = [pc EXCEPT ![w] = "handling"]
             /\ deliveries' = [deliveries EXCEPT ![e] = @ + 1]
             /\ UNCHANGED result
  /\ UNCHANGED <<rows, limbo, readAt, clock, faults, verdicts, lost>>

\* Mutant of Outcome: a nil error after the deadline counts as success.
Outcome_LateIsOk(verdict, attempts) ==
  CASE verdict \in {"ok", "late"} -> "completed"
    [] verdict = "refused" -> "permanent"
    [] verdict = "failed" -> IF attempts + 1 >= MaxAttempts THEN "exhausted" ELSE "retry"

\* What the handler's answer makes of the row: "late" is a nil error after the
\* handler's deadline.
Outcome(verdict, attempts) ==
  CASE verdict = "ok" -> "completed"
    [] verdict = "refused" -> "permanent"
    [] verdict \in {"late", "failed"} -> IF attempts + 1 >= MaxAttempts THEN "exhausted" ELSE "retry"

HandlerReturns(w) ==
  /\ pc[w] = "handling"
  /\ \E verdict \in Verdicts :
       /\ verdicts' = [verdicts EXCEPT ![claim[w]] = @ \cup {verdict}]
       /\ result' = [result EXCEPT ![w] = Outcome(verdict, rows[claim[w]].attempts)]
  /\ pc' = [pc EXCEPT ![w] = "finish"]
  /\ UNCHANGED <<rows, locks, claim, readAt, clock, faults, deliveries, lost>>

\* finishedAt is read; the UPDATE by row locator succeeds when the transaction
\* is still there and the clock has not gone back.
Finish(w) ==
  /\ pc[w] = "finish"
  /\ \/ /\ clock[w] >= readAt[w] /\ holder[claim[w]] = w
        /\ pc' = [pc EXCEPT ![w] = "commit"]
        /\ readAt' = [readAt EXCEPT ![w] = clock[w]]
        /\ UNCHANGED <<locks, claim, result>>
     \/ /\ clock[w] < readAt[w] \/ holder[claim[w]] # w
        /\ Leave(w, RolledBack, "idle")
  /\ UNCHANGED <<rows, clock, faults, history>>

\* Mutant of Bumped: the CASE that keeps attempt_count an integer is dropped.
Bumped_Unguarded(attempts) == attempts + 1

Bumped(attempts) == IF attempts < IntegerMax THEN attempts + 1 ELSE attempts

\* Mutant of Updated: a retry is not counted.
Updated_UncountedRetry(old, ending) ==
  IF ending.result = "retry"
  THEN [old EXCEPT !.availableAt = ending.at + RetryDelay]
  ELSE [old EXCEPT !.outcome = ending.result, !.attempts = Bumped(@)]

\* The row that the UPDATE of Finish leaves.
Updated(old, ending) ==
  IF ending.result = "retry"
  THEN [old EXCEPT !.availableAt = ending.at + RetryDelay, !.attempts = Bumped(@)]
  ELSE [old EXCEPT !.outcome = ending.result, !.attempts = Bumped(@)]

EndingOf(w) == [result |-> result[w], at |-> readAt[w]]

Commit(w) ==
  /\ pc[w] = "commit"
  /\ rows' = [rows EXCEPT ![claim[w]] = Updated(@, EndingOf(w))]
  /\ Leave(w, None, "idle")
  /\ UNCHANGED <<clock, faults, history>>

-----------------------------------------------------------------------------
(* What goes wrong *)

\* ErrProcessOutcomeUnknown: the loop goes on and the server decides later.
LoseCommit(w) ==
  /\ pc[w] = "commit"
  /\ Fault
  /\ Leave(w, EndingOf(w), "idle")
  /\ UNCHANGED <<rows, clock, history>>

\* A statement fails or runs into a deadline: ProcessNext rolls back and returns.
Fail(w) ==
  /\ pc[w] \in {"claim", "finish"}
  /\ Fault
  /\ Leave(w, RolledBack, "idle")
  /\ UNCHANGED <<rows, clock, history>>

\* The connection breaks and the server drops the transaction while the worker
\* is still in the handler, or about to finish.
Disconnect(w) ==
  /\ pc[w] \in {"handling", "finish"}
  /\ holder[claim[w]] = w
  /\ Fault
  /\ holder' = [holder EXCEPT ![claim[w]] = None]
  /\ lost' = [lost EXCEPT ![claim[w]] = @ + 1]
  /\ UNCHANGED <<rows, limbo, pc, tx, clock, deliveries, verdicts>>

\* The process is stopped or dies, at any point.
Stop(w) ==
  /\ pc[w] # "down"
  /\ Fault
  /\ Leave(w, IF pc[w] = "commit" THEN EndingOf(w) ELSE RolledBack, "down")
  /\ UNCHANGED <<rows, clock, history>>

Start(w) ==
  /\ pc[w] = "down"
  /\ pc' = [pc EXCEPT ![w] = "idle"]
  /\ UNCHANGED <<rows, locks, tx, clock, faults, history>>

\* The server ends what its worker has left.
SettleAborted(e) ==
  /\ limbo[e] # None
  /\ limbo' = [limbo EXCEPT ![e] = None]
  /\ lost' = [lost EXCEPT ![e] = @ + 1]
  /\ UNCHANGED <<rows, holder, pc, tx, clock, faults, deliveries, verdicts>>

SettleCommitted(e) ==
  /\ limbo[e] # None
  /\ limbo[e].result # "rollback"
  /\ rows' = [rows EXCEPT ![e] = Updated(@, limbo[e])]
  /\ limbo' = [limbo EXCEPT ![e] = None]
  /\ UNCHANGED <<holder, pc, tx, clock, faults, history>>

\* A clock runs as long as some event waits for it, and up to the horizon.
Tick(w) ==
  /\ \/ clock[w] < Horizon
     \/ \E e \in Events : /\ Pending(e)
                          /\ rows[e].availableAt # Never
                          /\ rows[e].availableAt > clock[w]
  /\ clock' = [clock EXCEPT ![w] = @ + 1]
  /\ UNCHANGED <<rows, locks, pc, tx, faults, history>>

SetBack(w) ==
  /\ clock[w] > 0
  /\ Fault
  /\ clock' = [clock EXCEPT ![w] = @ - 1]
  /\ UNCHANGED <<rows, locks, pc, tx, history>>

-----------------------------------------------------------------------------
ProcessNext(w) ==
  Poll(w) \/ ClaimNothing(w) \/ Claim(w) \/ HandlerReturns(w) \/ Finish(w) \/ Commit(w)

Settle(e) == SettleAborted(e) \/ SettleCommitted(e)

Broken(w) == LoseCommit(w) \/ Fail(w) \/ Disconnect(w) \/ Stop(w) \/ SetBack(w)

Next ==
  \/ \E w \in Workers : ProcessNext(w) \/ Start(w) \/ Tick(w) \/ Broken(w)
  \/ \E e \in Events : Enqueue(e) \/ Settle(e)

\* The loop of a running worker runs and its handler honours the deadline,
\* clocks advance, and the server ends every transaction.  Nothing starts a
\* stopped worker again.
Fairness ==
  /\ \A w \in Workers : WF_vars(ProcessNext(w)) /\ WF_vars(Tick(w))
  /\ \A e \in Events : WF_vars(Settle(e))

Spec == Init /\ [][Next]_vars
FairSpec == Spec /\ Fairness

-----------------------------------------------------------------------------
(* Properties *)

\* Every variable holds a value of the kind the code keeps in it; in particular
\* attempt_count stays a PostgreSQL integer.
TypeOK ==
  /\ rows \in [Events -> Row \cup {None}]
  /\ holder \in [Events -> Workers \cup {None}]
  /\ limbo \in [Events -> Ending \cup {None}]
  /\ pc \in [Workers -> {"idle", "claim", "handling", "finish", "commit", "down"}]
  /\ claim \in [Workers -> Events \cup {None}]
  /\ readAt \in [Workers -> Nat]
  /\ result \in [Workers -> Results]
  /\ clock \in [Workers -> Nat]
  /\ faults \in 0..MaxFaults
  /\ deliveries \in [Events -> Nat]
  /\ verdicts \in [Events -> SUBSET Verdicts]
  /\ lost \in [Events -> Nat]

\* The outcome recorded in a row is the truth about its deliveries, whichever
\* worker recorded it and however many were interrupted: a completed event was
\* accepted in time, a permanently failed one was refused, an exhausted one
\* used up its attempts, and an invalid one never reached a handler.
OutcomesAreTrue ==
  \A e \in Events : rows[e] # None =>
    CASE rows[e].outcome = "completed" -> "ok" \in verdicts[e]
      [] rows[e].outcome = "permanent" -> "refused" \in verdicts[e]
      [] rows[e].outcome = "exhausted" -> Attempted[e] + deliveries[e] >= MaxAttempts
      [] rows[e].outcome = "invalid" -> deliveries[e] = 0
      [] rows[e].outcome = "pending" -> TRUE

\* Duplicate delivery has one cause, a claim that was rolled back: an event is
\* delivered at most MaxAttempts times, and once more for each lost claim.
DeliveriesBounded ==
  \A e \in Events : deliveries[e] <= MaxAttempts + lost[e]

\* Two workers are in the handler with the same event only after the claim of
\* one of them was lost under it (SKIP LOCKED over the whole handler call).
OverlapOnlyAfterLoss ==
  \A v, w \in Workers :
    v # w /\ pc[v] = "handling" /\ pc[w] = "handling" /\ claim[v] = claim[w] => lost[claim[w]] > 0

\* A concluded row never changes again and attempt counts never go down, even
\* when a commit in doubt is applied after its worker went on.
ConclusionsAreFinal ==
  [][\A e \in Events : rows[e] # None =>
       /\ rows[e].outcome # "pending" => rows'[e] = rows[e]
       /\ rows'[e].attempts >= rows[e].attempts]_vars

\* As long as some worker is running in the end, every event is concluded: no
\* row is skipped for ever, none is retried for ever, and a malformed row or
\* one with an infinite timestamp does not block those behind it.
EveryEventEnds ==
  <>[](\E w \in Workers : pc[w] # "down") =>
    \A e \in Events : Pending(e) ~> ~Pending(e)

\* The workers together deliver as the abstract outbox does.
Delivery == INSTANCE OutboxDelivery WITH
  Malformed <- {e \in Events : e \in Malformed \/ AvailableAt[e] = Never},
  status <- [e \in Events |-> IF rows[e] = None THEN "absent" ELSE rows[e].outcome]

\* Every event is delivered at least once until it is concluded, for a reason
\* that its deliveries give, and no delivery of it begins afterwards.
ImplementsDelivery == Delivery!Spec
===============================================================================
