--------------------------- MODULE OutboxWorkerProofs ---------------------------
(***************************************************************************)
(* Theorems about OutboxWorker, for every set of events and workers, every *)
(* attempt limit and any number of faults.  IInv is the inductive          *)
(* invariant; its parts say who may touch a row, what backs the outcome a  *)
(* transaction is about to record, and how deliveries are accounted for.   *)
(***************************************************************************)
EXTENDS OutboxWorker, TLAPS

Busy == {"handling", "finish", "commit"}

\* A claim is a delivery when the row is an event with attempts left.
Deliverable(e) == ~Invalid(e) /\ rows[e].attempts < MaxAttempts

\* A locked row is pending, has one claimant at most, and a worker that has lost
\* its claim can only be one whose loss is counted.
HoldInv ==
  /\ \A w \in Workers :
       /\ pc[w] \in Busy => /\ claim[w] \in Events
                            /\ lost[claim[w]] = 0 => holder[claim[w]] = w
       /\ pc[w] = "commit" => holder[claim[w]] = w
  /\ \A e \in Events :
       /\ holder[e] # None => pc[holder[e]] \in Busy /\ claim[holder[e]] = e /\ limbo[e] = None
       /\ Locked(e) => Pending(e)

\* What an outcome needs from the deliveries of its event.
Backed(e, outcome) ==
  /\ outcome = "completed" => "ok" \in verdicts[e]
  /\ outcome = "permanent" => "refused" \in verdicts[e]
  /\ outcome = "exhausted" => Attempted[e] + deliveries[e] >= MaxAttempts
  /\ outcome = "invalid" => Invalid(e)
  /\ outcome = "retry" => Deliverable(e)

OutcomeInv ==
  /\ \A w \in Workers : pc[w] \in {"finish", "commit"} /\ holder[claim[w]] = w =>
       Backed(claim[w], result[w])
  /\ \A w \in Workers : pc[w] = "handling" =>
       deliveries[claim[w]] > 0 /\ (holder[claim[w]] = w => Deliverable(claim[w]))
  /\ \A e \in Events :
       /\ limbo[e] # None => Backed(e, limbo[e].result)
       /\ rows[e] # None => Backed(e, rows[e].outcome)

\* A pending row has as many recorded attempts as deliveries that were not lost,
\* but for the delivery that is under way.
CountInv ==
  \A e \in Events :
    /\ deliveries[e] <= MaxAttempts + lost[e]
    /\ rows[e] = None => deliveries[e] = 0
    /\ rows[e] # None => /\ Invalid(e) => deliveries[e] = 0
                         /\ rows[e].availableAt = Never <=> AvailableAt[e] = Never
    /\ Pending(e) =>
         /\ rows[e].attempts <= Attempted[e] + deliveries[e]
         /\ deliveries[e] <= rows[e].attempts + lost[e] + 1
         /\ ~Locked(e) => deliveries[e] <= rows[e].attempts + lost[e]
         /\ Locked(e) /\ Deliverable(e) => rows[e].attempts + 1 <= Attempted[e] + deliveries[e]

IInv == TypeOK /\ HoldInv /\ OutcomeInv /\ CountInv

-----------------------------------------------------------------------------
(* Lemmas about the helpers *)

States == {"idle", "claim", "handling", "finish", "commit", "down"}

\* The arithmetic part of the assumptions.
LEMMA ConstantFacts ==
  /\ MaxAttempts \in Nat /\ MaxAttempts > 0
  /\ IntegerMax \in Nat /\ MaxAttempts <= IntegerMax
  /\ \A e \in Events : Attempted[e] \in Nat /\ Attempted[e] <= IntegerMax
  BY ConstantsAssumption

\* The steps one by one.
LEMMA NextCases ==
  ASSUME Next
  PROVE  \/ \E w \in Workers : \/ Poll(w) \/ ClaimNothing(w) \/ Claim(w) \/ HandlerReturns(w)
                               \/ Finish(w) \/ Commit(w) \/ LoseCommit(w) \/ Fail(w)
                               \/ Disconnect(w) \/ Stop(w) \/ Start(w) \/ Tick(w) \/ SetBack(w)
         \/ \E e \in Events : Enqueue(e) \/ SettleAborted(e) \/ SettleCommitted(e)
  BY DEF Next, ProcessNext, Broken, Settle

\* Counting an attempt never leaves the integers of the column, never counts
\* down, and counts by one below the largest.
LEMMA BumpedFacts ==
  ASSUME NEW n \in 0..IntegerMax
  PROVE  /\ Bumped(n) \in 0..IntegerMax
         /\ Bumped(n) >= n
         /\ n < IntegerMax => Bumped(n) = n + 1
  BY ConstantsAssumption DEF Bumped

\* What the UPDATE of Finish does to a pending row.
LEMMA UpdatedFacts ==
  ASSUME NEW old \in Row, old.outcome = "pending",
         NEW ending \in Ending, ending.result # "rollback"
  PROVE  /\ Updated(old, ending) \in Row
         /\ Updated(old, ending).attempts = Bumped(old.attempts)
         /\ Updated(old, ending).attempts >= old.attempts
         /\ ending.result = "retry" => /\ Updated(old, ending).outcome = "pending"
                                       /\ Updated(old, ending).availableAt \in Nat
         /\ ending.result # "retry" => /\ Updated(old, ending).outcome = ending.result
                                       /\ Updated(old, ending).availableAt = old.availableAt
  <1>1. old.attempts \in 0..IntegerMax /\ Bumped(old.attempts) \in 0..IntegerMax
        /\ Bumped(old.attempts) >= old.attempts
    BY BumpedFacts DEF Row
  <1>2. ending.at \in Nat /\ ending.result \in Results \cup {"rollback"}
    BY DEF Ending
  <1>3. ending.at + RetryDelay \in Nat
    BY <1>2 DEF RetryDelay
  <1>4. CASE ending.result = "retry"
    BY <1>1, <1>3, <1>4 DEF Updated, Row
  <1>5. CASE ending.result # "retry"
    BY <1>1, <1>2, <1>5 DEF Updated, Row, Results
  <1>6. QED
    BY <1>4, <1>5

\* Leaving a transaction keeps the types.
LEMMA LeaveTyped ==
  ASSUME TypeOK, NEW w \in Workers, NEW ending \in Ending \cup {None}, NEW to \in States,
         Leave(w, ending, to)
  PROVE  /\ holder' \in [Events -> Workers \cup {None}]
         /\ limbo' \in [Events -> Ending \cup {None}]
         /\ pc' \in [Workers -> States]
         /\ claim' \in [Workers -> Events \cup {None}]
         /\ readAt' \in [Workers -> Nat]
         /\ result' \in [Workers -> Results]
  BY DEF TypeOK, Leave, States, Results

\* The endings that a worker can leave behind.
LEMMA EndingsTyped ==
  ASSUME TypeOK, NEW w \in Workers
  PROVE  RolledBack \in Ending /\ EndingOf(w) \in Ending /\ EndingOf(w).result # "rollback"
  BY DEF TypeOK, RolledBack, EndingOf, Ending, Results, Conclusions

\* A worker that leaves its transaction without publishing it hands the row, if
\* it still holds one, to the server, with an outcome that is backed.
LEMMA LeaveKeeps ==
  ASSUME IInv, NEW w \in Workers, NEW ending \in Ending, NEW to \in {"idle", "down"},
         Leave(w, ending, to), UNCHANGED <<rows, history>>,
         \A e \in Events : holder[e] = w => Backed(e, ending.result)
  PROVE  HoldInv' /\ OutcomeInv' /\ CountInv'
  <1> USE DEF history
  <1>1. \A v \in Workers : pc'[v] = (IF v = w THEN to ELSE pc[v])
    BY DEF Leave, IInv, TypeOK
  <1>2. \A v \in Workers : claim'[v] = (IF v = w THEN None ELSE claim[v])
    BY DEF Leave, IInv, TypeOK
  <1>3. \A v \in Workers : v # w => result'[v] = result[v]
    BY DEF Leave, IInv, TypeOK
  <1>4. \A e \in Events : /\ holder'[e] = (IF holder[e] = w THEN None ELSE holder[e])
                          /\ limbo'[e] = (IF holder[e] = w THEN ending ELSE limbo[e])
    BY DEF Leave
  <1>5. ending # None /\ None \notin Workers
    BY ConstantsAssumption
  <1>6. \A e \in Events : Locked(e)' <=> Locked(e)
    BY <1>4, <1>5 DEF Locked
  <1>7. \A e \in Events : /\ Pending(e)' <=> Pending(e)
                          /\ Invalid(e)' <=> Invalid(e)
                          /\ Deliverable(e)' <=> Deliverable(e)
    BY DEF Pending, Invalid, Deliverable
  <1>8. \A e \in Events : \A o : Backed(e, o)' <=> Backed(e, o)
    BY <1>7 DEF Backed
  <1>9. HoldInv'
    BY <1>1, <1>2, <1>4, <1>5, <1>6, <1>7 DEF IInv, TypeOK, HoldInv, Busy
  <1>10. OutcomeInv'
    BY <1>1, <1>2, <1>3, <1>4, <1>5, <1>7, <1>8 DEF IInv, TypeOK, OutcomeInv, HoldInv, Busy
  <1>11. CountInv'
    BY <1>6, <1>7 DEF IInv, CountInv
  <1>12. QED
    BY <1>9, <1>10, <1>11

\* A transaction that commits records a backed outcome in its pending row, and
\* the accounts of that row stay in order.
LEMMA RecordKeeps ==
  ASSUME IInv, NEW e \in Events, NEW ending \in Ending, ending.result # "rollback",
         Locked(e), Backed(e, ending.result),
         rows' = [rows EXCEPT ![e] = Updated(@, ending)], UNCHANGED history,
         ~Locked(e)', \A f \in Events : f # e => (Locked(f)' <=> Locked(f))
  PROVE  /\ rows' \in [Events -> Row \cup {None}]
         /\ \A f \in Events : f # e => rows'[f] = rows[f]
         /\ rows'[e] # None
         /\ rows'[e].attempts >= rows[e].attempts
         /\ \A f \in Events : rows'[f] # None => Backed(f, rows[f].outcome)'
         /\ \A f \in Events : \A o : f # e => (Backed(f, o)' <=> Backed(f, o))
         /\ CountInv'
  <1> USE DEF history
  <1>1. Pending(e) /\ rows[e] \in Row /\ rows[e].outcome = "pending"
    BY DEF IInv, TypeOK, HoldInv, Pending
  <1>2. /\ rows'[e] = Updated(rows[e], ending)
        /\ \A f \in Events : f # e => rows'[f] = rows[f]
    BY DEF IInv, TypeOK
  <1>3. /\ rows'[e] \in Row /\ rows'[e] # None
        /\ rows'[e].attempts = Bumped(rows[e].attempts)
        /\ rows'[e].attempts >= rows[e].attempts
        /\ ending.result = "retry" => rows'[e].outcome = "pending" /\ rows'[e].availableAt \in Nat
        /\ ending.result # "retry" => /\ rows'[e].outcome = ending.result
                                      /\ rows'[e].availableAt = rows[e].availableAt
    BY <1>1, <1>2, UpdatedFacts, ConstantsAssumption
  <1>4. rows' \in [Events -> Row \cup {None}]
    BY <1>2, <1>3 DEF IInv, TypeOK
  <1>5. Invalid(e)' <=> Invalid(e)
    BY <1>3, ConstantsAssumption DEF Invalid, Backed, Deliverable
  <1>6. \A f \in Events : f # e => /\ Invalid(f)' <=> Invalid(f)
                                   /\ Deliverable(f)' <=> Deliverable(f)
                                   /\ Pending(f)' <=> Pending(f)
    BY <1>2 DEF Invalid, Deliverable, Pending
  <1>7. \A f \in Events : \A o : f # e => (Backed(f, o)' <=> Backed(f, o))
    BY <1>6 DEF Backed
  <1>8. Backed(e, rows[e].outcome)'
    BY <1>3, <1>5 DEF Backed
  <1>9. \A f \in Events : rows'[f] # None => Backed(f, rows[f].outcome)'
    BY <1>2, <1>7, <1>8 DEF IInv, OutcomeInv
  <1>10. ASSUME NEW f \in Events, f # e
         PROVE  /\ deliveries[f] <= MaxAttempts + lost[f]
                /\ rows'[f] = None => deliveries[f] = 0
                /\ rows'[f] # None => /\ Invalid(f)' => deliveries[f] = 0
                                      /\ rows'[f].availableAt = Never <=> AvailableAt[f] = Never
                /\ Pending(f)' =>
                     /\ rows'[f].attempts <= Attempted[f] + deliveries[f]
                     /\ deliveries[f] <= rows'[f].attempts + lost[f] + 1
                     /\ ~Locked(f)' => deliveries[f] <= rows'[f].attempts + lost[f]
                     /\ Locked(f)' /\ Deliverable(f)' => rows'[f].attempts + 1 <= Attempted[f] + deliveries[f]
    BY <1>2, <1>6, <1>10 DEF IInv, CountInv
  <1>11. /\ deliveries[e] <= MaxAttempts + lost[e]
         /\ Invalid(e)' => deliveries[e] = 0
         /\ rows'[e].availableAt = Never <=> AvailableAt[e] = Never
    <2>1. rows'[e].availableAt = Never <=> rows[e].availableAt = Never
      BY <1>3, ConstantsAssumption DEF Backed, Deliverable, Invalid
    <2>2. QED
      BY <1>1, <1>5, <2>1 DEF IInv, CountInv, Pending
  <1>12. Pending(e)' => /\ rows'[e].attempts <= Attempted[e] + deliveries[e]
                        /\ deliveries[e] <= rows'[e].attempts + lost[e]
    <2>1. SUFFICES ASSUME Pending(e)'
                   PROVE  /\ rows'[e].attempts <= Attempted[e] + deliveries[e]
                          /\ deliveries[e] <= rows'[e].attempts + lost[e]
      OBVIOUS
    <2>2. ending.result = "retry"
      <3>1. ending.result \in Results
        BY DEF Ending
      <3>2. QED
        BY <1>3, <2>1, <3>1 DEF Pending, Results, Conclusions
    <2>3. Deliverable(e)
      BY <2>2 DEF Backed
    <2>4. rows[e].attempts \in 0..IntegerMax /\ rows[e].attempts < MaxAttempts
      BY <1>1, <2>3 DEF Row, Deliverable
    <2>5. rows'[e].attempts = rows[e].attempts + 1
      BY <1>3, <2>4, BumpedFacts, ConstantsAssumption
    <2>6. /\ rows[e].attempts + 1 <= Attempted[e] + deliveries[e]
          /\ deliveries[e] <= rows[e].attempts + lost[e] + 1
      BY <1>1, <2>3 DEF IInv, CountInv
    <2>7. deliveries[e] \in Nat /\ lost[e] \in Nat /\ Attempted[e] \in Nat
      BY ConstantFacts DEF IInv, TypeOK
    <2>8. QED
      BY <2>4, <2>5, <2>6, <2>7
  <1>13. Pending(e)' => deliveries[e] <= rows'[e].attempts + lost[e] + 1
    BY <1>3, <1>12 DEF IInv, TypeOK, Row
  <1>14. CountInv'
    BY <1>3, <1>10, <1>11, <1>12, <1>13 DEF CountInv
  <1>15. QED
    BY <1>2, <1>3, <1>4, <1>7, <1>9, <1>14

-----------------------------------------------------------------------------
(* The inductive invariant *)

\* Initially nothing is enqueued, locked or delivered.
LEMMA InitIInv == Init => IInv
  <1> SUFFICES ASSUME Init PROVE IInv
    OBVIOUS
  <1>1. TypeOK
    BY ConstantsAssumption DEF Init, TypeOK, Results
  <1>2. HoldInv /\ OutcomeInv
    BY DEF Init, HoldInv, OutcomeInv, Busy, Locked
  <1>3. CountInv
    <2>1. \A e \in Events : rows[e] = None /\ deliveries[e] = 0 /\ lost[e] = 0
      BY DEF Init
    <2>2. ASSUME NEW e \in Events PROVE deliveries[e] <= MaxAttempts + lost[e]
      <3>1. 0 <= MaxAttempts + 0
        BY ConstantFacts
      <3>2. QED
        BY <2>1, <3>1
    <2>3. \A e \in Events : ~Pending(e)
      BY <2>1 DEF Pending
    <2>4. QED
      BY <2>1, <2>2, <2>3 DEF CountInv
  <1>4. QED
    BY <1>1, <1>2, <1>3 DEF IInv

\* The steps in which a worker leaves its transaction keep the types.
LEMMA LeavingTyped ==
  ASSUME TypeOK, NEW w \in Workers, NEW ending \in Ending \cup {None}, NEW to \in {"idle", "down"},
         Leave(w, ending, to), UNCHANGED <<rows, clock, history>>, faults' \in 0..MaxFaults
  PROVE  TypeOK'
  <1>1. to \in States
    BY DEF States
  <1>2. QED
    BY <1>1, LeaveTyped DEF TypeOK, history, States

\* Every step keeps the types.
LEMMA StepTyped == TypeOK /\ HoldInv /\ [Next]_vars => TypeOK'
  <1> SUFFICES ASSUME TypeOK, HoldInv, [Next]_vars PROVE TypeOK'
    OBVIOUS
  <1> USE DEF locks, tx, history
  <1>0. /\ Fault => faults' \in 0..MaxFaults
        /\ UNCHANGED faults => faults' \in 0..MaxFaults
    BY ConstantsAssumption DEF Fault, TypeOK
  <1>1. ASSUME NEW w \in Workers, Poll(w) \/ Start(w) PROVE TypeOK'
    BY <1>1 DEF Poll, Start, TypeOK
  <1>2. ASSUME NEW w \in Workers, ClaimNothing(w) \/ LoseCommit(w) \/ Fail(w) \/ Stop(w) PROVE TypeOK'
    <2>1. \E ending \in Ending, to \in {"idle", "down"} : Leave(w, ending, to)
      BY <1>2, EndingsTyped DEF ClaimNothing, LoseCommit, Fail, Stop
    <2>2. UNCHANGED <<rows, clock, history>> /\ faults' \in 0..MaxFaults
      BY <1>0, <1>2 DEF ClaimNothing, LoseCommit, Fail, Stop
    <2>3. QED
      BY <2>1, <2>2, LeavingTyped
  <1>3. ASSUME NEW w \in Workers, Claim(w) PROVE TypeOK'
    <2>1. PICK e \in Events :
            /\ holder' = [holder EXCEPT ![e] = w]
            /\ claim' = [claim EXCEPT ![w] = e]
            /\ \/ /\ result' = [result EXCEPT ![w] = "invalid"]
                  /\ pc' = [pc EXCEPT ![w] = "finish"] /\ UNCHANGED deliveries
               \/ /\ result' = [result EXCEPT ![w] = "exhausted"]
                  /\ pc' = [pc EXCEPT ![w] = "finish"] /\ UNCHANGED deliveries
               \/ /\ pc' = [pc EXCEPT ![w] = "handling"]
                  /\ deliveries' = [deliveries EXCEPT ![e] = @ + 1] /\ UNCHANGED result
      BY <1>3 DEF Claim
    <2>2. UNCHANGED <<rows, limbo, readAt, clock, faults, verdicts, lost>>
      BY <1>3 DEF Claim
    <2>3. QED
      BY <2>1, <2>2 DEF TypeOK, Results, Conclusions
  <1>4. ASSUME NEW w \in Workers, HandlerReturns(w) PROVE TypeOK'
    <2>1. PICK verdict \in Verdicts :
            /\ verdicts' = [verdicts EXCEPT ![claim[w]] = @ \cup {verdict}]
            /\ result' = [result EXCEPT ![w] = Outcome(verdict, rows[claim[w]].attempts)]
      BY <1>4 DEF HandlerReturns
    <2>2. Outcome(verdict, rows[claim[w]].attempts) \in Results
      BY DEF Outcome, Verdicts, Results, Conclusions
    <2>3. verdicts' \in [Events -> SUBSET Verdicts]
      BY <2>1 DEF TypeOK
    <2>4. QED
      BY <1>4, <2>1, <2>2, <2>3 DEF HandlerReturns, TypeOK
  <1>5. ASSUME NEW w \in Workers, Finish(w) PROVE TypeOK'
    <2>1. CASE Leave(w, RolledBack, "idle")
      BY <1>0, <1>5, <2>1, LeavingTyped, EndingsTyped DEF Finish
    <2>2. CASE ~Leave(w, RolledBack, "idle")
      BY <1>5, <2>2 DEF Finish, TypeOK
    <2>3. QED
      BY <2>1, <2>2
  <1>6. ASSUME NEW w \in Workers, Commit(w) PROVE TypeOK'
    <2>1. claim[w] \in Events /\ Pending(claim[w])
      BY <1>6, ConstantsAssumption DEF Commit, HoldInv, Busy, Locked
    <2>2. Updated(rows[claim[w]], EndingOf(w)) \in Row
      BY <2>1, UpdatedFacts, EndingsTyped DEF Pending, TypeOK
    <2>3. rows' \in [Events -> Row \cup {None}]
      BY <1>6, <2>2 DEF Commit, TypeOK
    <2>4. "idle" \in States
      BY DEF States
    <2>5. QED
      BY <1>6, <2>3, <2>4, LeaveTyped DEF Commit, TypeOK, States
  <1>7. ASSUME NEW w \in Workers, Disconnect(w) PROVE TypeOK'
    <2>1. claim[w] \in Events
      BY <1>7 DEF Disconnect, HoldInv, Busy
    <2>2. lost' \in [Events -> Nat]
      BY <1>7, <2>1 DEF Disconnect, TypeOK
    <2>3. QED
      BY <1>0, <1>7, <2>2 DEF Disconnect, TypeOK
  <1>8. ASSUME NEW w \in Workers, Tick(w) \/ SetBack(w) PROVE TypeOK'
    <2>1. clock' \in [Workers -> Nat]
      BY <1>8 DEF Tick, SetBack, TypeOK
    <2>2. QED
      BY <1>0, <1>8, <2>1 DEF Tick, SetBack, TypeOK
  <1>9. ASSUME NEW e \in Events, Enqueue(e) PROVE TypeOK'
    <2>1. [outcome |-> "pending", availableAt |-> AvailableAt[e], attempts |-> Attempted[e]] \in Row
      BY ConstantsAssumption DEF Row
    <2>2. rows' \in [Events -> Row \cup {None}]
      BY <1>9, <2>1 DEF Enqueue, TypeOK
    <2>3. QED
      BY <1>9, <2>2 DEF Enqueue, TypeOK
  <1>10. ASSUME NEW e \in Events, SettleAborted(e) PROVE TypeOK'
    BY <1>10 DEF SettleAborted, TypeOK
  <1>11. ASSUME NEW e \in Events, SettleCommitted(e) PROVE TypeOK'
    <2>1. Pending(e) /\ limbo[e] \in Ending /\ limbo[e].result # "rollback"
      BY <1>11 DEF SettleCommitted, HoldInv, Locked, TypeOK
    <2>2. Updated(rows[e], limbo[e]) \in Row
      BY <2>1, UpdatedFacts DEF Pending, TypeOK
    <2>3. QED
      BY <1>11, <2>2 DEF SettleCommitted, TypeOK
  <1>12. CASE UNCHANGED vars
    BY <1>12 DEF vars, TypeOK
  <1>13. QED
    BY <1>1, <1>2, <1>3, <1>4, <1>5, <1>6, <1>7, <1>8, <1>9, <1>10, <1>11, <1>12, NextCases

Rest == HoldInv /\ OutcomeInv /\ CountInv

\* A step outside every transaction leaves the invariant alone.
LEMMA AsideKeeps ==
  ASSUME IInv,
         UNCHANGED <<rows, holder, limbo, claim, result, history>>,
         \A v \in Workers : pc'[v] = pc[v] \/ (pc[v] \notin Busy /\ pc'[v] \notin Busy)
  PROVE  Rest'
  <1> USE DEF history
  <1>1. HoldInv'
    <2>1. \A e \in Events : holder[e] # None => holder[e] \in Workers
      BY DEF IInv, TypeOK
    <2>2. QED
      BY <2>1 DEF IInv, HoldInv, Locked, Pending, Busy
  <1>2. OutcomeInv'
    BY DEF IInv, OutcomeInv, Backed, Invalid, Deliverable, Busy
  <1>3. CountInv'
    BY DEF IInv, CountInv, Invalid, Pending, Locked, Deliverable
  <1>4. QED
    BY <1>1, <1>2, <1>3 DEF Rest

\* A claim locks a row nobody has, and delivers it or has a reason not to.
LEMMA ClaimKeeps ==
  ASSUME IInv, NEW w \in Workers, Claim(w)
  PROVE  Rest'
  <1>1. PICK e \in Events :
          /\ Pending(e) /\ ~Locked(e)
          /\ holder' = [holder EXCEPT ![e] = w]
          /\ claim' = [claim EXCEPT ![w] = e]
          /\ \/ /\ Invalid(e)
                /\ result' = [result EXCEPT ![w] = "invalid"]
                /\ pc' = [pc EXCEPT ![w] = "finish"] /\ UNCHANGED deliveries
             \/ /\ ~Invalid(e) /\ rows[e].attempts >= MaxAttempts
                /\ result' = [result EXCEPT ![w] = "exhausted"]
                /\ pc' = [pc EXCEPT ![w] = "finish"] /\ UNCHANGED deliveries
             \/ /\ ~Invalid(e) /\ rows[e].attempts < MaxAttempts
                /\ pc' = [pc EXCEPT ![w] = "handling"]
                /\ deliveries' = [deliveries EXCEPT ![e] = @ + 1] /\ UNCHANGED result
    BY DEF Claim, Due
  <1>2. pc[w] = "claim" /\ UNCHANGED <<rows, limbo, readAt, clock, faults, verdicts, lost>>
    BY DEF Claim
  <1>3. /\ \A v \in Workers : v # w => pc'[v] = pc[v] /\ claim'[v] = claim[v] /\ result'[v] = result[v]
        /\ \A f \in Events : f # e => holder'[f] = holder[f] /\ deliveries'[f] = deliveries[f]
        /\ holder'[e] = w /\ claim'[w] = e /\ w # None
        /\ \A f \in Events : holder[f] # w
    BY <1>1, <1>2, ConstantsAssumption DEF IInv, TypeOK, HoldInv, Busy
  <1>4. /\ \A f \in Events : /\ Pending(f)' <=> Pending(f)
                             /\ Invalid(f)' <=> Invalid(f)
                             /\ Deliverable(f)' <=> Deliverable(f)
        /\ \A f \in Events : f # e => (Locked(f)' <=> Locked(f))
        /\ Locked(e)'
    BY <1>2, <1>3 DEF Pending, Invalid, Deliverable, Locked
  <1>5. /\ rows[e] \in Row /\ rows[e].attempts \in Nat
        /\ deliveries[e] \in Nat /\ lost[e] \in Nat /\ Attempted[e] \in Nat /\ MaxAttempts \in Nat
    BY <1>1, ConstantFacts DEF IInv, TypeOK, Pending, Row
  <1>6. /\ rows[e].attempts <= Attempted[e] + deliveries[e]
        /\ deliveries[e] <= rows[e].attempts + lost[e]
        /\ deliveries[e] <= MaxAttempts + lost[e]
        /\ Invalid(e) => deliveries[e] = 0
    BY <1>1 DEF IInv, CountInv, Pending
  <1>7. pc'[w] \in {"finish", "handling"} /\ limbo[e] = None /\ holder[e] = None
    BY <1>1, <1>2 DEF IInv, TypeOK, Locked
  <1>8. HoldInv'
    <2>1. \A v \in Workers : v # w /\ pc[v] \in Busy /\ holder[claim[v]] = v => claim[v] # e
      BY <1>3, <1>7, ConstantsAssumption
    <2>2. ASSUME NEW v \in Workers
          PROVE  /\ pc'[v] \in Busy => /\ claim'[v] \in Events
                                       /\ lost'[claim'[v]] = 0 => holder'[claim'[v]] = v
                 /\ pc'[v] = "commit" => holder'[claim'[v]] = v
      <3>1. CASE v = w
        BY <1>3, <1>7, <3>1
      <3>2. CASE v # w
        BY <1>2, <1>3, <2>1, <3>2 DEF IInv, HoldInv, Busy
      <3>3. QED
        BY <3>1, <3>2
    <2>3. ASSUME NEW f \in Events
          PROVE  /\ holder'[f] # None => pc'[holder'[f]] \in Busy /\ claim'[holder'[f]] = f /\ limbo'[f] = None
                 /\ Locked(f)' => Pending(f)'
      <3>1. CASE f = e
        BY <1>1, <1>2, <1>3, <1>4, <1>7, <3>1 DEF Busy
      <3>2. CASE f # e
        <4>1. holder'[f] = holder[f] /\ holder[f] \in Workers \cup {None} /\ holder[f] # w
          BY <1>3, <3>2 DEF IInv, TypeOK
        <4>2. QED
          BY <1>2, <1>3, <1>4, <3>2, <4>1 DEF IInv, HoldInv
      <3>3. QED
        BY <3>1, <3>2
    <2>4. QED
      BY <2>2, <2>3 DEF HoldInv
  <1>9. \A f \in Events : \A o : Backed(f, o) => Backed(f, o)'
    <2>1. \A f \in Events : deliveries'[f] >= deliveries[f]
      BY <1>1, <1>3, <1>5 DEF IInv, TypeOK
    <2>2. \A f \in Events : Attempted[f] + deliveries[f] >= MaxAttempts =>
                              Attempted[f] + deliveries'[f] >= MaxAttempts
      BY <2>1, <1>1, ConstantFacts DEF IInv, TypeOK
    <2>3. QED
      BY <1>2, <1>4, <2>2 DEF Backed
  <1>10. /\ pc'[w] = "finish" => Backed(e, result[w])'
         /\ pc'[w] = "handling" => deliveries'[e] > 0 /\ Deliverable(e)'
    <2>1. CASE Invalid(e)
      BY <1>1, <1>4, <2>1 DEF IInv, TypeOK, Backed
    <2>2. CASE ~Invalid(e) /\ rows[e].attempts >= MaxAttempts
      <3>1. Attempted[e] + deliveries[e] >= MaxAttempts
        BY <1>5, <1>6, <2>2
      <3>2. pc'[w] = "finish" /\ result'[w] = "exhausted" /\ UNCHANGED deliveries
        BY <1>1, <1>5, <2>2 DEF IInv, TypeOK
      <3>3. QED
        BY <3>1, <3>2 DEF Backed
    <2>3. CASE ~Invalid(e) /\ rows[e].attempts < MaxAttempts
      BY <1>1, <1>4, <1>5, <2>3 DEF IInv, TypeOK, Deliverable
    <2>4. QED
      BY <1>5, <2>1, <2>2, <2>3
  <1>11. OutcomeInv'
    <2>1. ASSUME NEW v \in Workers
          PROVE  /\ pc'[v] \in {"finish", "commit"} /\ holder'[claim'[v]] = v => Backed(claim[v], result[v])'
                 /\ pc'[v] = "handling" =>
                      deliveries'[claim'[v]] > 0 /\ (holder'[claim'[v]] = v => Deliverable(claim[v])')
      <3>1. CASE v = w
        BY <1>3, <1>7, <1>10, <3>1
      <3>2. CASE v # w /\ pc[v] \in Busy
        <4>1. claim[v] \in Events /\ UNCHANGED <<claim[v], result[v], pc[v]>>
          BY <1>3, <3>2 DEF IInv, HoldInv
        <4>2. holder'[claim[v]] = v => holder[claim[v]] = v
          BY <1>3, <3>2, <4>1
        <4>3. deliveries'[claim[v]] >= deliveries[claim[v]]
          BY <1>1, <1>3, <1>5, <4>1 DEF IInv, TypeOK
        <4>4. deliveries[claim[v]] > 0 => deliveries'[claim[v]] > 0
          BY <1>1, <4>1, <4>3 DEF IInv, TypeOK
        <4>5. \A o : Backed(claim[v], o) => Backed(claim[v], o)'
          BY <1>9, <4>1
        <4>6. Backed(claim[v], result[v]) => Backed(claim[v], result[v])'
          BY <4>1, <4>5
        <4>7. Deliverable(claim[v]) => Deliverable(claim[v])'
          BY <1>4, <4>1
        <4>8. QED
          BY <4>1, <4>2, <4>4, <4>6, <4>7 DEF IInv, OutcomeInv
      <3>3. CASE v # w /\ pc[v] \notin Busy
        BY <1>3, <3>3 DEF Busy
      <3>4. QED
        BY <3>1, <3>2, <3>3
    <2>2. ASSUME NEW f \in Events
          PROVE  /\ limbo'[f] # None => Backed(f, limbo[f].result)'
                 /\ rows'[f] # None => Backed(f, rows[f].outcome)'
      BY <1>2, <1>9 DEF IInv, OutcomeInv
    <2>3. QED
      BY <2>1, <2>2 DEF OutcomeInv
  <1>12. CountInv'
    <2>1. ASSUME NEW f \in Events, f # e
          PROVE  /\ Pending(f)' <=> Pending(f)
                 /\ Locked(f)' <=> Locked(f)
                 /\ UNCHANGED <<rows[f], deliveries[f], lost[f]>>
      BY <1>2, <1>3, <1>4, <2>1
    <2>2. /\ deliveries'[e] <= MaxAttempts + lost[e]
          /\ Invalid(e) => deliveries'[e] = 0
          /\ rows[e].attempts <= Attempted[e] + deliveries'[e]
          /\ deliveries'[e] <= rows[e].attempts + lost[e] + 1
          /\ Deliverable(e) => rows[e].attempts + 1 <= Attempted[e] + deliveries'[e]
      <3>1. CASE Deliverable(e)
        <4>1. deliveries'[e] = deliveries[e] + 1
          BY <1>1, <1>5, <3>1 DEF Deliverable, IInv, TypeOK
        <4>2. ~Invalid(e) /\ rows[e].attempts < MaxAttempts
          BY <3>1 DEF Deliverable
        <4>3. QED
          BY <1>5, <1>6, <4>1, <4>2
      <3>2. CASE ~Deliverable(e)
        <4>1. deliveries'[e] = deliveries[e]
          BY <1>1, <1>5, <3>2 DEF Deliverable
        <4>2. QED
          BY <1>5, <1>6, <3>2, <4>1
      <3>3. QED
        BY <3>1, <3>2
    <2>3. QED
      BY <1>1, <1>2, <1>4, <2>1, <2>2 DEF IInv, CountInv, Pending
  <1>13. QED
    BY <1>8, <1>11, <1>12 DEF Rest

\* An answer of the handler backs the outcome chosen for it.
LEMMA HandlerKeeps ==
  ASSUME IInv, NEW w \in Workers, HandlerReturns(w)
  PROVE  Rest'
  <1> DEFINE e == claim[w]
  <1>1. PICK verdict \in Verdicts :
          /\ verdicts' = [verdicts EXCEPT ![e] = @ \cup {verdict}]
          /\ result' = [result EXCEPT ![w] = Outcome(verdict, rows[e].attempts)]
    BY DEF HandlerReturns
  <1>2. /\ pc[w] = "handling" /\ pc' = [pc EXCEPT ![w] = "finish"]
        /\ UNCHANGED <<rows, holder, limbo, claim, deliveries, lost>>
    BY DEF HandlerReturns, locks
  <1>3. e \in Events
    BY <1>2 DEF IInv, HoldInv, Busy
  <1>4. /\ \A v \in Workers : v # w => pc'[v] = pc[v] /\ result'[v] = result[v]
        /\ pc'[w] = "finish" /\ result'[w] = Outcome(verdict, rows[e].attempts)
        /\ \A f \in Events : verdicts[f] \subseteq verdicts'[f]
        /\ verdict \in verdicts'[e]
    BY <1>1, <1>2, <1>3 DEF IInv, TypeOK
  <1>5. \A f \in Events : /\ Pending(f)' <=> Pending(f)
                          /\ Invalid(f)' <=> Invalid(f)
                          /\ Deliverable(f)' <=> Deliverable(f)
                          /\ Locked(f)' <=> Locked(f)
    BY <1>2 DEF Pending, Invalid, Deliverable, Locked
  <1>6. \A f \in Events : \A o : Backed(f, o) => Backed(f, o)'
    BY <1>2, <1>4, <1>5 DEF Backed
  <1>7. HoldInv'
    <2>1. \A f \in Events : holder[f] # None => holder[f] \in Workers
      BY DEF IInv, TypeOK
    <2>2. QED
      BY <1>2, <1>4, <1>5, <2>1 DEF IInv, HoldInv, Busy
  <1>8. CountInv'
    BY <1>2, <1>5 DEF IInv, CountInv
  <1>9. holder[e] = w => Backed(e, result[w])'
    <2>1. SUFFICES ASSUME holder[e] = w PROVE Backed(e, result[w])'
      OBVIOUS
    <2>2. Deliverable(e) /\ Pending(e) /\ Locked(e)
      BY <1>2, <1>3, <2>1, ConstantsAssumption DEF IInv, OutcomeInv, HoldInv, Locked
    <2>3. rows[e].attempts + 1 <= Attempted[e] + deliveries[e]
      BY <1>3, <2>2 DEF IInv, CountInv
    <2>4. /\ rows[e].attempts \in Nat /\ deliveries[e] \in Nat
          /\ Attempted[e] \in Nat /\ MaxAttempts \in Nat
      BY <1>3, <2>2, ConstantFacts DEF IInv, TypeOK, Pending, Row
    <2>5. rows[e].attempts + 1 >= MaxAttempts => Attempted[e] + deliveries[e] >= MaxAttempts
      BY <2>3, <2>4
    <2>6. \/ result'[w] = "completed" /\ verdict = "ok"
          \/ result'[w] = "permanent" /\ verdict = "refused"
          \/ result'[w] = "exhausted" /\ Attempted[e] + deliveries[e] >= MaxAttempts
          \/ result'[w] = "retry"
      BY <1>4, <2>5 DEF Outcome, Verdicts
    <2>7. QED
      BY <1>2, <1>4, <1>5, <2>2, <2>6, <1>3 DEF Backed
  <1>10. OutcomeInv'
    <2>1. ASSUME NEW v \in Workers
          PROVE  /\ pc'[v] \in {"finish", "commit"} /\ holder'[claim'[v]] = v => Backed(claim[v], result[v])'
                 /\ pc'[v] = "handling" =>
                      deliveries'[claim'[v]] > 0 /\ (holder'[claim'[v]] = v => Deliverable(claim[v])')
      <3>1. CASE v = w
        BY <1>2, <1>4, <1>9, <3>1
      <3>2. CASE v # w /\ pc[v] \in Busy
        <4>1. claim[v] \in Events /\ UNCHANGED <<claim[v], result[v], pc[v]>>
          BY <1>2, <1>4, <3>2 DEF IInv, HoldInv
        <4>2. Backed(claim[v], result[v]) => Backed(claim[v], result[v])'
          BY <1>6, <4>1
        <4>3. Deliverable(claim[v]) => Deliverable(claim[v])'
          BY <1>5, <4>1
        <4>4. QED
          BY <1>2, <4>1, <4>2, <4>3 DEF IInv, OutcomeInv
      <3>3. CASE v # w /\ pc[v] \notin Busy
        BY <1>4, <3>3 DEF Busy
      <3>4. QED
        BY <3>1, <3>2, <3>3
    <2>2. ASSUME NEW f \in Events
          PROVE  /\ limbo'[f] # None => Backed(f, limbo[f].result)'
                 /\ rows'[f] # None => Backed(f, rows[f].outcome)'
      BY <1>2, <1>6 DEF IInv, OutcomeInv
    <2>3. QED
      BY <2>1, <2>2 DEF OutcomeInv
  <1>11. QED
    BY <1>7, <1>8, <1>10 DEF Rest

\* A claim that the server drops is counted as lost; the row is free again.
LEMMA DropKeeps ==
  ASSUME IInv, NEW e \in Events, Locked(e),
         \/ holder[e] # None /\ holder' = [holder EXCEPT ![e] = None] /\ UNCHANGED limbo
         \/ limbo[e] # None /\ limbo' = [limbo EXCEPT ![e] = None] /\ UNCHANGED holder,
         lost' = [lost EXCEPT ![e] = @ + 1],
         UNCHANGED <<rows, pc, claim, result, deliveries, verdicts>>,
         \A w \in Workers : pc[w] = "commit" /\ claim[w] = e => holder' = holder
  PROVE  Rest'
  <1>1. /\ \A f \in Events : f # e => holder'[f] = holder[f] /\ limbo'[f] = limbo[f] /\ lost'[f] = lost[f]
        /\ lost'[e] = lost[e] + 1 /\ lost[e] \in Nat
        /\ holder'[e] \in {holder[e], None} /\ limbo'[e] \in {limbo[e], None}
        /\ ~Locked(e)'
    <2>1. holder[e] # None => limbo[e] = None
      BY DEF IInv, HoldInv
    <2>2. holder'[e] = None /\ limbo'[e] = None
      BY <2>1 DEF IInv, TypeOK
    <2>3. ~Locked(e)'
      BY <2>2 DEF Locked
    <2>4. QED
      BY <2>2, <2>3 DEF IInv, TypeOK
  <1>2. \A f \in Events : /\ Pending(f)' <=> Pending(f)
                          /\ Invalid(f)' <=> Invalid(f)
                          /\ Deliverable(f)' <=> Deliverable(f)
                          /\ f # e => (Locked(f)' <=> Locked(f))
    BY <1>1 DEF Pending, Invalid, Deliverable, Locked
  <1>3. \A f \in Events : \A o : Backed(f, o) <=> Backed(f, o)'
    BY <1>2 DEF Backed
  <1>4. HoldInv'
    <2>1. ASSUME NEW w \in Workers, pc[w] \in Busy
          PROVE  /\ claim[w] \in Events
                 /\ lost'[claim[w]] = 0 => holder'[claim[w]] = w
                 /\ pc[w] = "commit" => holder'[claim[w]] = w
      BY <1>1, <2>1 DEF IInv, HoldInv
    <2>2. \A f \in Events : holder'[f] # None => holder'[f] = holder[f] /\ holder[f] \in Workers
      BY <1>1 DEF IInv, TypeOK
    <2>3. \A f \in Events : limbo[f] = None => limbo'[f] = None
      BY <1>1
    <2>4. \A f \in Events : Locked(f)' => Locked(f)
      BY <1>1, <1>2
    <2>5. QED
      BY <1>2, <2>1, <2>2, <2>3, <2>4 DEF IInv, HoldInv, Busy
  <1>5. OutcomeInv'
    <2>1. \A w \in Workers : pc[w] \in Busy => claim[w] \in Events
      BY DEF IInv, HoldInv
    <2>2. \A w \in Workers : pc[w] \in Busy /\ holder'[claim[w]] = w => holder[claim[w]] = w
      BY <1>1, <2>1, ConstantsAssumption
    <2>3. ASSUME NEW w \in Workers, pc[w] \in Busy
          PROVE  /\ Backed(claim[w], result[w]) => Backed(claim[w], result[w])'
                 /\ Deliverable(claim[w]) => Deliverable(claim[w])'
      BY <1>2, <1>3, <2>1, <2>3 DEF Backed
    <2>4. ASSUME NEW f \in Events
          PROVE  /\ limbo'[f] # None => Backed(f, limbo[f].result)'
                 /\ rows'[f] # None => Backed(f, rows[f].outcome)'
      BY <1>1, <1>3 DEF IInv, OutcomeInv
    <2>5. QED
      BY <2>2, <2>3, <2>4 DEF IInv, OutcomeInv, Busy
  <1>6. CountInv'
    <2>1. /\ deliveries[e] \in Nat /\ lost'[e] \in Nat /\ MaxAttempts \in Nat
          /\ rows[e] \in Row /\ rows[e].attempts \in Nat
      BY <1>1, ConstantFacts DEF IInv, TypeOK, HoldInv, Pending, Row
    <2>2. ASSUME NEW f \in Events, f # e
          PROVE  /\ Locked(f)' <=> Locked(f)
                 /\ lost'[f] = lost[f]
      BY <1>1, <1>2, <2>2
    <2>3. /\ deliveries[e] <= MaxAttempts + lost[e]
          /\ deliveries[e] <= rows[e].attempts + lost[e] + 1
      BY DEF IInv, HoldInv, CountInv
    <2>4. /\ deliveries[e] <= MaxAttempts + lost'[e]
          /\ deliveries[e] <= rows[e].attempts + lost'[e]
          /\ deliveries[e] <= rows[e].attempts + lost'[e] + 1
      BY <1>1, <2>1, <2>3
    <2>5. QED
      BY <1>1, <1>2, <2>2, <2>4 DEF IInv, CountInv
  <1>7. QED
    BY <1>4, <1>5, <1>6 DEF Rest

\* What is left to say once a row has been recorded and freed: the worker that
\* did it is idle, and every other worker and row is as it was.
LEMMA RecordedKeeps ==
  ASSUME IInv, NEW e \in Events, holder'[e] = None, limbo'[e] = None,
         \A f \in Events : f # e => UNCHANGED <<rows[f], holder[f], limbo[f]>>,
         \A v \in Workers :
           \/ pc'[v] = "idle" /\ \A f \in Events : f # e => holder[f] # v
           \/ holder[e] # v /\ UNCHANGED <<pc[v], claim[v], result[v]>>,
         \A f \in Events : rows'[f] # None => Backed(f, rows[f].outcome)',
         \A f \in Events : \A o : f # e => (Backed(f, o)' <=> Backed(f, o)),
         CountInv', UNCHANGED <<deliveries, verdicts, lost>>
  PROVE  Rest'
  <1>1. \A f \in Events : holder[f] # None => holder[f] \in Workers
    BY DEF IInv, TypeOK
  <1>2. \A f \in Events : f # e => /\ Pending(f)' <=> Pending(f)
                                   /\ Locked(f)' <=> Locked(f)
                                   /\ Deliverable(f)' <=> Deliverable(f)
    BY DEF Pending, Locked, Deliverable, Invalid
  <1>3. ~Locked(e)' /\ None \notin Workers
    BY ConstantsAssumption DEF Locked
  <1>4. HoldInv'
    <2>1. ASSUME NEW v \in Workers, pc'[v] \in Busy
          PROVE  /\ claim'[v] \in Events
                 /\ lost'[claim'[v]] = 0 => holder'[claim'[v]] = v
                 /\ pc'[v] = "commit" => holder'[claim'[v]] = v
      <3>1. holder[e] # v /\ UNCHANGED <<pc[v], claim[v]>>
        BY <2>1 DEF Busy
      <3>2. QED
        BY <2>1, <3>1 DEF IInv, HoldInv
    <2>2. ASSUME NEW f \in Events
          PROVE  /\ holder'[f] # None => pc'[holder'[f]] \in Busy /\ claim'[holder'[f]] = f /\ limbo'[f] = None
                 /\ Locked(f)' => Pending(f)'
      BY <1>1, <1>2, <1>3 DEF IInv, HoldInv, Busy
    <2>3. QED
      BY <2>1, <2>2 DEF HoldInv, Busy
  <1>5. OutcomeInv'
    <2>1. ASSUME NEW v \in Workers
          PROVE  /\ pc'[v] \in {"finish", "commit"} /\ holder'[claim'[v]] = v => Backed(claim[v], result[v])'
                 /\ pc'[v] = "handling" =>
                      deliveries'[claim'[v]] > 0 /\ (holder'[claim'[v]] = v => Deliverable(claim[v])')
      <3>1. CASE pc'[v] \notin Busy
        BY <3>1 DEF Busy
      <3>2. CASE pc'[v] \in Busy
        <4>1. UNCHANGED <<pc[v], claim[v], result[v]>> /\ claim[v] \in Events
          BY <3>2 DEF Busy, IInv, HoldInv
        <4>2. holder'[claim[v]] = v => claim[v] # e /\ holder[claim[v]] = v
          BY <1>3, <4>1
        <4>3. claim[v] # e => /\ Backed(claim[v], result[v]) => Backed(claim[v], result[v])'
                              /\ Deliverable(claim[v]) => Deliverable(claim[v])'
          BY <1>2, <4>1 DEF Backed, Deliverable, Invalid
        <4>4. QED
          BY <4>1, <4>2, <4>3 DEF IInv, OutcomeInv
      <3>3. QED
        BY <3>1, <3>2
    <2>2. ASSUME NEW f \in Events, limbo'[f] # None PROVE Backed(f, limbo[f].result)'
      <3>1. f # e /\ limbo'[f] = limbo[f]
        BY <2>2
      <3>2. QED
        BY <2>2, <3>1 DEF IInv, OutcomeInv
    <2>3. QED
      BY <2>1, <2>2 DEF OutcomeInv
  <1>6. QED
    BY <1>4, <1>5 DEF Rest

\* Every step keeps the inductive invariant.
LEMMA StepIInv == IInv /\ [Next]_vars => IInv'
  <1> SUFFICES ASSUME IInv, [Next]_vars PROVE Rest'
    BY StepTyped DEF IInv, Rest
  <1> USE DEF locks, tx, history
  <1>1. ASSUME NEW w \in Workers, Poll(w) \/ Start(w) \/ Tick(w) \/ SetBack(w) PROVE Rest'
    <2>1. \A v \in Workers : pc'[v] = pc[v] \/ (pc[v] \notin Busy /\ pc'[v] \notin Busy)
      BY <1>1 DEF Poll, Start, Tick, SetBack, IInv, TypeOK, Busy
    <2>2. UNCHANGED <<rows, holder, limbo, claim, result, history>>
      BY <1>1 DEF Poll, Start, Tick, SetBack
    <2>3. QED
      BY <2>1, <2>2, AsideKeeps
  <1>2. ASSUME NEW w \in Workers,
               ClaimNothing(w) \/ Fail(w) \/ (Finish(w) /\ Leave(w, RolledBack, "idle"))
                 \/ (Stop(w) /\ pc[w] # "commit")
        PROVE  Rest'
    <2>1. RolledBack \in Ending /\ \A e \in Events : Backed(e, RolledBack.result)
      BY EndingsTyped DEF IInv, RolledBack, Backed
    <2>2. UNCHANGED <<rows, history>> /\ \E to \in {"idle", "down"} : Leave(w, RolledBack, to)
      BY <1>2 DEF ClaimNothing, Fail, Finish, Stop
    <2>3. QED
      BY <2>1, <2>2, LeaveKeeps DEF Rest
  <1>3. ASSUME NEW w \in Workers, LoseCommit(w) \/ (Stop(w) /\ pc[w] = "commit") PROVE Rest'
    <2>1. pc[w] = "commit" /\ EndingOf(w) \in Ending /\ EndingOf(w).result = result[w]
      BY <1>3, EndingsTyped DEF LoseCommit, IInv, EndingOf
    <2>2. ASSUME NEW e \in Events, holder[e] = w PROVE Backed(e, EndingOf(w).result)
      <3>1. claim[w] = e /\ holder[claim[w]] = w
        BY <2>1, <2>2, ConstantsAssumption DEF IInv, HoldInv
      <3>2. QED
        BY <2>1, <3>1 DEF IInv, OutcomeInv
    <2>3. UNCHANGED <<rows, history>> /\ \E to \in {"idle", "down"} : Leave(w, EndingOf(w), to)
      BY <1>3, <2>1 DEF LoseCommit, Stop
    <2>4. QED
      BY <2>1, <2>2, <2>3, LeaveKeeps DEF Rest
  <1>4. ASSUME NEW w \in Workers, Finish(w), ~Leave(w, RolledBack, "idle") PROVE Rest'
    <2>1. /\ pc[w] = "finish" /\ holder[claim[w]] = w
          /\ pc' = [pc EXCEPT ![w] = "commit"]
          /\ UNCHANGED <<rows, holder, limbo, claim, result, deliveries, verdicts, lost>>
      BY <1>4 DEF Finish
    <2>2. \A v \in Workers : pc'[v] = (IF v = w THEN "commit" ELSE pc[v])
      BY <2>1 DEF IInv, TypeOK
    <2>3. HoldInv'
      <3>1. \A e \in Events : holder[e] # None => holder[e] \in Workers
        BY DEF IInv, TypeOK
      <3>2. QED
        BY <2>1, <2>2, <3>1 DEF IInv, HoldInv, Busy, Locked, Pending
    <2>4. OutcomeInv'
      BY <2>1, <2>2 DEF IInv, OutcomeInv, Backed, Invalid, Deliverable
    <2>5. CountInv'
      BY <2>1 DEF IInv, CountInv, Invalid, Pending, Locked, Deliverable
    <2>6. QED
      BY <2>3, <2>4, <2>5 DEF Rest
  <1>5. ASSUME NEW w \in Workers, Commit(w) PROVE Rest'
    <2>1. PICK e \in Events : e = claim[w] /\ holder[e] = w
      BY <1>5 DEF Commit, IInv, HoldInv, Busy
    <2>2. PICK ending \in Ending : ending = EndingOf(w) /\ ending.result # "rollback"
                                 /\ ending.result = result[w]
      BY EndingsTyped DEF IInv, EndingOf
    <2>3. /\ pc[w] = "commit" /\ UNCHANGED history
          /\ rows' = [rows EXCEPT ![e] = Updated(@, ending)]
          /\ Leave(w, None, "idle")
      BY <1>5, <2>1, <2>2 DEF Commit
    <2>4. \A f \in Events : holder[f] = w => f = e
      BY <2>1, ConstantsAssumption DEF IInv, HoldInv
    <2>5. /\ \A f \in Events : f # e => holder'[f] = holder[f] /\ limbo'[f] = limbo[f]
          /\ holder'[e] = None /\ limbo'[e] = None
      BY <2>1, <2>3, <2>4 DEF Leave
    <2>6. Locked(e) /\ ~Locked(e)' /\ \A f \in Events : f # e => (Locked(f)' <=> Locked(f))
      BY <2>1, <2>5, ConstantsAssumption DEF Locked
    <2>7. Backed(e, ending.result)
      BY <2>1, <2>2, <2>3 DEF IInv, OutcomeInv
    <2>8. /\ \A f \in Events : f # e => rows'[f] = rows[f]
          /\ \A f \in Events : rows'[f] # None => Backed(f, rows[f].outcome)'
          /\ \A f \in Events : \A o : f # e => (Backed(f, o)' <=> Backed(f, o))
          /\ CountInv'
      BY <2>2, <2>3, <2>6, <2>7, RecordKeeps
    <2>9. ASSUME NEW v \in Workers
          PROVE  \/ pc'[v] = "idle" /\ \A f \in Events : f # e => holder[f] # v
                 \/ holder[e] # v /\ UNCHANGED <<pc[v], claim[v], result[v]>>
      BY <2>1, <2>3, <2>4 DEF Leave, IInv, TypeOK
    <2>10. QED
      BY <2>3, <2>5, <2>8, <2>9, RecordedKeeps
  <1>6. ASSUME NEW w \in Workers, Disconnect(w) PROVE Rest'
    <2>1. PICK e \in Events : e = claim[w] /\ holder[e] = w
      BY <1>6 DEF Disconnect, IInv, HoldInv, Busy
    <2>2. Locked(e) /\ holder[e] # None
      BY <2>1, ConstantsAssumption DEF Locked
    <2>3. \A v \in Workers : ~(pc[v] = "commit" /\ claim[v] = e)
      BY <1>6, <2>1 DEF Disconnect, IInv, HoldInv
    <2>4. /\ holder' = [holder EXCEPT ![e] = None]
          /\ lost' = [lost EXCEPT ![e] = @ + 1]
          /\ UNCHANGED <<rows, limbo, pc, claim, result, deliveries, verdicts>>
      BY <1>6, <2>1 DEF Disconnect
    <2>5. QED
      BY <2>2, <2>3, <2>4, DropKeeps
  <1>7. ASSUME NEW e \in Events, Enqueue(e) PROVE Rest'
    <2>1. /\ rows[e] = None
          /\ rows' = [rows EXCEPT ![e] = [outcome |-> "pending", availableAt |-> AvailableAt[e],
                                          attempts |-> Attempted[e]]]
          /\ UNCHANGED <<holder, limbo, pc, claim, result, deliveries, verdicts, lost>>
      BY <1>7 DEF Enqueue
    <2>2. /\ \A f \in Events : f # e => rows'[f] = rows[f]
          /\ rows'[e].outcome = "pending" /\ rows'[e].availableAt = AvailableAt[e]
          /\ rows'[e].attempts = Attempted[e] /\ rows'[e] # None
      <3>1. [outcome |-> "pending", availableAt |-> AvailableAt[e], attempts |-> Attempted[e]] \in Row
        BY ConstantsAssumption DEF Row
      <3>2. QED
        BY <2>1, <3>1, ConstantsAssumption DEF IInv, TypeOK
    <2>3. /\ ~Locked(e) /\ ~Locked(e)' /\ deliveries[e] = 0
          /\ \A w \in Workers : holder[e] # w
      BY <2>1, ConstantsAssumption DEF IInv, HoldInv, CountInv, Pending, Locked
    <2>4. \A f \in Events : f # e => /\ Pending(f)' <=> Pending(f)
                                     /\ Locked(f)' <=> Locked(f)
                                     /\ Invalid(f)' <=> Invalid(f)
                                     /\ Deliverable(f)' <=> Deliverable(f)
      BY <2>1, <2>2 DEF Pending, Locked, Invalid, Deliverable
    <2>5. \A f \in Events : \A o : f # e => (Backed(f, o)' <=> Backed(f, o))
      BY <2>1, <2>4 DEF Backed
    <2>6. HoldInv'
      <3>1. \A f \in Events : Locked(f)' => f # e /\ Pending(f)'
        BY <2>3, <2>4 DEF IInv, HoldInv
      <3>2. QED
        BY <2>1, <3>1 DEF IInv, HoldInv
    <2>7. OutcomeInv'
      <3>1. ASSUME NEW w \in Workers, pc[w] \in Busy, holder[claim[w]] = w
            PROVE  /\ Backed(claim[w], result[w])' <=> Backed(claim[w], result[w])
                   /\ Deliverable(claim[w])' <=> Deliverable(claim[w])
        <4>1. claim[w] \in Events /\ claim[w] # e
          BY <2>3, <3>1 DEF IInv, HoldInv
        <4>2. QED
          BY <2>1, <2>4, <2>5, <4>1 DEF Backed
      <3>2. ASSUME NEW f \in Events
            PROVE  /\ limbo'[f] # None => Backed(f, limbo[f].result)'
                   /\ rows'[f] # None => Backed(f, rows[f].outcome)'
        <4>1. CASE f = e
          BY <2>1, <2>2, <2>3, <4>1 DEF Locked, Backed
        <4>2. CASE f # e
          BY <2>1, <2>2, <2>5, <4>2 DEF IInv, OutcomeInv
        <4>3. QED
          BY <4>1, <4>2
      <3>3. QED
        BY <2>1, <3>1, <3>2 DEF IInv, OutcomeInv, Busy
    <2>8. CountInv'
      <3>1. /\ deliveries[e] <= MaxAttempts + lost[e]
            /\ Attempted[e] <= Attempted[e] + deliveries[e]
            /\ deliveries[e] <= Attempted[e] + lost[e]
            /\ deliveries[e] <= Attempted[e] + lost[e] + 1
        BY <2>3, ConstantFacts DEF IInv, TypeOK
      <3>2. QED
        BY <2>1, <2>2, <2>3, <2>4, <3>1 DEF IInv, CountInv
    <2>9. QED
      BY <2>6, <2>7, <2>8 DEF Rest
  <1>8. ASSUME NEW e \in Events, SettleAborted(e) PROVE Rest'
    <2>1. Locked(e)
      BY <1>8 DEF SettleAborted, Locked
    <2>2. QED
      BY <1>8, <2>1, DropKeeps DEF SettleAborted
  <1>9. ASSUME NEW e \in Events, SettleCommitted(e) PROVE Rest'
    <2>1. /\ limbo[e] # None /\ limbo[e].result # "rollback"
          /\ rows' = [rows EXCEPT ![e] = Updated(@, limbo[e])]
          /\ limbo' = [limbo EXCEPT ![e] = None]
          /\ UNCHANGED <<holder, pc, claim, result, deliveries, verdicts, lost>>
      BY <1>9 DEF SettleCommitted
    <2>2. PICK ending \in Ending : ending = limbo[e]
      BY <2>1 DEF IInv, TypeOK
    <2>3. /\ holder[e] = None /\ limbo'[e] = None
          /\ \A f \in Events : f # e => limbo'[f] = limbo[f]
          /\ \A v \in Workers : holder[e] # v
      BY <2>1, ConstantsAssumption DEF IInv, TypeOK, HoldInv
    <2>4. Locked(e) /\ ~Locked(e)' /\ \A f \in Events : f # e => (Locked(f)' <=> Locked(f))
      BY <2>1, <2>3 DEF Locked
    <2>5. Backed(e, ending.result)
      BY <2>1, <2>2 DEF IInv, OutcomeInv
    <2>6. /\ \A f \in Events : f # e => rows'[f] = rows[f]
          /\ \A f \in Events : rows'[f] # None => Backed(f, rows[f].outcome)'
          /\ \A f \in Events : \A o : f # e => (Backed(f, o)' <=> Backed(f, o))
          /\ CountInv'
      BY <2>1, <2>2, <2>4, <2>5, RecordKeeps
    <2>7. QED
      BY <2>1, <2>3, <2>6, RecordedKeeps
  <1>10. CASE UNCHANGED vars
    BY <1>10, AsideKeeps DEF vars
  <1>11. QED
    BY <1>1, <1>2, <1>3, <1>4, <1>5, <1>6, <1>7, <1>8, <1>9, <1>10, ClaimKeeps, HandlerKeeps, NextCases

\* The inductive invariant holds in every reachable state.
THEOREM Invariant == Spec => []IInv
  BY InitIInv, StepIInv, PTL DEF Spec

-----------------------------------------------------------------------------
(* What follows from the invariant *)

\* Every variable of a worker and of the table keeps its type; attempt_count
\* stays an integer of the database whatever its first value.
THEOREM TypeCorrect == Spec => []TypeOK
  <1>1. IInv => TypeOK
    BY DEF IInv
  <1>2. QED
    BY <1>1, Invariant, PTL

\* An event is delivered at most MaxAttempts times, and once more for each claim
\* that was rolled back (ProcessNext and Finish count every recorded attempt).
THEOREM DeliveriesAreBounded == Spec => []DeliveriesBounded
  <1>1. IInv => DeliveriesBounded
    BY DEF IInv, CountInv, DeliveriesBounded
  <1>2. QED
    BY <1>1, Invariant, PTL

\* The outcome that Finish records is backed by the deliveries of the event.
THEOREM RecordedOutcomesAreTrue == Spec => []OutcomesAreTrue
  <1>1. IInv => OutcomesAreTrue
    <2>1. SUFFICES ASSUME IInv, NEW e \in Events, rows[e] # None
                   PROVE  CASE rows[e].outcome = "completed" -> "ok" \in verdicts[e]
                            [] rows[e].outcome = "permanent" -> "refused" \in verdicts[e]
                            [] rows[e].outcome = "exhausted" -> Attempted[e] + deliveries[e] >= MaxAttempts
                            [] rows[e].outcome = "invalid" -> deliveries[e] = 0
                            [] rows[e].outcome = "pending" -> TRUE
      BY DEF OutcomesAreTrue
    <2>2. Backed(e, rows[e].outcome) /\ (Invalid(e) => deliveries[e] = 0)
      BY <2>1 DEF IInv, OutcomeInv, CountInv
    <2>3. rows[e].outcome \in Conclusions \cup {"pending"}
      BY <2>1 DEF IInv, TypeOK, Row
    <2>4. QED
      BY <2>2, <2>3 DEF Backed, Conclusions
  <1>2. QED
    BY <1>1, Invariant, PTL

\* Two handlers run on one event only when the claim of one of them was lost.
THEOREM OverlapIsALoss == Spec => []OverlapOnlyAfterLoss
  <1>1. IInv => OverlapOnlyAfterLoss
    <2>1. SUFFICES ASSUME IInv, NEW v \in Workers, NEW w \in Workers, v # w,
                          pc[v] = "handling", pc[w] = "handling", claim[v] = claim[w]
                   PROVE  lost[claim[w]] > 0
      BY DEF OverlapOnlyAfterLoss
    <2>2. claim[w] \in Events /\ lost[claim[w]] # 0
      BY <2>1 DEF IInv, HoldInv, Busy
    <2>3. QED
      BY <2>1, <2>2 DEF IInv, TypeOK
  <1>2. QED
    BY <1>1, Invariant, PTL

-----------------------------------------------------------------------------
(* How a row changes *)

\* A transaction records its ending in the row of e.
Recorded(e, ending) ==
  /\ ending.result # "rollback"
  /\ Pending(e)
  /\ Backed(e, ending.result)
  /\ rows' = [rows EXCEPT ![e] = Updated(@, ending)]
  /\ UNCHANGED history

\* A row is written when its event is enqueued and when a transaction that has
\* it locked is committed, by the worker or later by the server.
LEMMA RowSteps ==
  ASSUME IInv, [Next]_vars
  PROVE  \/ UNCHANGED rows
         \/ \E e \in Events : Enqueue(e)
         \/ \E e \in Events, ending \in Ending : Recorded(e, ending)
  <1>1. ASSUME NEW w \in Workers, Commit(w)
        PROVE  \E e \in Events, ending \in Ending : Recorded(e, ending)
    <2>1. PICK e \in Events : e = claim[w] /\ holder[e] = w
      BY <1>1 DEF Commit, IInv, HoldInv, Busy
    <2>2. PICK ending \in Ending : ending = EndingOf(w) /\ ending.result # "rollback"
                                 /\ ending.result = result[w]
      BY EndingsTyped DEF IInv, EndingOf
    <2>3. Pending(e)
      BY <2>1, ConstantsAssumption DEF IInv, HoldInv, Locked
    <2>4. Backed(e, ending.result)
      BY <1>1, <2>1, <2>2 DEF Commit, IInv, OutcomeInv
    <2>5. QED
      BY <1>1, <2>1, <2>2, <2>3, <2>4 DEF Recorded, Commit
  <1>2. ASSUME NEW e \in Events, SettleCommitted(e)
        PROVE  \E ending \in Ending : Recorded(e, ending)
    <2>1. PICK ending \in Ending : ending = limbo[e]
      BY <1>2 DEF SettleCommitted, IInv, TypeOK
    <2>2. Pending(e) /\ Backed(e, ending.result)
      BY <1>2, <2>1 DEF SettleCommitted, IInv, HoldInv, OutcomeInv, Locked
    <2>3. QED
      BY <1>2, <2>1, <2>2 DEF SettleCommitted, Recorded
  <1>3. ASSUME NEW w \in Workers,
               \/ Poll(w) \/ ClaimNothing(w) \/ Claim(w) \/ HandlerReturns(w) \/ Finish(w)
               \/ LoseCommit(w) \/ Fail(w) \/ Disconnect(w) \/ Stop(w) \/ Start(w) \/ Tick(w) \/ SetBack(w)
        PROVE  UNCHANGED rows
    BY <1>3 DEF Poll, ClaimNothing, Claim, HandlerReturns, Finish, LoseCommit, Fail, Disconnect, Stop,
       Start, Tick, SetBack
  <1>4. ASSUME NEW e \in Events, SettleAborted(e) PROVE UNCHANGED rows
    BY <1>4 DEF SettleAborted
  <1>5. CASE UNCHANGED vars
    BY <1>5 DEF vars
  <1>6. QED
    BY <1>1, <1>2, <1>3, <1>4, <1>5, NextCases

\* What a recorded ending leaves in the row.
LEMMA RecordedFacts ==
  ASSUME IInv, NEW e \in Events, NEW ending \in Ending, Recorded(e, ending)
  PROVE  /\ rows[e] # None /\ rows[e].outcome = "pending"
         /\ rows'[e] \in Row /\ rows'[e] # None
         /\ rows'[e].attempts >= rows[e].attempts
         /\ ending.result = "retry" => rows'[e].outcome = "pending"
         /\ ending.result # "retry" => rows'[e].outcome = ending.result
         /\ \A f \in Events : f # e => rows'[f] = rows[f]
  <1>1. rows[e] \in Row /\ rows[e].outcome = "pending" /\ rows[e] # None
    BY DEF Recorded, Pending, IInv, TypeOK
  <1>2. /\ rows'[e] = Updated(rows[e], ending)
        /\ \A f \in Events : f # e => rows'[f] = rows[f]
    BY DEF Recorded, IInv, TypeOK
  <1>3. QED
    BY <1>1, <1>2, UpdatedFacts, ConstantsAssumption DEF Recorded

\* A concluded row is never written again and no attempt is ever uncounted,
\* even by a commit that was in doubt when its worker went on.
THEOREM Final == Spec => ConclusionsAreFinal
  <1>1. ASSUME IInv, [Next]_vars, NEW e \in Events, rows[e] # None
        PROVE  /\ rows[e].outcome # "pending" => rows'[e] = rows[e]
               /\ rows'[e].attempts >= rows[e].attempts
    <2>1. rows[e].attempts >= rows[e].attempts
      BY <1>1 DEF IInv, TypeOK, Row
    <2>2. CASE UNCHANGED rows
      BY <2>1, <2>2
    <2>3. ASSUME NEW f \in Events, Enqueue(f)
          PROVE  rows'[e] = rows[e]
      BY <1>1, <2>3 DEF Enqueue, IInv, TypeOK
    <2>4. ASSUME NEW f \in Events, NEW ending \in Ending, Recorded(f, ending)
          PROVE  /\ rows[e].outcome # "pending" => rows'[e] = rows[e]
                 /\ rows'[e].attempts >= rows[e].attempts
      BY <1>1, <2>1, <2>4, RecordedFacts
    <2>5. QED
      BY <1>1, <2>1, <2>2, <2>3, <2>4, RowSteps
  <1>2. IInv /\ [Next]_vars =>
          [\A e \in Events : rows[e] # None =>
             /\ rows[e].outcome # "pending" => rows'[e] = rows[e]
             /\ rows'[e].attempts >= rows[e].attempts]_vars
    BY <1>1
  <1>3. QED
    BY <1>2, Invariant, PTL DEF Spec, ConclusionsAreFinal

-----------------------------------------------------------------------------
(* The refinement of OutboxDelivery *)

\* What the abstract outbox sees of the rows.
Status == [e \in Events |-> IF rows[e] = None THEN "absent" ELSE rows[e].outcome]

MalformedRows == {e \in Events : e \in Malformed \/ AvailableAt[e] = Never}

\* Initially every event is absent on both levels.
LEMMA DeliveryInit == Init => Delivery!Init
  BY DEF Init, Delivery!Init

\* A row is invalid because its event is malformed, whoever claims it and when.
LEMMA InvalidIsMalformed ==
  ASSUME IInv, NEW e \in Events, rows[e] # None
  PROVE  Invalid(e) <=> e \in MalformedRows
  BY DEF IInv, CountInv, Invalid, MalformedRows

\* Recording a conclusion concludes the event; recording a retry is a stutter.
LEMMA RecordedConcludes ==
  ASSUME IInv, NEW e \in Events, NEW ending \in Ending, Recorded(e, ending)
  PROVE  [Delivery!Next]_(Delivery!vars)
  <1>1. UNCHANGED <<deliveries, verdicts>>
    BY DEF Recorded, history
  <1>2. /\ rows[e] # None /\ rows[e].outcome = "pending" /\ rows'[e] # None
        /\ \A f \in Events : f # e => rows'[f] = rows[f]
    BY RecordedFacts
  <1>3. CASE ending.result = "retry"
    <2>1. rows'[e].outcome = "pending"
      BY <1>3, RecordedFacts
    <2>2. Status' = Status
      BY <1>2, <2>1 DEF Status
    <2>3. QED
      BY <1>1, <2>2 DEF Delivery!vars, Status
  <1>4. CASE ending.result # "retry"
    <2>1. PICK c \in Conclusions : c = ending.result
      BY <1>4 DEF Recorded, Ending, Results
    <2>2. rows'[e].outcome = c
      BY <1>4, <2>1, RecordedFacts
    <2>3. Status' = [Status EXCEPT ![e] = c] /\ Status[e] = "pending"
      BY <1>2, <2>2 DEF Status
    <2>4. Backed(e, c)
      BY <2>1 DEF Recorded
    <2>5. c = "invalid" => e \in MalformedRows
      BY <1>2, <2>4, InvalidIsMalformed DEF Backed
    <2>6. Delivery!Backed(e, c)
      BY <2>1, <2>4, <2>5 DEF Backed, Delivery!Backed, Conclusions, MalformedRows
    <2>7. Delivery!Conclude(e, c)
      BY <1>1, <2>3, <2>6 DEF Delivery!Conclude, Status
    <2>8. QED
      BY <2>7 DEF Delivery!Next, Conclusions
  <1>5. QED
    BY <1>3, <1>4

\* Every step of the workers is a step of the abstract outbox or a stutter.
LEMMA DeliveryStep == IInv /\ [Next]_vars => [Delivery!Next]_(Delivery!vars)
  <1> SUFFICES ASSUME IInv, [Next]_vars PROVE [Delivery!Next]_(Delivery!vars)
    OBVIOUS
  <1>1. ASSUME NEW e \in Events, Enqueue(e) PROVE Delivery!Publish(e)
    <2>1. /\ rows[e] = None /\ rows'[e].outcome = "pending" /\ rows'[e] # None
          /\ \A f \in Events : f # e => rows'[f] = rows[f]
      <3>1. [outcome |-> "pending", availableAt |-> AvailableAt[e], attempts |-> Attempted[e]] \in Row
        BY ConstantsAssumption DEF Row
      <3>2. QED
        BY <1>1, <3>1, ConstantsAssumption DEF Enqueue, IInv, TypeOK
    <2>2. Status[e] = "absent" /\ Status' = [Status EXCEPT ![e] = "pending"]
      BY <2>1 DEF Status
    <2>3. UNCHANGED <<deliveries, verdicts>>
      BY <1>1 DEF Enqueue, history
    <2>4. QED
      BY <2>2, <2>3 DEF Delivery!Publish, Status
  <1>2. ASSUME NEW w \in Workers, Claim(w) PROVE [Delivery!Next]_(Delivery!vars)
    <2>1. Status' = Status /\ UNCHANGED verdicts
      BY <1>2 DEF Claim, Status
    <2>2. PICK e \in Events :
            /\ Pending(e)
            /\ \/ UNCHANGED deliveries
               \/ ~Invalid(e) /\ deliveries' = [deliveries EXCEPT ![e] = @ + 1]
      BY <1>2 DEF Claim, Due
    <2>3. CASE UNCHANGED deliveries
      BY <2>1, <2>3 DEF Delivery!vars, Status
    <2>4. CASE ~Invalid(e) /\ deliveries' = [deliveries EXCEPT ![e] = @ + 1]
      <3>1. e \notin MalformedRows /\ Status[e] = "pending"
        BY <2>2, <2>4, InvalidIsMalformed DEF Pending, Status
      <3>2. Delivery!Deliver(e)
        BY <2>1, <2>4, <3>1 DEF Delivery!Deliver, Status, MalformedRows
      <3>3. QED
        BY <3>2 DEF Delivery!Next
    <2>5. QED
      BY <2>2, <2>3, <2>4
  <1>3. ASSUME NEW w \in Workers, HandlerReturns(w) PROVE [Delivery!Next]_(Delivery!vars)
    <2>1. PICK e \in Events : e = claim[w] /\ deliveries[e] > 0
      BY <1>3 DEF HandlerReturns, IInv, HoldInv, OutcomeInv, Busy
    <2>2. PICK verdict \in Verdicts : verdicts' = [verdicts EXCEPT ![e] = @ \cup {verdict}]
      BY <1>3, <2>1 DEF HandlerReturns
    <2>3. Status' = Status /\ UNCHANGED deliveries
      BY <1>3 DEF HandlerReturns, Status
    <2>4. Delivery!Answer(e, verdict)
      BY <2>1, <2>2, <2>3 DEF Delivery!Answer, Status
    <2>5. QED
      BY <2>4 DEF Delivery!Next, Verdicts
  <1>4. ASSUME UNCHANGED <<rows, deliveries, verdicts>> PROVE UNCHANGED Delivery!vars
    BY <1>4 DEF Delivery!vars
  <1>5. ASSUME NEW w \in Workers,
               \/ Poll(w) \/ ClaimNothing(w) \/ Finish(w) \/ LoseCommit(w) \/ Fail(w)
               \/ Disconnect(w) \/ Stop(w) \/ Start(w) \/ Tick(w) \/ SetBack(w)
        PROVE  UNCHANGED <<rows, deliveries, verdicts>>
    BY <1>5 DEF Poll, ClaimNothing, Finish, LoseCommit, Fail, Disconnect, Stop, Start, Tick, SetBack,
       history
  <1>6. ASSUME NEW e \in Events, SettleAborted(e) PROVE UNCHANGED <<rows, deliveries, verdicts>>
    BY <1>6 DEF SettleAborted
  <1>7. ASSUME UNCHANGED rows, NEW w \in Workers, Commit(w) PROVE UNCHANGED <<rows, deliveries, verdicts>>
    BY <1>7 DEF Commit, history
  <1>8. ASSUME UNCHANGED rows, NEW e \in Events, SettleCommitted(e)
        PROVE  UNCHANGED <<rows, deliveries, verdicts>>
    BY <1>8 DEF SettleCommitted, history
  <1>9. CASE \E e \in Events : Enqueue(e)
    BY <1>1, <1>9 DEF Delivery!Next
  <1>10. CASE \E e \in Events, ending \in Ending : Recorded(e, ending)
    BY <1>10, RecordedConcludes
  <1>11. CASE UNCHANGED rows
    <2>1. CASE UNCHANGED vars
      BY <1>4, <2>1 DEF vars, history
    <2>2. CASE Next
      BY <1>2, <1>3, <1>4, <1>5, <1>6, <1>7, <1>8, <1>9, <1>11, <2>2, NextCases
    <2>3. QED
      BY <2>1, <2>2
  <1>12. QED
    BY <1>9, <1>10, <1>11, RowSteps

\* The workers implement the abstract outbox: at-least-once delivery until a
\* conclusion that the deliveries justify, and none afterwards begins.
THEOREM Refinement == Spec => ImplementsDelivery
  <1>1. Spec => Delivery!Spec
    BY DeliveryInit, DeliveryStep, Invariant, PTL DEF Spec, Delivery!Spec
  <1>2. QED
    BY <1>1 DEF ImplementsDelivery
===============================================================================
