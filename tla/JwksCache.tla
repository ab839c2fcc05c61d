------------------------------- MODULE JwksCache -------------------------------
(***************************************************************************)
(* The identity provider's key sets as the control plane's token            *)
(* verifications share them: VerifyOIDCToken with its deadline, RoundTrip   *)
(* and the OIDCJWKSCache entry of one URL and algorithm.  A key set is the   *)
(* number of rotations before it; what tokens and keys look like is left    *)
(* out.  The clock moves in steps, and a goroutine may be delayed between   *)
(* any two steps of its own.                                                *)
(***************************************************************************)
EXTENDS Integers, Sequences

CONSTANTS Requests,     \* verifications at a time, each of one token after another
          Refresh,      \* minOIDCJWKSRefresh: 30 s
          Deadline,     \* oidcVerificationTimeout: 5 s
          MaxClock,     \* bound
          MaxRotations, \* bound
          None

ASSUME JwksAssumption ==
  /\ Refresh \in Nat /\ Deadline \in Nat
  /\ MaxClock \in Nat /\ MaxRotations \in Nat
  /\ None \notin Nat \cup Requests

VARIABLES
  clock,
  rotations,   \* when the provider replaced its first, second ... key set
  body,        \* entry.body
  lastAttempt, \* entry.lastAttempt
  inFlight,    \* entry.inFlight: the request whose fetch it stands for
  pc,          \* where each request is
  ends,        \* when its operationCtx is done
  now,         \* its reading of the clock in RoundTrip
  got,         \* the key set it has
  sentAt       \* history: when the provider was last asked

entry == <<body, lastAttempt, inFlight>>
provider == <<rotations, sentAt>>
request == <<pc, ends, now, got>>
vars == <<clock, provider, entry, request>>

Time == 0..MaxClock
KeySets == 0..MaxRotations
Published == Len(rotations)
Steps == {"idle", "clock", "lock", "wait", "woken", "send", "answer", "finish", "verify", "ok"}

Expired(r) == clock >= ends[r]
Goes(r, from, to) == pc[r] = from /\ pc' = [pc EXCEPT ![r] = to]

\* The verification is over: accepted, or idle again.
Ends(r, from, to) ==
  /\ Goes(r, from, to)
  /\ ends' = [ends EXCEPT ![r] = 0]
  /\ now' = [now EXCEPT ![r] = 0]
  /\ got' = [got EXCEPT ![r] = None]

Init ==
  /\ clock = 0 /\ rotations = <<>> /\ sentAt = None
  /\ body = None /\ lastAttempt = None /\ inFlight = None
  /\ pc = [r \in Requests |-> "idle"]
  /\ ends = [r \in Requests |-> 0]
  /\ now = [r \in Requests |-> 0]
  /\ got = [r \in Requests |-> None]

-----------------------------------------------------------------------------
(* A verification *)

Begin(r) ==
  /\ clock + Deadline <= MaxClock
  /\ \E from \in {"idle", "ok"} : Goes(r, from, "clock")
  /\ ends' = [ends EXCEPT ![r] = clock + Deadline]
  /\ UNCHANGED <<clock, provider, entry, now, got>>

\* The client of the HTTP request goes away: operationCtx is done at once.
Cancel(r) ==
  /\ pc[r] \notin {"idle", "ok"} /\ ~Expired(r)
  /\ ends' = [ends EXCEPT ![r] = 0]
  /\ UNCHANGED <<clock, provider, entry, pc, now, got>>

ReadClock(r) ==
  /\ Goes(r, "clock", "lock")
  /\ now' = [now EXCEPT ![r] = clock]
  /\ UNCHANGED <<clock, provider, entry, ends, got>>

\* beforeFetch under the lock: someone else's fetch is awaited.
AwaitFetch(r) ==
  /\ inFlight # None
  /\ Goes(r, "lock", "wait")
  /\ UNCHANGED <<clock, provider, entry, ends, now, got>>

\* Its end, or the request's own.
WakeUp(r) ==
  /\ \/ Goes(r, "woken", "lock") /\ UNCHANGED <<ends, now, got>>
     \/ Expired(r) /\ \E from \in {"wait", "woken"} : Ends(r, from, "idle")
  /\ UNCHANGED <<clock, provider, entry>>

\* The last attempt is less than Refresh old, by the request's own reading.
Recent(r) == lastAttempt # None /\ now[r] < lastAttempt + Refresh

\* What that attempt brought is used; nothing, if it failed.
UseCached(r) ==
  /\ inFlight = None /\ Recent(r)
  /\ IF body = None
     THEN Ends(r, "lock", "idle")
     ELSE Goes(r, "lock", "verify") /\ got' = [got EXCEPT ![r] = body] /\ UNCHANGED <<ends, now>>
  /\ UNCHANGED <<clock, provider, entry>>

\* Mutant of StartFetch: a fetch in flight does not keep another from starting.
StartFetch_Together(r) ==
  /\ inFlight # None \/ ~Recent(r)
  /\ Goes(r, "lock", "send")
  /\ lastAttempt' = now[r] /\ inFlight' = r
  /\ UNCHANGED <<clock, provider, body, ends, now, got>>

StartFetch(r) ==
  /\ inFlight = None /\ ~Recent(r)
  /\ Goes(r, "lock", "send")
  /\ lastAttempt' = now[r] /\ inFlight' = r
  /\ UNCHANGED <<clock, provider, body, ends, now, got>>

\* The provider is asked, unless the request has no time left.
Send(r) ==
  /\ IF Expired(r)
     THEN Goes(r, "send", "finish") /\ UNCHANGED sentAt
     ELSE Goes(r, "send", "answer") /\ sentAt' = clock
  /\ UNCHANGED <<clock, rotations, entry, ends, now, got>>

\* The provider answers with its key set, or with nothing that can be used.
Answer(r) ==
  /\ Goes(r, "answer", "finish")
  /\ \E keys \in {Published, None} : got' = [got EXCEPT ![r] = keys]
  /\ UNCHANGED <<clock, provider, entry, ends, now>>

\* It has not answered, or its answer is not all there, when the time is up.
TimeOut(r) ==
  /\ pc[r] \in {"answer", "finish"} /\ Expired(r)
  /\ Goes(r, pc[r], "finish")
  /\ got' = [got EXCEPT ![r] = None]
  /\ UNCHANGED <<clock, provider, entry, ends, now>>

\* A request that has fetched goes on with what it got, and those that wait for
\* it are woken if the channel is closed.
Fetched(r, closed) ==
  LET woken == [s \in Requests |-> IF closed /\ pc[s] = "wait" THEN "woken" ELSE pc[s]]
  IN /\ pc[r] = "finish"
     /\ pc' = [woken EXCEPT ![r] = IF got[r] = None THEN "idle" ELSE "verify"]
     /\ IF got[r] # None THEN UNCHANGED <<ends, now>>
        ELSE ends' = [ends EXCEPT ![r] = 0] /\ now' = [now EXCEPT ![r] = 0]

\* Mutant of FinishFetch: a fetch that brought nothing stays in flight.
FinishFetch_OnlyGood(r) ==
  /\ Fetched(r, got[r] # None)
  /\ body' = got[r]
  /\ inFlight' = IF got[r] = None THEN inFlight ELSE None
  /\ UNCHANGED <<clock, provider, lastAttempt, got>>

\* Mutant of FinishFetch: the attempt is dated when it ends.
FinishFetch_Dated(r) ==
  /\ Fetched(r, TRUE)
  /\ body' = got[r] /\ lastAttempt' = clock /\ inFlight' = None
  /\ UNCHANGED <<clock, provider, got>>

\* finishFetch: the cache has what the fetch brought, good or not.
FinishFetch(r) ==
  /\ Fetched(r, TRUE)
  /\ body' = got[r] /\ inFlight' = None
  /\ UNCHANGED <<clock, provider, lastAttempt, got>>

\* The token's signature is checked against the key set, then the time.
Verify(r) ==
  /\ \/ ~Expired(r) /\ Ends(r, "verify", "ok")
     \/ Ends(r, "verify", "idle")
  /\ UNCHANGED <<clock, provider, entry>>

-----------------------------------------------------------------------------
Tick ==
  /\ clock < MaxClock
  /\ clock' = clock + 1
  /\ UNCHANGED <<provider, entry, pc, ends, now, got>>

\* The provider replaces its key set.
Rotate ==
  /\ Len(rotations) < MaxRotations
  /\ rotations' = Append(rotations, clock)
  /\ UNCHANGED <<clock, sentAt, entry, pc, ends, now, got>>

\* What a request does by itself; the provider may never answer.
Step(r) ==
  \/ ReadClock(r) \/ AwaitFetch(r) \/ WakeUp(r) \/ UseCached(r) \/ StartFetch(r)
  \/ Send(r) \/ FinishFetch(r) \/ Verify(r)
  \/ pc[r] = "answer" /\ TimeOut(r)

Next ==
  \/ \E r \in Requests : Begin(r) \/ Cancel(r) \/ Answer(r) \/ TimeOut(r) \/ Step(r)
  \/ Tick \/ Rotate

Spec == Init /\ [][Next]_vars

\* Goroutines run and time passes.
FairSpec == Spec /\ WF_vars(Tick) /\ \A r \in Requests : WF_vars(Step(r))

-----------------------------------------------------------------------------
(* Properties *)

\* A token is accepted only with a key set that the provider was still publishing
\* less than Refresh and Deadline ago: the keys of a replaced set stop working,
\* however requests wait for each other's fetches and however long they are
\* delayed between reading the clock and using the cache (RoundTrip, beforeFetch,
\* finishFetch).  It is what holds in place of KeysWithinRefresh.
KeysAreFresh ==
  [][\A r \in Requests :
       pc[r] = "verify" /\ pc'[r] = "ok" =>
         got[r] = Published \/ rotations[got[r] + 1] > clock - (Refresh + Deadline)]_vars

\* "Consult that cache on every signature verification so even a locally known key
\* must be refreshed within 30 seconds"
\* (docs/plans/2026-07-17-m2-single-owner-control-plane.md): a key set by which a
\* token is accepted was replaced no longer than Refresh ago.  It is about RoundTrip,
\* which reads the clock before anything that can delay the verification.
KeysWithinRefresh ==
  [][\A r \in Requests :
       pc[r] = "verify" /\ pc'[r] = "ok" =>
         got[r] = Published \/ rotations[got[r] + 1] >= clock - Refresh]_vars

\* However many tokens come, with whatever unknown keys, the provider is asked
\* again only after more than Refresh - Deadline: by one request at a time, and
\* after a failure no sooner.
TrafficIsBounded ==
  [][\A r \in Requests :
       pc[r] = "send" /\ pc'[r] = "answer" =>
         sentAt = None \/ clock - sentAt > Refresh - Deadline]_vars

\* A fetch does not stay in flight, though the provider never answers, its client
\* goes away or its request runs out of time; until it ends every other request
\* can only wait out its own deadline.
FetchEnds == inFlight # None ~> inFlight = None
===============================================================================
