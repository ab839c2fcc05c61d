----------------------------- MODULE JwksCacheProofs -----------------------------
(***************************************************************************)
(* Theorems about JwksCache, for any number of requests and rotations and   *)
(* every refresh interval and deadline.  IInv is the inductive invariant:    *)
(* its parts say which reading of the clock dates what a request knows, who  *)
(* fetches, how old the keys are that pass from one request to another, and  *)
(* when the provider was last asked.                                        *)
(***************************************************************************)
EXTENDS JwksCache, TLAPS, SequenceTheorems

\* Times are natural numbers; what is missing is None.
TypeInv ==
  /\ clock \in Nat
  /\ rotations \in Seq(Nat)
  /\ sentAt \in Nat \cup {None}
  /\ body \in Nat \cup {None}
  /\ lastAttempt \in Nat \cup {None}
  /\ inFlight \in Requests \cup {None}
  /\ pc \in [Requests -> Steps]
  /\ ends \in [Requests -> Nat]
  /\ now \in [Requests -> Nat]
  /\ got \in [Requests -> Nat \cup {None}]

\* Readings of the clock are past ones, and a request ends within Deadline of its
\* own reading.
TimeInv ==
  /\ lastAttempt # None => lastAttempt <= clock
  /\ \A r \in Requests :
       /\ now[r] <= clock
       /\ pc[r] = "clock" => ends[r] <= clock + Deadline
       /\ pc[r] \notin {"idle", "clock", "ok"} => ends[r] <= now[r] + Deadline

\* The request in flight is the only one that fetches, and its reading is the date
\* of the attempt.
FetchInv ==
  \A r \in Requests :
    /\ pc[r] \in {"send", "answer", "finish"} <=> inFlight = r
    /\ inFlight = r => lastAttempt = now[r]

\* A key set that the provider published at a time, or later.
Current(keys, time) ==
  keys = Published \/ (keys < Published /\ rotations[keys + 1] >= time)

\* What a fetch brought is as new as its attempt, and so is what the cache holds
\* when no fetch is in flight; what a request verifies with is at most Refresh
\* older than the request's reading.
KeyInv ==
  /\ \A r \in Requests :
       /\ pc[r] \notin {"finish", "verify"} => got[r] = None
       /\ pc[r] = "finish" /\ got[r] # None => Current(got[r], now[r])
       /\ pc[r] = "verify" => got[r] # None /\ Current(got[r], now[r] - Refresh)
  /\ inFlight = None /\ body # None => lastAttempt # None /\ Current(body, lastAttempt)

\* The provider was asked within Deadline of the last attempt; a request that is
\* about to ask it again has a later reading.
SentInv ==
  sentAt # None =>
    /\ lastAttempt # None /\ sentAt < lastAttempt + Deadline
    /\ \A r \in Requests : pc[r] = "send" => now[r] > sentAt + Refresh - Deadline

IInv == TypeInv /\ TimeInv /\ FetchInv /\ KeyInv /\ SentInv

-----------------------------------------------------------------------------

\* The number of rotations is a number.
LEMMA PublishedNat == TypeInv => Published \in Nat
  BY LenProperties DEF TypeInv, Published

\* One request takes a step; the others stay where they are.
LEMMA GoesFacts ==
  ASSUME TypeInv, NEW r \in Requests, NEW from, NEW to \in Steps, Goes(r, from, to)
  PROVE  /\ pc[r] = from /\ pc'[r] = to
         /\ \A q \in Requests : q # r => pc'[q] = pc[q]
         /\ pc' \in [Requests -> Steps]
  BY DEF TypeInv, Goes

\* A request that ends forgets what it knew.
LEMMA EndsFacts ==
  ASSUME TypeInv, NEW r \in Requests, NEW from, NEW to \in Steps, Ends(r, from, to)
  PROVE  /\ ends'[r] = 0 /\ now'[r] = 0 /\ got'[r] = None
         /\ \A q \in Requests : q # r => ends'[q] = ends[q] /\ now'[q] = now[q] /\ got'[q] = got[q]
         /\ ends' \in [Requests -> Nat]
         /\ now' \in [Requests -> Nat]
         /\ got' \in [Requests -> Nat \cup {None}]
  BY DEF TypeInv, Ends

\* A fetch that ends wakes the requests that wait, and no other moves.
LEMMA FetchedFacts ==
  ASSUME TypeInv, NEW r \in Requests, Fetched(r, TRUE)
  PROVE  /\ pc'[r] = IF got[r] = None THEN "idle" ELSE "verify"
         /\ \A q \in Requests : q # r => \/ pc'[q] = pc[q]
                                          \/ (pc[q] = "wait" /\ pc'[q] = "woken")
         /\ pc' \in [Requests -> Steps]
         /\ got[r] # None => UNCHANGED <<ends, now>>
         /\ got[r] = None => ends'[r] = 0 /\ now'[r] = 0
         /\ \A q \in Requests : q # r => ends'[q] = ends[q] /\ now'[q] = now[q]
         /\ ends' \in [Requests -> Nat] /\ now' \in [Requests -> Nat]
  <1> DEFINE woken == [s \in Requests |-> IF pc[s] = "wait" THEN "woken" ELSE pc[s]]
             to == IF got[r] = None THEN "idle" ELSE "verify"
  <1>1. pc' = [woken EXCEPT ![r] = to]
    BY DEF Fetched
  <1>2. woken \in [Requests -> Steps] /\ to \in Steps
    BY DEF TypeInv, Steps
  <1>3. \A q \in Requests : woken[q] = IF pc[q] = "wait" THEN "woken" ELSE pc[q]
    OBVIOUS
  <1> HIDE DEF woken, to
  <1>4. pc'[r] = to /\ (\A q \in Requests : q # r => pc'[q] = woken[q]) /\ pc' \in [Requests -> Steps]
    BY <1>1, <1>2
  <1>5. CASE got[r] # None
    BY <1>3, <1>4, <1>5 DEF TypeInv, Fetched, to
  <1>6. CASE got[r] = None
    <2>1. ends' = [ends EXCEPT ![r] = 0] /\ now' = [now EXCEPT ![r] = 0]
      BY <1>6 DEF Fetched
    <2>2. QED
      BY <1>3, <1>4, <1>6, <2>1 DEF TypeInv, to
  <1>7. QED
    BY <1>5, <1>6

\* A request that ends without fetching, accepted or not, disturbs no other.
LEMMA EndsKeepsIInv ==
  ASSUME IInv, NEW r \in Requests,
         NEW from \in {"lock", "wait", "woken", "verify"}, NEW to \in {"idle", "ok"},
         Ends(r, from, to), UNCHANGED <<clock, provider, entry>>
  PROVE  IInv'
  <1>1. TypeInv /\ to \in Steps /\ Goes(r, from, to)
    BY DEF IInv, Steps, Ends
  <1>2. /\ pc[r] = from /\ pc'[r] = to
        /\ \A q \in Requests : q # r => pc'[q] = pc[q]
        /\ pc' \in [Requests -> Steps]
    BY <1>1, GoesFacts
  <1>3. /\ ends'[r] = 0 /\ now'[r] = 0 /\ got'[r] = None
        /\ \A q \in Requests : q # r => ends'[q] = ends[q] /\ now'[q] = now[q] /\ got'[q] = got[q]
        /\ ends' \in [Requests -> Nat]
        /\ now' \in [Requests -> Nat]
        /\ got' \in [Requests -> Nat \cup {None}]
    BY <1>1, EndsFacts
  <1>4. TypeInv'
    BY <1>1, <1>2, <1>3 DEF TypeInv, provider, entry
  <1>5. TimeInv'
    <2>1. clock \in Nat /\ UNCHANGED <<clock, lastAttempt>> /\ TimeInv
      BY DEF IInv, TypeInv, entry
    <2>2. ASSUME NEW q \in Requests
          PROVE  /\ now'[q] <= clock
                 /\ pc'[q] = "clock" => ends'[q] <= clock + Deadline
                 /\ pc'[q] \notin {"idle", "clock", "ok"} => ends'[q] <= now'[q] + Deadline
      <3>1. CASE q = r
        BY <1>2, <1>3, <2>1, <3>1
      <3>2. CASE q # r
        BY <1>2, <1>3, <2>1, <3>2 DEF TimeInv
      <3>3. QED
        BY <3>1, <3>2
    <2>3. QED
      BY <2>1, <2>2 DEF TimeInv
  <1>6. FetchInv'
    BY <1>2, <1>3 DEF IInv, FetchInv, entry
  <1>7. KeyInv'
    BY <1>2, <1>3 DEF IInv, KeyInv, Current, Published, provider, entry
  <1>8. SentInv'
    BY <1>2, <1>3 DEF IInv, SentInv, provider, entry
  <1>9. QED
    BY <1>4, <1>5, <1>6, <1>7, <1>8 DEF IInv

\* Nor does one that only moves on to wait or to look again.
LEMMA WaitingKeepsIInv ==
  ASSUME IInv, NEW r \in Requests,
         NEW from \in {"lock", "wait", "woken"}, NEW to \in {"lock", "wait", "woken"},
         Goes(r, from, to), UNCHANGED <<clock, provider, entry, ends, now, got>>
  PROVE  IInv'
  <1>1. /\ pc[r] = from /\ pc'[r] = to
        /\ \A q \in Requests : q # r => pc'[q] = pc[q]
        /\ pc' \in [Requests -> Steps]
    BY GoesFacts DEF IInv, Steps
  <1>2. TypeInv'
    BY <1>1 DEF IInv, TypeInv, provider, entry
  <1>3. TimeInv'
    BY <1>1 DEF IInv, TimeInv, entry
  <1>4. FetchInv'
    BY <1>1 DEF IInv, FetchInv, entry
  <1>5. KeyInv'
    BY <1>1 DEF IInv, KeyInv, Current, Published, provider, entry
  <1>6. SentInv'
    BY <1>1 DEF IInv, SentInv, provider, entry
  <1>7. QED
    BY <1>2, <1>3, <1>4, <1>5, <1>6 DEF IInv

-----------------------------------------------------------------------------
\* The invariant holds before the first request.
THEOREM Initially == Init => IInv
  BY JwksAssumption DEF Init, IInv, TypeInv, TimeInv, FetchInv, KeyInv, SentInv, Steps

\* Every step keeps it.
THEOREM Inductive == IInv /\ [Next]_vars => IInv'
  <1> SUFFICES ASSUME IInv, [Next]_vars PROVE IInv'
    OBVIOUS
  <1>1. ASSUME NEW r \in Requests, Begin(r)
        PROVE  IInv'
    <2>1. TypeInv'
      BY <1>1, JwksAssumption DEF IInv, TypeInv, Begin, Goes, Steps, provider, entry
    <2>2. TimeInv'
      BY <1>1, JwksAssumption DEF IInv, TypeInv, TimeInv, Begin, Goes, entry
    <2>3. FetchInv'
      BY <1>1 DEF IInv, FetchInv, Begin, Goes, entry
    <2>4. KeyInv'
      BY <1>1, JwksAssumption DEF IInv, KeyInv, Current, Published, Begin, Goes, provider, entry
    <2>5. SentInv'
      BY <1>1, JwksAssumption DEF IInv, SentInv, Begin, Goes, provider, entry
    <2>6. QED
      BY <2>1, <2>2, <2>3, <2>4, <2>5 DEF IInv
  <1>2. ASSUME NEW r \in Requests, Cancel(r)
        PROVE  IInv'
    <2>1. TypeInv'
      BY <1>2, JwksAssumption DEF IInv, TypeInv, Cancel, provider, entry
    <2>2. TimeInv'
      BY <1>2, JwksAssumption DEF IInv, TypeInv, TimeInv, Cancel, entry
    <2>3. FetchInv'
      BY <1>2 DEF IInv, FetchInv, Cancel, entry
    <2>4. KeyInv'
      BY <1>2, JwksAssumption DEF IInv, KeyInv, Current, Published, Cancel, provider, entry
    <2>5. SentInv'
      BY <1>2, JwksAssumption DEF IInv, SentInv, Cancel, provider, entry
    <2>6. QED
      BY <2>1, <2>2, <2>3, <2>4, <2>5 DEF IInv
  <1>3. ASSUME NEW r \in Requests, ReadClock(r)
        PROVE  IInv'
    <2>1. /\ pc[r] = "clock" /\ pc'[r] = "lock"
          /\ \A q \in Requests : q # r => pc'[q] = pc[q]
          /\ pc' \in [Requests -> Steps]
      BY <1>3, GoesFacts DEF IInv, ReadClock, Steps
    <2>2. TypeInv'
      BY <1>3, <2>1, JwksAssumption DEF IInv, TypeInv, ReadClock, provider, entry
    <2>3. TimeInv'
      BY <1>3, <2>1, JwksAssumption DEF IInv, TypeInv, TimeInv, ReadClock, entry
    <2>4. FetchInv'
      BY <1>3, <2>1 DEF IInv, FetchInv, ReadClock, provider, entry
    <2>5. KeyInv'
      BY <1>3, <2>1, JwksAssumption DEF IInv, KeyInv, Current, Published, ReadClock, provider, entry
    <2>6. SentInv'
      BY <1>3, <2>1, JwksAssumption DEF IInv, SentInv, ReadClock, provider, entry
    <2>7. QED
      BY <2>2, <2>3, <2>4, <2>5, <2>6 DEF IInv
  <1>4. ASSUME NEW r \in Requests, AwaitFetch(r)
        PROVE  IInv'
    BY <1>4, WaitingKeepsIInv DEF AwaitFetch
  <1>5. ASSUME NEW r \in Requests, WakeUp(r)
        PROVE  IInv'
    <2>1. CASE Goes(r, "woken", "lock") /\ UNCHANGED <<ends, now, got>>
      BY <1>5, <2>1, WaitingKeepsIInv DEF WakeUp
    <2>2. CASE \E from \in {"wait", "woken"} : Ends(r, from, "idle")
      BY <1>5, <2>2, EndsKeepsIInv DEF WakeUp
    <2>3. QED
      BY <1>5, <2>1, <2>2 DEF WakeUp
  <1>6. ASSUME NEW r \in Requests, UseCached(r)
        PROVE  IInv'
    <2>1. CASE body = None
      BY <1>6, <2>1, EndsKeepsIInv DEF UseCached
    <2>2. CASE body # None
      <3>1. /\ Goes(r, "lock", "verify") /\ got' = [got EXCEPT ![r] = body]
            /\ UNCHANGED <<clock, provider, entry, ends, now>>
        BY <1>6, <2>2 DEF UseCached
      <3>2. /\ pc[r] = "lock" /\ pc'[r] = "verify"
            /\ \A q \in Requests : q # r => pc'[q] = pc[q]
            /\ pc' \in [Requests -> Steps]
        BY <3>1, GoesFacts DEF IInv, Steps
      <3>3. TypeInv'
        BY <3>1, <3>2 DEF IInv, TypeInv, provider, entry
      <3>4. TimeInv'
        BY <3>1, <3>2 DEF IInv, TimeInv, entry
      <3>5. FetchInv'
        BY <3>1, <3>2 DEF IInv, FetchInv, entry
      <3>6. KeyInv'
        <4>1. lastAttempt # None /\ now[r] - Refresh < lastAttempt /\ Current(body, lastAttempt)
          BY <1>6, <2>2, JwksAssumption DEF IInv, TypeInv, KeyInv, UseCached, Recent
        <4>2. Current(body, now[r] - Refresh)
          <5>1. CASE body = Published
            BY <5>1 DEF Current
          <5>2. CASE body < Published /\ rotations[body + 1] >= lastAttempt
            <6>1. body + 1 \in 1..Len(rotations) /\ body \in Nat
              BY <2>2, <5>2, PublishedNat DEF IInv, TypeInv, Published
            <6>2. rotations[body + 1] \in Nat
              BY <6>1, ElementOfSeq DEF IInv, TypeInv
            <6>3. QED
              BY <4>1, <5>2, <6>2, JwksAssumption DEF IInv, TypeInv, Current
          <5>3. QED
            BY <4>1, <5>1, <5>2 DEF Current
        <4>3. QED
          BY <2>2, <3>1, <3>2, <4>2 DEF IInv, TypeInv, KeyInv, Current, Published, provider, entry
      <3>7. SentInv'
        BY <3>1, <3>2 DEF IInv, SentInv, provider, entry
      <3>8. QED
        BY <3>3, <3>4, <3>5, <3>6, <3>7 DEF IInv
    <2>3. QED
      BY <2>1, <2>2
  <1>7. ASSUME NEW r \in Requests, StartFetch(r)
        PROVE  IInv'
    <2>1. /\ pc[r] = "lock" /\ pc'[r] = "send"
          /\ \A q \in Requests : q # r => pc'[q] = pc[q]
          /\ pc' \in [Requests -> Steps]
      BY <1>7, GoesFacts DEF IInv, StartFetch, Steps
    <2>2. TypeInv'
      BY <1>7, <2>1, JwksAssumption DEF IInv, TypeInv, StartFetch, provider, entry
    <2>3. TimeInv'
      BY <1>7, <2>1, JwksAssumption DEF IInv, TimeInv, StartFetch
    <2>4. FetchInv'
      <3>1. inFlight = None /\ inFlight' = r /\ lastAttempt' = now[r] /\ UNCHANGED now
        BY <1>7 DEF StartFetch
      <3>2. \A q \in Requests : inFlight # q
        BY <3>1, JwksAssumption
      <3>3. QED
        BY <2>1, <3>1, <3>2 DEF IInv, FetchInv
    <2>5. KeyInv'
      <3>1. inFlight' # None /\ UNCHANGED <<rotations, now, got>>
        BY <1>7, JwksAssumption DEF StartFetch, provider
      <3>2. QED
        BY <2>1, <3>1 DEF IInv, KeyInv, Current, Published
    <2>6. SentInv'
      BY <1>7, <2>1, JwksAssumption DEF IInv, TypeInv, SentInv, StartFetch, Recent, provider
    <2>7. QED
      BY <2>2, <2>3, <2>4, <2>5, <2>6 DEF IInv
  <1>8. ASSUME NEW r \in Requests, Send(r)
        PROVE  IInv'
    <2>1. CASE Expired(r)
      <3>1. /\ pc[r] = "send" /\ pc'[r] = "finish"
            /\ \A q \in Requests : q # r => pc'[q] = pc[q]
            /\ pc' \in [Requests -> Steps]
            /\ UNCHANGED <<clock, rotations, sentAt, body, lastAttempt, inFlight, ends, now, got>>
        BY <1>8, <2>1, GoesFacts DEF IInv, Send, Steps, entry
      <3>2. TypeInv' /\ TimeInv'
        BY <3>1 DEF IInv, TypeInv, TimeInv
      <3>3. FetchInv' /\ KeyInv' /\ SentInv'
        BY <3>1 DEF IInv, FetchInv, KeyInv, SentInv, Current, Published
      <3>4. QED
        BY <3>2, <3>3 DEF IInv
    <2>2. CASE ~Expired(r)
      <3>1. /\ pc[r] = "send" /\ pc'[r] = "answer" /\ sentAt' = clock
            /\ \A q \in Requests : q # r => pc'[q] = pc[q]
            /\ pc' \in [Requests -> Steps]
            /\ UNCHANGED <<clock, rotations, body, lastAttempt, inFlight, ends, now, got>>
        BY <1>8, <2>2, GoesFacts DEF IInv, Send, Steps, entry
      <3>2. TypeInv' /\ TimeInv'
        BY <3>1 DEF IInv, TypeInv, TimeInv
      <3>3. FetchInv' /\ KeyInv'
        BY <3>1 DEF IInv, FetchInv, KeyInv, Current, Published
      <3>4. SentInv'
        <4>1. inFlight = r /\ lastAttempt = now[r]
          BY <3>1 DEF IInv, FetchInv
        <4>2. clock < now[r] + Deadline
          <5>1. ends[r] <= now[r] + Deadline
            BY <3>1 DEF IInv, TimeInv
          <5>2. clock \in Nat /\ ends[r] \in Nat /\ now[r] \in Nat /\ Deadline \in Nat
            BY JwksAssumption DEF IInv, TypeInv
          <5>3. QED
            BY <2>2, <5>1, <5>2 DEF Expired
        <4>3. \A q \in Requests : pc'[q] # "send"
          BY <3>1, <4>1 DEF IInv, FetchInv
        <4>4. QED
          BY <3>1, <4>1, <4>2, <4>3, JwksAssumption DEF IInv, TypeInv, SentInv
      <3>5. QED
        BY <3>2, <3>3, <3>4 DEF IInv
    <2>3. QED
      BY <2>1, <2>2
  <1>9. ASSUME NEW r \in Requests, Answer(r)
        PROVE  IInv'
    <2>1. PICK keys \in {Published, None} : got' = [got EXCEPT ![r] = keys]
      BY <1>9 DEF Answer
    <2>2. /\ pc[r] = "answer" /\ pc'[r] = "finish"
          /\ \A q \in Requests : q # r => pc'[q] = pc[q]
          /\ pc' \in [Requests -> Steps]
          /\ UNCHANGED <<clock, rotations, sentAt, body, lastAttempt, inFlight, ends, now>>
      BY <1>9, GoesFacts DEF IInv, Answer, Steps, provider, entry
    <2>3. TypeInv' /\ TimeInv'
      BY <2>1, <2>2, PublishedNat DEF IInv, TypeInv, TimeInv
    <2>4. FetchInv' /\ SentInv'
      BY <2>2 DEF IInv, FetchInv, SentInv
    <2>5. KeyInv'
      BY <2>1, <2>2 DEF IInv, TypeInv, KeyInv, Current, Published
    <2>6. QED
      BY <2>3, <2>4, <2>5 DEF IInv
  <1>10. ASSUME NEW r \in Requests, TimeOut(r)
        PROVE  IInv'
    <2>1. TypeInv'
      BY <1>10, JwksAssumption DEF IInv, TypeInv, TimeOut, Goes, Steps, provider, entry
    <2>2. TimeInv'
      BY <1>10, JwksAssumption DEF IInv, TimeInv, TimeOut, Goes, entry
    <2>3. FetchInv'
      BY <1>10 DEF IInv, FetchInv, TimeOut, Goes, entry
    <2>4. KeyInv'
      BY <1>10, JwksAssumption DEF IInv, KeyInv, Current, Published, TimeOut, Goes, provider, entry
    <2>5. SentInv'
      BY <1>10, JwksAssumption DEF IInv, SentInv, TimeOut, Goes, provider, entry
    <2>6. QED
      BY <2>1, <2>2, <2>3, <2>4, <2>5 DEF IInv
  <1>11. ASSUME NEW r \in Requests, FinishFetch(r)
         PROVE  IInv'
    <2>1. /\ pc[r] = "finish" /\ inFlight = r /\ lastAttempt = now[r]
          /\ body' = got[r] /\ inFlight' = None
          /\ UNCHANGED <<clock, rotations, sentAt, lastAttempt, got>>
      BY <1>11 DEF IInv, FetchInv, FinishFetch, Fetched, provider
    <2>2. /\ pc'[r] = IF got[r] = None THEN "idle" ELSE "verify"
          /\ \A q \in Requests : q # r => \/ pc'[q] = pc[q]
                                           \/ (pc[q] = "wait" /\ pc'[q] = "woken")
          /\ pc' \in [Requests -> Steps]
      BY <1>11, FetchedFacts DEF IInv, FinishFetch
    <2>3. /\ got[r] # None => UNCHANGED <<ends, now>>
          /\ got[r] = None => ends'[r] = 0 /\ now'[r] = 0
          /\ \A q \in Requests : q # r => ends'[q] = ends[q] /\ now'[q] = now[q]
          /\ ends' \in [Requests -> Nat] /\ now' \in [Requests -> Nat]
      BY <1>11, FetchedFacts DEF IInv, FinishFetch
    <2>4. TypeInv'
      BY <2>1, <2>2, <2>3 DEF IInv, TypeInv
    <2>5. TimeInv'
      <3>1. clock \in Nat /\ UNCHANGED <<clock, lastAttempt>> /\ TimeInv
        BY <2>1 DEF IInv, TypeInv
      <3>2. ASSUME NEW q \in Requests
            PROVE  /\ now'[q] <= clock
                   /\ pc'[q] = "clock" => ends'[q] <= clock + Deadline
                   /\ pc'[q] \notin {"idle", "clock", "ok"} => ends'[q] <= now'[q] + Deadline
        <4>1. CASE q = r
          BY <2>1, <2>2, <2>3, <3>1, <4>1 DEF TimeInv
        <4>2. CASE q # r
          BY <2>2, <2>3, <3>1, <4>2 DEF TimeInv
        <4>3. QED
          BY <4>1, <4>2
      <3>3. QED
        BY <3>1, <3>2 DEF TimeInv
    <2>6. FetchInv'
      BY <2>1, <2>2, <2>3, JwksAssumption DEF IInv, FetchInv
    <2>7. KeyInv'
      <3>1. ASSUME NEW q \in Requests
            PROVE  /\ pc'[q] \notin {"finish", "verify"} => got'[q] = None
                   /\ pc'[q] # "finish"
                   /\ pc'[q] = "verify" => got'[q] # None /\ Current(got[q], now'[q] - Refresh)
        <4>1. CASE q # r
          BY <2>1, <2>2, <2>3, <4>1 DEF IInv, FetchInv, KeyInv
        <4>2. CASE q = r
          <5>1. ASSUME got[r] # None PROVE Current(got[r], now[r] - Refresh)
            <6>1. Current(got[r], now[r]) /\ got[r] \in Nat /\ now[r] \in Nat
              BY <2>1, <5>1 DEF IInv, TypeInv, KeyInv
            <6>2. CASE got[r] = Published
              BY <6>2 DEF Current
            <6>3. CASE got[r] < Published /\ rotations[got[r] + 1] >= now[r]
              <7>1. got[r] + 1 \in 1..Len(rotations)
                BY <6>1, <6>3, PublishedNat DEF IInv, Published
              <7>2. rotations[got[r] + 1] \in Nat
                BY <7>1, ElementOfSeq DEF IInv, TypeInv
              <7>3. QED
                BY <6>1, <6>3, <7>2, JwksAssumption DEF Current
            <6>4. QED
              BY <6>1, <6>2, <6>3 DEF Current
          <5>2. QED
            BY <2>1, <2>2, <2>3, <4>2, <5>1
        <4>3. QED
          BY <4>1, <4>2
      <3>2. body' # None => lastAttempt' # None /\ Current(body', lastAttempt')
        BY <2>1, JwksAssumption DEF IInv, TypeInv, KeyInv
      <3>3. \A keys, time : Current(keys, time)' <=> Current(keys', time')
        BY <2>1 DEF Current, Published
      <3>4. QED
        BY <2>1, <3>1, <3>2 DEF KeyInv, Current, Published
    <2>8. SentInv'
      BY <2>1, <2>2, <2>3 DEF IInv, FetchInv, SentInv
    <2>9. QED
      BY <2>4, <2>5, <2>6, <2>7, <2>8 DEF IInv
  <1>12. ASSUME NEW r \in Requests, Verify(r)
         PROVE  IInv'
    BY <1>12, EndsKeepsIInv DEF Verify
  <1>13. CASE Tick
    <2>1. /\ clock \in Nat /\ clock' = clock + 1
          /\ UNCHANGED <<rotations, sentAt, body, lastAttempt, inFlight, pc, ends, now, got>>
      BY <1>13 DEF IInv, TypeInv, Tick, provider, entry
    <2>2. TypeInv'
      BY <2>1 DEF IInv, TypeInv
    <2>3. TimeInv'
      BY <2>1, JwksAssumption DEF IInv, TypeInv, TimeInv
    <2>4. FetchInv' /\ KeyInv' /\ SentInv'
      BY <2>1 DEF IInv, FetchInv, KeyInv, SentInv, Current, Published
    <2>5. QED
      BY <2>2, <2>3, <2>4 DEF IInv
  <1>14. CASE Rotate
    <2>1. /\ rotations' \in Seq(Nat) /\ Published' = Published + 1
          /\ \A i \in 1..Published : rotations'[i] = rotations[i]
          /\ rotations'[Published + 1] = clock
      BY <1>14, AppendProperties DEF IInv, TypeInv, Rotate, Published
    <2>2. UNCHANGED <<clock, sentAt, body, lastAttempt, inFlight, pc, ends, now, got>>
      BY <1>14 DEF Rotate, entry
    <2>3. ASSUME NEW keys \in Nat, NEW time \in Int, time <= clock, Current(keys, time)
          PROVE  keys < Published' /\ rotations'[keys + 1] >= time
      <3>1. CASE keys = Published
        BY <2>1, <2>3, <3>1, PublishedNat DEF IInv, TypeInv
      <3>2. CASE keys < Published /\ rotations[keys + 1] >= time
        <4>1. Published \in Nat /\ keys + 1 \in 1..Published
          BY <2>3, <3>2, PublishedNat DEF IInv
        <4>2. rotations'[keys + 1] = rotations[keys + 1]
          BY <2>1, <4>1
        <4>3. QED
          BY <2>1, <2>3, <3>2, <4>1, <4>2
      <3>3. QED
        BY <2>3, <3>1, <3>2 DEF Current
    <2>4. TypeInv' /\ TimeInv' /\ FetchInv' /\ SentInv'
      BY <2>1, <2>2 DEF IInv, TypeInv, TimeInv, FetchInv, SentInv
    <2>5. KeyInv'
      <3>1. ASSUME NEW r \in Requests
            PROVE  /\ pc[r] = "finish" /\ got[r] # None => Current(got[r], now[r])'
                   /\ pc[r] = "verify" => Current(got[r], now[r] - Refresh)'
        <4>1. now[r] \in Nat /\ now[r] <= clock /\ now[r] - Refresh \in Int /\ now[r] - Refresh <= clock
          BY JwksAssumption DEF IInv, TypeInv, TimeInv
        <4>2. got[r] # None => got[r] \in Nat
          BY DEF IInv, TypeInv
        <4>3. QED
          BY <2>2, <2>3, <4>1, <4>2 DEF IInv, KeyInv, Current
      <3>2. inFlight = None /\ body # None => Current(body, lastAttempt)'
        BY <2>2, <2>3 DEF IInv, TypeInv, TimeInv, KeyInv, Current
      <3>3. QED
        BY <2>2, <3>1, <3>2 DEF IInv, KeyInv
    <2>6. QED
      BY <2>4, <2>5 DEF IInv
  <1>15. CASE UNCHANGED vars
    BY <1>15 DEF IInv, TypeInv, TimeInv, FetchInv, KeyInv, SentInv, Current, Published, vars,
                 provider, entry, request
  <1>16. QED
    BY <1>1, <1>2, <1>3, <1>4, <1>5, <1>6, <1>7, <1>8, <1>9, <1>10, <1>11, <1>12, <1>13, <1>14,
       <1>15 DEF Next, Step

-----------------------------------------------------------------------------
\* IInv is an invariant.
THEOREM Invariance == Spec => []IInv
  BY Initially, Inductive, PTL DEF Spec

\* Only a request's own step, in time, has its token accepted.
LEMMA AcceptedInTime ==
  ASSUME TypeInv, [Next]_vars, NEW r \in Requests, pc[r] = "verify", pc'[r] = "ok"
  PROVE  ~Expired(r)
  <1>1. pc' # pc
    OBVIOUS
  <1>2. PICK q \in Requests : Begin(q) \/ Cancel(q) \/ Answer(q) \/ TimeOut(q) \/ Step(q)
    BY <1>1 DEF Next, vars, request, Tick, Rotate
  <1>3. CASE FinishFetch(q)
    BY <1>3, FetchedFacts DEF FinishFetch
  <1>4. CASE Verify(q)
    BY <1>4 DEF TypeInv, Verify, Ends, Goes
  <1>5. CASE Begin(q)
    BY <1>5 DEF TypeInv, Begin, Goes
  <1>6. CASE Cancel(q) \/ Answer(q) \/ TimeOut(q)
    BY <1>6 DEF TypeInv, Cancel, Answer, TimeOut, Goes
  <1>7. CASE ReadClock(q) \/ AwaitFetch(q) \/ StartFetch(q) \/ Send(q)
    BY <1>7 DEF TypeInv, ReadClock, AwaitFetch, StartFetch, Send, Goes
  <1>8. CASE WakeUp(q) \/ UseCached(q)
    BY <1>8 DEF TypeInv, WakeUp, UseCached, Ends, Goes
  <1>9. QED
    BY <1>2, <1>3, <1>4, <1>5, <1>6, <1>7, <1>8 DEF Step

\* Keys are fresh: a token is accepted only with a key set that the provider still
\* published less than Refresh + Deadline ago.
THEOREM Freshness == Spec => KeysAreFresh
  <1>1. ASSUME IInv, [Next]_vars, NEW r \in Requests, pc[r] = "verify", pc'[r] = "ok"
        PROVE  got[r] = Published \/ rotations[got[r] + 1] > clock - (Refresh + Deadline)
    <2>1. ~Expired(r)
      BY <1>1, AcceptedInTime DEF IInv
    <2>2. clock < now[r] + Deadline
      <3>1. ends[r] <= now[r] + Deadline
        BY <1>1 DEF IInv, TimeInv
      <3>2. clock \in Nat /\ ends[r] \in Nat /\ now[r] \in Nat /\ Deadline \in Nat
        BY <1>1, JwksAssumption DEF IInv, TypeInv
      <3>3. QED
        BY <2>1, <3>1, <3>2 DEF Expired
    <2>3. Current(got[r], now[r] - Refresh) /\ got[r] \in Nat
      BY <1>1 DEF IInv, TypeInv, KeyInv
    <2>4. CASE got[r] < Published /\ rotations[got[r] + 1] >= now[r] - Refresh
      <3>1. got[r] + 1 \in 1..Len(rotations)
        BY <1>1, <2>3, <2>4, PublishedNat DEF IInv, Published
      <3>2. rotations[got[r] + 1] \in Nat
        BY <1>1, <3>1, ElementOfSeq DEF IInv, TypeInv
      <3>3. QED
        BY <1>1, <2>2, <2>4, <3>2, JwksAssumption DEF IInv, TypeInv
    <2>5. QED
      BY <2>3, <2>4 DEF Current
  <1>2. IInv /\ [Next]_vars
          => [\A r \in Requests :
                pc[r] = "verify" /\ pc'[r] = "ok" =>
                  got[r] = Published \/ rotations[got[r] + 1] > clock - (Refresh + Deadline)]_vars
    BY <1>1
  <1>3. QED
    BY <1>2, Invariance, PTL DEF Spec, KeysAreFresh

\* Traffic is bounded: the provider is asked again only after more than
\* Refresh - Deadline.
THEOREM Traffic == Spec => TrafficIsBounded
  <1>1. ASSUME IInv, [Next]_vars, NEW r \in Requests, pc[r] = "send", pc'[r] = "answer"
        PROVE  sentAt = None \/ clock - sentAt > Refresh - Deadline
    <2>1. sentAt # None => now[r] > sentAt + Refresh - Deadline
      BY <1>1 DEF IInv, SentInv
    <2>2. /\ now[r] \in Nat /\ clock \in Nat /\ now[r] <= clock
          /\ sentAt \in Nat \cup {None} /\ Refresh \in Nat /\ Deadline \in Nat
      BY <1>1, JwksAssumption DEF IInv, TypeInv, TimeInv
    <2>3. QED
      BY <2>1, <2>2
  <1>2. IInv /\ [Next]_vars
          => [\A r \in Requests :
                pc[r] = "send" /\ pc'[r] = "answer" =>
                  sentAt = None \/ clock - sentAt > Refresh - Deadline]_vars
    BY <1>1
  <1>3. QED
    BY <1>2, Invariance, PTL DEF Spec, TrafficIsBounded
===============================================================================
