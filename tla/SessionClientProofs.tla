---------------------------- MODULE SessionClientProofs ----------------------------
(***************************************************************************)
(* Theorems about SessionClient, for any number of screens, ids and sends:   *)
(* what the phone may conclude from "failed" and from metadata, whatever the *)
(* network, the gateway and the server do with its requests.                 *)
(***************************************************************************)
EXTENDS SessionClient, TLAPS

\* Screens that were left are screens that were opened.
ShellInv == disposed \subseteq 1..opened

\* What each status of a controller says of its requests: a running call is shown
\* as "starting", an idle screen never made an id, and the request that a retry
\* will repeat is the last one, whose outcome was reported as unknown.
StatusInv ==
  \A c \in Screens :
    /\ call[c] # "none" => status[c] = "starting"
    /\ request[c] = None <=> status[c] = "idle"
    /\ status[c] = "outcomeUnknown" => unknown[c] = request[c] /\ request[c] \in unsure

\* Ids are made by one screen each, and only for its requests.
OwnerInv ==
  /\ \A c \in Screens : request[c] # None => starter[request[c]] = c
  /\ \A id \in Ids : starter[id] = None => id \notin unsure
  /\ \A m \in posts : starter[m.id] = m.by
  /\ \A id \in Ids : id \in doubt \/ issued[id] # None => starter[id] # None

\* The server never heard of the id, and never will.
Untouched(id) == issued[id] = None /\ ~Possible(id)

\* The requests on their way: the one with the number of the running call is that
\* call's, which has sent it; only a call that waits is answered.
CallInv ==
  /\ \A m \in posts :
       /\ m.try <= tries[m.by]
       /\ m.try = tries[m.by] /\ call[m.by] = "sent" => m.id = request[m.by]
       /\ call[m.by] = "opening" => m.try < tries[m.by]
  /\ \A c \in Screens :
       /\ answer[c] # "none" => call[c] = "sent"
       /\ tries[c] <= begun
       /\ call[c] = "evidence" => tries[c] < begun

\* An open request is that of the attempt that runs.
ConnectionInv ==
  \A k \in connections : call[k.by] \in {"opening", "sent"} /\ k.try = tries[k.by]

\* Before its first request, and after one that was rejected, an id that was never
\* reported as unknown is untouched; while that request is on its way it is the
\* only one, and the server has not begun.
First(c) ==
  /\ call[c] \in {"evidence", "opening"} => Untouched(request[c])
  /\ call[c] = "sent" =>
       /\ answer[c] = "rejected" => Untouched(request[c])
       /\ \A m \in posts : m.id = request[c] =>
            m.try = tries[c] /\ issued[request[c]] = None /\ request[c] \notin doubt

FirstInv ==
  \A c \in Screens : request[c] # None /\ request[c] \notin unsure => First(c)

\* An answer with metadata is about the row.
AnswerInv ==
  \A c \in Screens : answer[c] = "metadata" => issued[request[c]] = RowOf(request[c])

IInv ==
  /\ TypeOK /\ ShellInv /\ StatusInv /\ OwnerInv /\ CallInv /\ ConnectionInv
  /\ FirstInv /\ AnswerInv /\ FailureIsDefinite /\ MetadataIsReal

-----------------------------------------------------------------------------
(* Steps of the controller *)

\* A row is a session, and not None.
LEMMA RowFacts ==
  ASSUME NEW id \in Ids
  PROVE  /\ RowOf(id) \in Session /\ RowOf(id).id = id /\ RowOf(id) # None
         /\ id # None
  BY ConstantsAssumption DEF RowOf, Session

LEMMA BeginKeeps ==
  ASSUME IInv, NEW c \in Screens, c \in Active, NEW id \in Ids, Begin(c, id),
         status[c] # "starting",
         starter' \in [Ids -> Screens \cup {None}],
         starter'[id] = c, \A i \in Ids : starter'[i] # starter[i] => i = id,
         \/ starter[id] = None /\ status[c] \in {"idle", "failed"}
         \/ id = request[c] /\ id \in unsure /\ starter' = starter,
         UNCHANGED <<shell, tries, net, server, unsure>>
  PROVE  IInv'
  <1> USE DEF IInv
  <1>1. /\ status' = [status EXCEPT ![c] = "starting"]
        /\ request' = [request EXCEPT ![c] = id]
        /\ shown' = [shown EXCEPT ![c] = None]
        /\ call' = [call EXCEPT ![c] = "evidence"]
        /\ begun < MaxTries /\ begun' = begun + 1
        /\ UNCHANGED <<unknown, opened, disposed, closed, tries, connecting, connections, posts, answer, doubt,
                       issued, revoked, announced, granted, unsure>>
    BY DEF Begin, shell, net, links, server
  <1>2. call[c] = "none"
    BY DEF StatusInv, TypeOK
  <1>3. id # None /\ None \notin Screens
    BY ConstantsAssumption
  <1>4. TypeOK'
    <2>1. begun' \in 0..MaxTries
      BY <1>1, ConstantsAssumption DEF TypeOK
    <2>2. QED
      BY <1>1, <2>1 DEF TypeOK, Statuses
  <1>5. ShellInv'
    BY <1>1 DEF ShellInv
  <1>6. StatusInv'
    BY <1>1, <1>3 DEF StatusInv, TypeOK
  <1>7. OwnerInv'
    BY <1>1, <1>3 DEF OwnerInv, TypeOK, Post
  <1>8. CallInv'
    BY <1>1, <1>2 DEF CallInv, TypeOK, Post
  <1>9. FirstInv'
    <2> SUFFICES ASSUME NEW d \in Screens, request'[d] # None, request'[d] \notin unsure
                 PROVE  First(d)'
      BY <1>1 DEF FirstInv
    <2>1. CASE d = c
      <3>1. request'[c] = id /\ call'[c] = "evidence"
        BY <1>1 DEF TypeOK
      <3>2. starter[id] = None
        BY <1>1, <2>1, <3>1
      <3>3. Untouched(id)'
        BY <1>1, <1>3, <3>2 DEF OwnerInv, Untouched, Possible, TypeOK, Post
      <3>4. QED
        BY <2>1, <3>1, <3>3 DEF First
    <2>2. CASE d # c
      <3>1. request'[d] = request[d] /\ call'[d] = call[d]
        BY <1>1, <2>2 DEF TypeOK
      <3>2. QED
        BY <1>1, <3>1 DEF FirstInv, First, Untouched, Possible
    <2>3. QED
      BY <2>1, <2>2
  <1>10. AnswerInv'
    BY <1>1, <1>2 DEF AnswerInv, CallInv, TypeOK, RowOf
  <1>11. FailureIsDefinite'
    <2> SUFFICES ASSUME NEW i \in Ids, GivenUp(i)', i \notin unsure
                 PROVE  Untouched(i)'
      BY <1>1 DEF FailureIsDefinite, Untouched
    <2>1. request'[c] = id /\ status'[c] = "starting" /\ starter'[id] = c
      BY <1>1 DEF TypeOK
    <2>2. i # id
      BY <2>1 DEF GivenUp
    <2>3. starter'[i] = starter[i] /\ starter[i] # None
      BY <2>2 DEF GivenUp
    <2>4. GivenUp(i)
      <3>1. CASE starter[i] = c
        <4>1. request[c] = None \/ status[c] = "failed" \/ request[c] = id
          BY DEF StatusInv
        <4>2. QED
          BY <2>2, <2>3, <3>1, <4>1, <1>3, ConstantsAssumption DEF GivenUp
      <3>2. CASE starter[i] # c
        <4>1. starter[i] \in Screens
          BY <2>3 DEF TypeOK
        <4>2. request'[starter[i]] = request[starter[i]] /\ status'[starter[i]] = status[starter[i]]
          BY <1>1, <3>2, <4>1 DEF TypeOK
        <4>3. QED
          BY <2>3, <4>2 DEF GivenUp
      <3>3. QED
        BY <3>1, <3>2
    <2>5. Untouched(i)
      BY <2>4 DEF FailureIsDefinite, Untouched
    <2>6. QED
      BY <1>1, <2>5 DEF Untouched, Possible
  <1>12. MetadataIsReal'
    BY <1>1 DEF MetadataIsReal, TypeOK
  <1>13. ConnectionInv'
    BY <1>1, <1>2 DEF ConnectionInv, TypeOK, Attempts
  <1>14. QED
    BY <1>4, <1>5, <1>6, <1>7, <1>8, <1>9, <1>10, <1>11, <1>12, <1>13

\* A call that ends says "failed" only of an id that is untouched or was reported as
\* unknown before, and "metadataReady" only when the row is there.
LEMMA SettleKeeps ==
  ASSUME IInv, NEW c \in Screens, call[c] # "none",
         NEW outcome \in {"metadataReady", "outcomeUnknown", "failed"}, Settle(c, outcome),
         outcome = "metadataReady" => issued[request[c]] = RowOf(request[c]),
         outcome = "failed" => request[c] \in unsure \/ Untouched(request[c]),
         UNCHANGED <<shell, tries, connecting, posts, doubt, server, starter, begun>>
  PROVE  IInv'
  <1> USE DEF IInv
  <1>1. /\ call' = [call EXCEPT ![c] = "none"]
        /\ answer' = [answer EXCEPT ![c] = "none"]
        /\ connections' = connections \ {Attempt(c)}
        /\ UNCHANGED <<request, opened, disposed, closed, tries, connecting, posts, doubt,
                       issued, revoked, announced, granted, starter, begun>>
        /\ \/ c \in disposed /\ UNCHANGED <<status, unknown, shown, unsure>>
           \/ /\ c \notin disposed
              /\ status' = [status EXCEPT ![c] = outcome]
              /\ shown' = [shown EXCEPT ![c] = IF outcome = "metadataReady" THEN request[c] ELSE None]
              /\ unknown' = [unknown EXCEPT ![c] = IF outcome = "outcomeUnknown" THEN request[c] ELSE None]
              /\ unsure' = IF outcome = "outcomeUnknown" THEN unsure \cup {request[c]} ELSE unsure
    BY DEF Settle, controller, shell, server
  <1>2. /\ status[c] = "starting" /\ request[c] \in Ids /\ request[c] # None
        /\ starter[request[c]] = c
    BY DEF StatusInv, OwnerInv, TypeOK
  <1>3. unsure \subseteq unsure' /\ unsure' \subseteq unsure \cup {request[c]}
    BY <1>1
  <1>4. TypeOK'
    BY <1>1, <1>2 DEF TypeOK, Statuses, Answers
  <1>5. ShellInv'
    BY <1>1 DEF ShellInv
  <1>6. StatusInv'
    BY <1>1, <1>2 DEF StatusInv, TypeOK
  <1>7. OwnerInv'
    BY <1>1, <1>2, <1>3, ConstantsAssumption DEF OwnerInv
  <1>8. CallInv'
    BY <1>1 DEF CallInv, TypeOK, Post
  <1>9. FirstInv'
    BY <1>1, <1>3 DEF FirstInv, First, Untouched, Possible, TypeOK
  <1>10. AnswerInv'
    BY <1>1 DEF AnswerInv, TypeOK, RowOf
  <1>11. FailureIsDefinite'
    <2> SUFFICES ASSUME NEW i \in Ids, GivenUp(i)', i \notin unsure'
                 PROVE  Untouched(i)'
      BY DEF FailureIsDefinite, Untouched
    <2>1. starter[i] \in Screens
      BY <1>1 DEF GivenUp, TypeOK
    <2>2. CASE GivenUp(i)
      BY <1>1, <1>3, <2>2 DEF FailureIsDefinite, Untouched, Possible
    <2>3. CASE ~GivenUp(i)
      <3>1. starter[i] = c /\ request[c] = i /\ outcome = "failed"
        BY <1>1, <1>2, <2>1, <2>3 DEF GivenUp, TypeOK
      <3>2. QED
        BY <1>1, <1>3, <3>1 DEF Untouched, Possible
    <2>4. QED
      BY <2>2, <2>3
  <1>12. MetadataIsReal'
    BY <1>1, <1>2 DEF MetadataIsReal, TypeOK, RowOf
  <1>13. ConnectionInv'
    <2> SUFFICES ASSUME NEW k \in connections, k # Attempt(c)
                 PROVE  call'[k.by] \in {"opening", "sent"} /\ k.try = tries[k.by]
      BY <1>1 DEF ConnectionInv
    <2>1. call[k.by] \in {"opening", "sent"} /\ k.try = tries[k.by] /\ k \in Attempts
      BY DEF ConnectionInv, TypeOK
    <2>2. k.by # c
      BY <2>1 DEF Attempts, Attempt
    <2>3. QED
      BY <1>1, <2>1, <2>2 DEF TypeOK
  <1>14. QED
    BY <1>4, <1>5, <1>6, <1>7, <1>8, <1>9, <1>10, <1>11, <1>12, <1>13

LEMMA DispatchKeeps ==
  ASSUME IInv, NEW c \in Screens, Dispatch(c)
  PROVE  IInv'
  <1> DEFINE k == [by |-> c, try |-> tries[c] + 1]
  <1> USE DEF IInv
  <1>1. /\ tries' = [tries EXCEPT ![c] = tries[c] + 1]
        /\ connecting' = connecting \cup {k}
        /\ call' = [call EXCEPT ![c] = "opening"]
        /\ call[c] = "evidence"
        /\ UNCHANGED <<opened, disposed, closed, status, request, unknown, shown, connections, posts, answer,
                       doubt, issued, revoked, announced, granted, starter, unsure, begun>>
    BY DEF Dispatch, MayDispatch, shell, controller, server, history
  <1>2. tries[c] \in Nat /\ tries[c] < MaxTries /\ answer[c] = "none"
    BY <1>1, ConstantsAssumption DEF CallInv, TypeOK
  <1>3. k \in Attempts
    BY <1>2, ConstantsAssumption DEF Attempts
  <1> HIDE DEF k
  <1>4. TypeOK'
    BY <1>1, <1>2, <1>3, ConstantsAssumption DEF TypeOK
  <1>5. ShellInv' /\ StatusInv' /\ OwnerInv'
    BY <1>1 DEF ShellInv, StatusInv, OwnerInv, TypeOK
  <1>6. CallInv'
    <2> SUFFICES ASSUME NEW m \in posts
                 PROVE  /\ m.try <= tries'[m.by]
                        /\ m.try = tries'[m.by] /\ call'[m.by] = "sent" => m.id = request[m.by]
                        /\ call'[m.by] = "opening" => m.try < tries'[m.by]
      BY <1>1, <1>2 DEF CallInv, TypeOK
    <2>1. CASE m.by = c
      <3>1. m.try \in Nat /\ m.try <= tries[c] /\ tries'[c] = tries[c] + 1 /\ call'[c] = "opening"
        BY <1>1, <2>1 DEF CallInv, TypeOK, Post
      <3>2. QED
        BY <1>2, <2>1, <3>1
    <2>2. CASE m.by # c
      BY <1>1, <2>2 DEF CallInv, TypeOK, Post
    <2>3. QED
      BY <2>1, <2>2
  <1>7. ConnectionInv'
    BY <1>1 DEF ConnectionInv, TypeOK, Attempts
  <1>8. FirstInv'
    <2> SUFFICES ASSUME NEW d \in Screens, request[d] # None, request[d] \notin unsure
                 PROVE  First(d)'
      BY <1>1 DEF FirstInv
    <2>1. First(d)
      BY DEF FirstInv
    <2>2. d # c => call'[d] = call[d] /\ tries'[d] = tries[d]
      BY <1>1 DEF TypeOK
    <2>3. d = c => call'[d] = "opening"
      BY <1>1 DEF TypeOK
    <2>4. QED
      BY <1>1, <2>1, <2>2, <2>3 DEF First, Untouched, Possible
  <1>9. AnswerInv' /\ MetadataIsReal'
    BY <1>1 DEF AnswerInv, MetadataIsReal, RowOf
  <1>10. FailureIsDefinite'
    BY <1>1 DEF FailureIsDefinite, GivenUp, Possible
  <1>11. QED
    BY <1>4, <1>5, <1>6, <1>7, <1>8, <1>9, <1>10

\* A request that opens is kept only by the attempt that waits for it.
LEMMA ConnectsKeeps ==
  ASSUME IInv, NEW k \in connecting, Connects(k)
  PROVE  IInv'
  <1> USE DEF IInv
  <1>1. /\ connecting' \subseteq connecting
        /\ connections' \subseteq connections \cup {k}
        /\ k \in connections' => k \in connections \/ (call[k.by] = "opening" /\ k = Attempt(k.by))
        /\ UNCHANGED <<opened, disposed, closed, status, request, unknown, shown, call, tries, posts, answer,
                       doubt, issued, revoked, announced, granted, starter, unsure, begun>>
    BY DEF Connects, Accepts, shell, controller, server, history
  <1>2. k \in Attempts /\ k.by \in Screens
    BY DEF TypeOK, Attempts
  <1>3. TypeOK'
    BY <1>1, <1>2 DEF TypeOK
  <1>4. ConnectionInv'
    <2>1. k = Attempt(k.by) => k.try = tries[k.by]
      BY <1>2 DEF Attempt
    <2>2. QED
      BY <1>1, <2>1 DEF ConnectionInv
  <1>5. ShellInv' /\ StatusInv' /\ OwnerInv' /\ CallInv' /\ FirstInv' /\ AnswerInv'
    BY <1>1 DEF ShellInv, StatusInv, OwnerInv, CallInv, FirstInv, First, AnswerInv, Untouched, Possible, RowOf
  <1>6. FailureIsDefinite' /\ MetadataIsReal'
    BY <1>1 DEF FailureIsDefinite, GivenUp, Possible, MetadataIsReal, RowOf
  <1>7. QED
    BY <1>3, <1>4, <1>5, <1>6

LEMMA SendsKeeps ==
  ASSUME IInv, NEW c \in Screens, Sends(c)
  PROVE  IInv'
  <1> DEFINE n == [by |-> c, try |-> tries[c], id |-> request[c]]
  <1> USE DEF IInv
  <1>1. /\ posts' = posts \cup {n}
        /\ call' = [call EXCEPT ![c] = "sent"]
        /\ call[c] = "opening" /\ Attempt(c) \in connections
        /\ UNCHANGED <<opened, disposed, closed, status, request, unknown, shown, tries, connecting,
                       connections, answer, doubt, issued, revoked, announced, granted, starter, unsure, begun>>
    BY DEF Sends, MaySend, shell, controller, links, server, history
  <1>2. /\ status[c] = "starting" /\ request[c] \in Ids /\ request[c] # None
        /\ starter[request[c]] = c /\ tries[c] \in 1..MaxTries /\ answer[c] = "none"
    <2>1. status[c] = "starting" /\ request[c] \in Ids /\ request[c] # None
      BY <1>1 DEF StatusInv, TypeOK
    <2>2. starter[request[c]] = c
      BY <2>1 DEF OwnerInv
    <2>3. tries[c] \in 1..MaxTries
      BY <1>1 DEF TypeOK, Attempts, Attempt
    <2>4. QED
      BY <1>1, <2>1, <2>2, <2>3 DEF CallInv
  <1>3. n \in Post /\ n.by = c /\ n.try = tries[c] /\ n.id = request[c]
    BY <1>2 DEF Post
  <1> HIDE DEF n
  <1>4. TypeOK'
    BY <1>1, <1>2, <1>3, ConstantsAssumption DEF TypeOK
  <1>5. ShellInv' /\ StatusInv'
    BY <1>1 DEF ShellInv, StatusInv, TypeOK
  <1>6. OwnerInv'
    BY <1>1, <1>2, <1>3 DEF OwnerInv
  <1>7. CallInv'
    <2> SUFFICES ASSUME NEW m \in posts'
                 PROVE  /\ m.try <= tries'[m.by]
                        /\ m.try = tries'[m.by] /\ call'[m.by] = "sent" => m.id = request[m.by]
                        /\ call'[m.by] = "opening" => m.try < tries'[m.by]
      BY <1>1, <1>2 DEF CallInv, TypeOK
    <2>1. CASE m = n
      BY <1>1, <1>2, <1>3, <2>1 DEF TypeOK
    <2>2. CASE m \in posts /\ m.by = c
      <3>1. m.try \in Nat /\ m.try < tries[c] /\ tries' = tries /\ call'[c] = "sent"
        BY <1>1, <2>2 DEF CallInv, TypeOK, Post
      <3>2. QED
        BY <1>2, <2>2, <3>1
    <2>3. CASE m \in posts /\ m.by # c
      BY <1>1, <2>3 DEF CallInv, TypeOK, Post
    <2>4. QED
      BY <1>1, <2>1, <2>2, <2>3
  <1>8. FirstInv'
    <2> SUFFICES ASSUME NEW d \in Screens, request[d] # None, request[d] \notin unsure
                 PROVE  First(d)'
      BY <1>1 DEF FirstInv
    <2>1. CASE d = c
      <3>1. Untouched(request[c])
        BY <1>1, <2>1 DEF FirstInv, First
      <3>2. \A m \in posts' : m.id = request[c] => m = n
        BY <1>1, <3>1 DEF Untouched, Possible
      <3>3. tries'[c] = tries[c] /\ answer'[c] = "none" /\ call'[c] = "sent"
        BY <1>1, <1>2 DEF TypeOK
      <3>4. QED
        BY <1>1, <1>3, <2>1, <3>1, <3>2, <3>3 DEF First, Untouched, Possible
    <2>2. CASE d # c
      <3>1. request[d] # request[c]
        BY <1>2, <2>2 DEF OwnerInv
      <3>2. tries'[d] = tries[d] /\ answer'[d] = answer[d] /\ call'[d] = call[d]
        BY <1>1, <2>2 DEF TypeOK
      <3>3. First(d)
        BY DEF FirstInv
      <3>4. \A m \in posts' : m.id = request[d] => m \in posts
        BY <1>1, <1>3, <3>1
      <3>5. QED
        BY <1>1, <3>2, <3>3, <3>4 DEF First, Untouched, Possible
    <2>3. QED
      BY <2>1, <2>2
  <1>9. AnswerInv' /\ MetadataIsReal'
    BY <1>1 DEF AnswerInv, MetadataIsReal, RowOf
  <1>10. FailureIsDefinite'
    <2> SUFFICES ASSUME NEW i \in Ids, GivenUp(i), i \notin unsure
                 PROVE  Untouched(i)'
      BY <1>1 DEF FailureIsDefinite, Untouched, GivenUp
    <2>1. i # request[c]
      BY <1>2 DEF GivenUp
    <2>2. QED
      BY <1>1, <1>3, <2>1 DEF FailureIsDefinite, Untouched, Possible
  <1>11. ConnectionInv'
    BY <1>1 DEF ConnectionInv, TypeOK, Attempts
  <1>12. QED
    BY <1>4, <1>5, <1>6, <1>7, <1>8, <1>9, <1>10, <1>11

-----------------------------------------------------------------------------
(* Steps of the shell and of the server *)

\* The invariant does not depend on what is revoked, announced and granted.
LEMMA ShellKeeps ==
  ASSUME IInv, disposed \subseteq disposed', disposed' \subseteq 1..opened',
         closed' \subseteq disposed', opened' \in {0} \cup Screens,
         UNCHANGED <<controller, call, tries, net, issued, history>>,
         revoked' \subseteq {Device, Agent}, announced' \subseteq {Device, Agent}, UNCHANGED granted
  PROVE  IInv'
  <1> USE DEF IInv
  <1>1. UNCHANGED <<status, request, unknown, shown, call, tries, connecting, connections, posts, answer,
                    doubt, issued, granted, starter, unsure, begun>>
    BY DEF controller, net, links, history
  <1>2. 1..opened' \subseteq Screens
    BY ConstantsAssumption DEF Screens
  <1>3. TypeOK'
    BY <1>1, <1>2 DEF TypeOK
  <1>4. ShellInv'
    BY DEF ShellInv
  <1>5. StatusInv' /\ OwnerInv' /\ CallInv' /\ ConnectionInv' /\ FirstInv' /\ AnswerInv'
    BY <1>1 DEF StatusInv, OwnerInv, CallInv, ConnectionInv, FirstInv, First, AnswerInv, Untouched, Possible, RowOf
  <1>6. FailureIsDefinite' /\ MetadataIsReal'
    BY <1>1 DEF FailureIsDefinite, GivenUp, Possible, MetadataIsReal, RowOf
  <1>7. QED
    BY <1>3, <1>4, <1>5, <1>6

\* The answer to a request that the running call waits for is about its id.
LEMMA ReplyFacts ==
  ASSUME IInv, NEW m \in posts, NEW a \in Answers, Reply(m, a)
  PROVE  /\ answer' \in [Screens -> Answers]
         /\ m.by \in Screens /\ m.id \in Ids /\ starter[m.id] = m.by /\ m.id # None
         /\ \A c \in Screens : answer'[c] # answer[c] =>
              c = m.by /\ answer'[c] = a /\ call[c] = "sent" /\ tries[c] = m.try /\ m.id = request[c]
         /\ call[m.by] = "sent" /\ m.try = tries[m.by] => answer'[m.by] = a
  BY ConstantsAssumption DEF Reply, IInv, TypeOK, OwnerInv, CallInv, Post

\* The server, the database or a gateway does something with the id of a request
\* that has been sent, or with its answer.
LEMMA ServerKeeps ==
  ASSUME IInv, NEW id \in Ids, Possible(id),
         UNCHANGED <<shell, controller, call, tries, links, history>>,
         posts' \subseteq posts, answer' \in [Screens -> Answers],
         doubt' \subseteq doubt \cup {id},
         issued' \in [Ids -> Session \cup {None}], \A i \in Ids \ {id} : issued'[i] = issued[i],
         issued'[id] \in {issued[id], RowOf(id)}, issued[id] \in {None, issued'[id]},
         revoked' = revoked, announced' = announced, granted' \in [Screens -> Session \cup {None}],
         \A c \in Screens : answer'[c] # answer[c] =>
           /\ call[c] = "sent" /\ request[c] = id
           /\ answer'[c] = "metadata" => issued'[id] = RowOf(id)
           /\ answer'[c] = "rejected" => request[c] \in unsure \/ Untouched(id)',
         \A c \in Screens, m \in posts' :
           request[c] = id /\ call[c] = "sent" /\ id \notin unsure /\ m.id = id =>
             issued'[id] = issued[id] /\ id \notin doubt' \ doubt
  PROVE  IInv'
  <1> USE DEF IInv
  <1>1. UNCHANGED <<opened, disposed, closed, status, request, unknown, shown, call, tries, connecting, connections,
                    starter, unsure, begun>>
    BY DEF shell, controller, links, history
  <1>2. starter[id] # None /\ id # None
    <2>1. \A m \in posts : m.by # None
      BY ConstantsAssumption DEF TypeOK, Post
    <2>2. QED
      BY <2>1, ConstantsAssumption DEF OwnerInv, Possible
  <1>3. TypeOK'
    BY <1>1 DEF TypeOK
  <1>4. ShellInv' /\ StatusInv'
    BY <1>1 DEF ShellInv, StatusInv
  <1>5. OwnerInv'
    BY <1>1, <1>2 DEF OwnerInv
  <1>6. CallInv' /\ ConnectionInv'
    BY <1>1 DEF CallInv, ConnectionInv
  <1>7. FirstInv'
    <2> SUFFICES ASSUME NEW c \in Screens, request[c] # None, request[c] \notin unsure
                 PROVE  First(c)'
      BY <1>1 DEF FirstInv
    <2>1. First(c) /\ request[c] \in Ids
      BY DEF FirstInv, TypeOK
    <2>2. CASE request[c] # id
      <3>1. issued'[request[c]] = issued[request[c]] /\ answer'[c] = answer[c]
        BY <2>1, <2>2
      <3>2. request[c] \in doubt' => request[c] \in doubt
        BY <2>2
      <3>3. QED
        BY <1>1, <2>1, <3>1, <3>2 DEF First, Untouched, Possible
    <2>3. CASE request[c] = id
      <3>1. ~Untouched(id)
        BY DEF Untouched
      <3>2. answer'[c] = "rejected" /\ call[c] = "sent" => Untouched(id)'
        BY <2>1, <2>3, <3>1 DEF First
      <3>3. \A m \in posts' : m.id = id /\ call[c] = "sent" =>
              m.try = tries[c] /\ issued'[id] = None /\ id \notin doubt'
        BY <2>1, <2>3 DEF First
      <3>4. QED
        BY <1>1, <2>1, <2>3, <3>1, <3>2, <3>3 DEF First
    <2>4. QED
      BY <2>2, <2>3
  <1>8. AnswerInv'
    <2> SUFFICES ASSUME NEW c \in Screens, answer'[c] = "metadata"
                 PROVE  issued'[request[c]] = RowOf(request[c])
      BY <1>1 DEF AnswerInv, RowOf
    <2>1. CASE answer'[c] # answer[c]
      BY <2>1
    <2>2. CASE answer'[c] = answer[c]
      <3>1. request[c] \in Ids /\ request[c] # None /\ issued[request[c]] = RowOf(request[c])
        BY <2>2 DEF AnswerInv, CallInv, StatusInv, TypeOK
      <3>2. issued[request[c]] # None
        BY <3>1, RowFacts
      <3>3. QED
        BY <3>1, <3>2
    <2>3. QED
      BY <2>1, <2>2
  <1>9. FailureIsDefinite'
    <2> SUFFICES ASSUME NEW i \in Ids, GivenUp(i), i \notin unsure
                 PROVE  Untouched(i)'
      BY <1>1 DEF FailureIsDefinite, Untouched, GivenUp
    <2>1. Untouched(i)
      BY DEF FailureIsDefinite, Untouched
    <2>2. i # id
      BY <2>1 DEF Untouched
    <2>3. QED
      BY <2>1, <2>2 DEF Untouched, Possible
  <1>10. MetadataIsReal'
    <2> SUFFICES ASSUME NEW c \in Screens, status[c] = "metadataReady"
                 PROVE  shown[c] = request[c] /\ issued'[shown[c]] = RowOf(shown[c])
      BY <1>1 DEF MetadataIsReal, RowOf
    <2>1. shown[c] = request[c] /\ issued[shown[c]] = RowOf(shown[c]) /\ shown[c] \in Ids
      BY DEF MetadataIsReal, StatusInv, TypeOK
    <2>2. issued[shown[c]] # None
      BY <2>1, RowFacts
    <2>3. QED
      BY <2>1, <2>2
  <1>11. QED
    BY <1>3, <1>4, <1>5, <1>6, <1>7, <1>8, <1>9, <1>10

LEMMA ServeKeeps ==
  ASSUME IInv, NEW m \in posts, ServeStarted(m) \/ ServeInDoubt(m) \/ ServeRefused(m) \/ GatewayGivesUp(m)
  PROVE  IInv'
  <1> DEFINE id == m.id
  <1>0. PICK a \in Answers : /\ Reply(m, a)
                             /\ \/ a \in {"metadata", "unusable", "serverError"} /\ ServeStarted(m)
                                \/ a = "serverError" /\ (ServeInDoubt(m) \/ GatewayGivesUp(m))
                                \/ a \in {"rejected", "serverError"} /\ ServeRefused(m)
    BY DEF ServeStarted, ServeInDoubt, ServeRefused, GatewayGivesUp, Answers
  <1>1. /\ answer' \in [Screens -> Answers]
        /\ m.by \in Screens /\ id \in Ids /\ starter[id] = m.by /\ id # None
        /\ \A c \in Screens : answer'[c] # answer[c] =>
             c = m.by /\ answer'[c] = a /\ call[c] = "sent" /\ tries[c] = m.try /\ id = request[c]
        /\ call[m.by] = "sent" /\ m.try = tries[m.by] => answer'[m.by] = a
    BY <1>0, ReplyFacts
  <1>2. Possible(id)
    BY DEF Possible
  <1>3. /\ UNCHANGED <<shell, controller, call, tries, links, history>>
        /\ revoked' = revoked /\ announced' = announced
        /\ posts' \subseteq posts /\ doubt' \subseteq doubt \cup {id}
        /\ GatewayGivesUp(m) \/ posts' = posts \ {m}
    BY <1>0 DEF ServeStarted, ServeInDoubt, ServeRefused, GatewayGivesUp, Take, server, net, Server!Grant
  \* an id never reported as unknown has no other request on its way
  <1>4. ASSUME NEW c \in Screens, request[c] = id, call[c] = "sent", id \notin unsure
        PROVE  /\ m.try = tries[c] /\ c = m.by /\ issued[id] = None /\ id \notin doubt
               /\ \A n \in posts : n.id = id => n = m
    <2>1. First(c)
      BY <1>1, <1>4 DEF IInv, FirstInv
    <2>2. m.try = tries[c] /\ issued[id] = None /\ id \notin doubt
      BY <1>4, <2>1 DEF First
    <2>3. c = m.by
      BY <1>1, <1>4 DEF IInv, OwnerInv
    <2>4. \A n \in posts : n.id = id => n.try = m.try /\ n.by = m.by
      BY <1>1, <1>4, <2>1, <2>2 DEF First, IInv, OwnerInv
    <2>5. \A n \in posts : n.id = id => n = m
      BY <2>4 DEF IInv, TypeOK, Post
    <2>6. QED
      BY <2>2, <2>3, <2>5
  <1>5. CASE ServeStarted(m) /\ a \in {"metadata", "unusable", "serverError"}
    <2>1. RowOf(id) \in Session /\ RowOf(id).id = id
      BY <1>1, RowFacts
    <2>2. /\ issued[id] \in {None, RowOf(id)} /\ doubt' = doubt
          /\ issued' = [issued EXCEPT ![id] = RowOf(id)]
          /\ granted' = [granted EXCEPT ![m.by] = RowOf(id)]
      BY <1>5, <2>1 DEF ServeStarted, Server!Grant
    <2>3. /\ issued' \in [Ids -> Session \cup {None}] /\ issued'[id] = RowOf(id)
          /\ \A i \in Ids \ {id} : issued'[i] = issued[i]
          /\ granted' \in [Screens -> Session \cup {None}]
      BY <1>1, <2>1, <2>2 DEF IInv, TypeOK
    <2>4. posts' = posts \ {m}
      BY <1>5 DEF ServeStarted, Take
    <2> HIDE DEF id
    <2>5. QED
      BY <1>1, <1>2, <1>3, <1>4, <1>5, <2>2, <2>3, <2>4, ServerKeeps
  <1>6. CASE ServeInDoubt(m) /\ a = "serverError"
    <2>1. UNCHANGED <<issued, granted>> /\ posts' = posts \ {m}
      BY <1>6 DEF ServeInDoubt, server, Take
    <2>2. issued \in [Ids -> Session \cup {None}] /\ granted \in [Screens -> Session \cup {None}]
      BY DEF IInv, TypeOK
    <2> HIDE DEF id
    <2>3. QED
      BY <1>1, <1>2, <1>3, <1>4, <1>6, <2>1, <2>2, ServerKeeps
  <1>7. CASE ServeRefused(m) /\ a \in {"rejected", "serverError"}
    <2>1. UNCHANGED <<issued, granted, doubt>> /\ posts' = posts \ {m}
      BY <1>7 DEF ServeRefused, server, Take
    <2>2. issued \in [Ids -> Session \cup {None}] /\ granted \in [Screens -> Session \cup {None}]
      BY DEF IInv, TypeOK
    <2>3. \A c \in Screens : answer'[c] # answer[c] /\ id \notin unsure => Untouched(id)'
      BY <1>1, <1>4, <2>1 DEF Untouched, Possible
    <2> HIDE DEF id
    <2>4. QED
      BY <1>1, <1>2, <1>3, <1>4, <1>7, <2>1, <2>2, <2>3, ServerKeeps
  <1>8. CASE GatewayGivesUp(m) /\ a = "serverError"
    <2>1. UNCHANGED <<issued, granted, doubt, posts>>
      BY <1>8 DEF GatewayGivesUp, server
    <2>2. issued \in [Ids -> Session \cup {None}] /\ granted \in [Screens -> Session \cup {None}]
      BY DEF IInv, TypeOK
    <2> HIDE DEF id
    <2>3. QED
      BY <1>1, <1>2, <1>3, <1>4, <1>8, <2>1, <2>2, ServerKeeps
  <1>9. QED
    BY <1>0, <1>5, <1>6, <1>7, <1>8

LEMMA DecideKeeps ==
  ASSUME IInv, NEW id \in doubt, Decide(id)
  PROVE  IInv'
  <1>1. /\ id \in Ids /\ Possible(id)
        /\ UNCHANGED <<shell, controller, call, tries, links, history>>
        /\ posts' = posts /\ answer' = answer /\ doubt' \subseteq doubt
        /\ answer \in [Screens -> Answers] /\ granted \in [Screens -> Session \cup {None}]
        /\ issued \in [Ids -> Session \cup {None}]
        /\ revoked' = revoked /\ announced' = announced /\ granted' = granted
    BY DEF IInv, TypeOK, Possible, Decide, server, Server!Issue
  <1>2. RowOf(id) \in Session /\ RowOf(id).id = id
    BY <1>1, RowFacts
  <1>3. \/ issued[id] = None /\ issued' = [issued EXCEPT ![id] = RowOf(id)]
        \/ issued' = issued
    BY <1>2 DEF Decide, server, Server!Issue
  <1>4. /\ issued' \in [Ids -> Session \cup {None}]
        /\ \A i \in Ids \ {id} : issued'[i] = issued[i]
        /\ issued'[id] \in {issued[id], RowOf(id)} /\ issued[id] \in {None, issued'[id]}
    BY <1>1, <1>2, <1>3
  <1>5. ASSUME NEW c \in Screens, NEW m \in posts,
               request[c] = id, call[c] = "sent", id \notin unsure, m.id = id
        PROVE  FALSE
    <2>1. First(c)
      BY <1>1, <1>5, ConstantsAssumption DEF IInv, FirstInv
    <2>2. QED
      BY <1>5, <2>1 DEF First
  <1>6. QED
    BY <1>1, <1>4, <1>5, ServerKeeps

-----------------------------------------------------------------------------
(* The inductive invariant *)

LEMMA Initially == Init => IInv
  <1> SUFFICES ASSUME Init PROVE IInv
    OBVIOUS
  <1> USE ConstantsAssumption DEF Init
  <1>1. TypeOK
    BY DEF TypeOK, Statuses, Answers, Server!Init
  <1>2. ShellInv /\ StatusInv /\ OwnerInv /\ CallInv /\ ConnectionInv
    BY DEF ShellInv, StatusInv, OwnerInv, CallInv, ConnectionInv, Server!Init
  <1>3. FirstInv /\ AnswerInv
    BY DEF FirstInv, AnswerInv
  <1>4. FailureIsDefinite /\ MetadataIsReal
    BY DEF FailureIsDefinite, GivenUp, MetadataIsReal
  <1>5. QED
    BY <1>1, <1>2, <1>3, <1>4 DEF IInv

LEMMA Inductive ==
  ASSUME IInv, [Next]_vars
  PROVE  IInv'
  <1>1. ASSUME OpenProject \/ LeaveProject \/ CloseRuntime
        PROVE  IInv'
    <2>1. /\ opened \in Nat /\ opened \in {0} \cup Screens
          /\ disposed \subseteq 1..opened /\ closed \subseteq disposed
          /\ revoked \subseteq {Device, Agent} /\ announced \subseteq {Device, Agent}
      BY ConstantsAssumption DEF IInv, TypeOK, ShellInv, Screens
    <2>2. /\ UNCHANGED <<controller, call, tries, net, issued, revoked, announced, granted, history>>
          /\ disposed' = 1..opened
          /\ opened' \in {opened, opened + 1} /\ opened' \in {0} \cup Screens
          /\ closed' \in {closed, 1..opened}
      BY <1>1, <2>1 DEF OpenProject, LeaveProject, CloseRuntime, server
    <2>3. 1..opened \subseteq 1..opened'
      BY <2>1, <2>2
    <2>4. QED
      BY <2>1, <2>2, <2>3, ShellKeeps
  <1>2. ASSUME Revoke
        PROVE  IInv'
    <2>1. /\ opened \in {0} \cup Screens /\ disposed \subseteq 1..opened /\ closed \subseteq disposed
          /\ revoked \subseteq {Device, Agent} /\ announced \subseteq {Device, Agent}
      BY DEF IInv, TypeOK, ShellInv
    <2>2. /\ UNCHANGED <<opened, disposed, closed, controller, call, tries, net, issued, granted, history>>
          /\ revoked' \subseteq {Device, Agent} /\ announced' \subseteq {Device, Agent}
      BY <1>2, <2>1 DEF Revoke, shell, Server!Revoke
    <2>3. QED
      BY <2>1, <2>2, ShellKeeps
  <1>3. ASSUME NEW c \in Screens, Start(c)
        PROVE  IInv'
    <2>1. PICK id \in Ids : starter[id] = None /\ starter' = [starter EXCEPT ![id] = c] /\ Begin(c, id)
      BY <1>3 DEF Start
    <2>2. /\ starter' \in [Ids -> Screens \cup {None}] /\ starter'[id] = c
          /\ \A i \in Ids : starter'[i] # starter[i] => i = id
      BY <2>1 DEF IInv, TypeOK
    <2>3. /\ c \in Active /\ status[c] \in {"idle", "failed"}
          /\ UNCHANGED <<shell, tries, net, server, unsure>>
      BY <1>3 DEF Start
    <2>4. QED
      BY <2>1, <2>2, <2>3, BeginKeeps
  <1>4. ASSUME NEW c \in Screens, RetryOutcomeUnknown(c)
        PROVE  IInv'
    <2>1. /\ c \in Active /\ status[c] = "outcomeUnknown"
          /\ Begin(c, unknown[c])
          /\ UNCHANGED <<shell, tries, net, server, unsure>> /\ starter' = starter
      BY <1>4 DEF RetryOutcomeUnknown, history
    <2>2. /\ unknown[c] = request[c] /\ request[c] \in unsure /\ request[c] \in Ids
          /\ starter[request[c]] = c /\ starter \in [Ids -> Screens \cup {None}]
      BY <2>1, ConstantsAssumption DEF IInv, StatusInv, OwnerInv, TypeOK
    <2>3. QED
      BY <2>1, <2>2, BeginKeeps
  <1>5. ASSUME NEW c \in Screens, EvidenceFails(c)
        PROVE  IInv'
    <2>1. call[c] = "evidence" /\ Settle(c, "failed") /\ UNCHANGED <<shell, tries, connecting, posts, doubt, server, starter, begun>>
      BY <1>5 DEF EvidenceFails
    <2>2. request[c] \in unsure \/ Untouched(request[c])
      BY <2>1 DEF IInv, StatusInv, FirstInv, First
    <2>3. QED
      BY <2>1, <2>2, SettleKeeps
  <1>6. ASSUME NEW c \in Screens, Answered(c)
        PROVE  IInv'
    <2> DEFINE outcome == IF c \in closed THEN "outcomeUnknown" ELSE OutcomeOf(answer[c])
    <2>1. /\ call[c] = "sent" /\ answer[c] # "none" /\ answer[c] \in Answers
          /\ Settle(c, outcome) /\ UNCHANGED <<shell, tries, connecting, posts, doubt, server, starter, begun>>
      BY <1>6 DEF Answered, IInv, TypeOK
    <2>2. /\ outcome \in {"metadataReady", "outcomeUnknown", "failed"}
          /\ outcome = "metadataReady" => answer[c] = "metadata"
          /\ outcome = "failed" => answer[c] = "rejected"
      BY <2>1 DEF OutcomeOf, Answers
    <2> HIDE DEF outcome
    <2>3. outcome = "failed" => request[c] \in unsure \/ Untouched(request[c])
      BY <2>1, <2>2 DEF IInv, StatusInv, FirstInv, First
    <2>4. outcome = "metadataReady" => issued[request[c]] = RowOf(request[c])
      BY <2>2 DEF IInv, AnswerInv
    <2>5. QED
      BY <2>1, <2>2, <2>3, <2>4, SettleKeeps
  <1>7. ASSUME NEW c \in Screens, TransportFails(c)
        PROVE  IInv'
    BY <1>7, SettleKeeps DEF TransportFails
  <1>8. CASE UNCHANGED vars
    <2>1. /\ UNCHANGED <<opened, disposed, closed, revoked, announced, granted, issued>>
          /\ UNCHANGED <<controller, call, tries, net, history>>
      BY <1>8 DEF vars, shell, server
    <2>2. /\ opened \in {0} \cup Screens /\ disposed \subseteq 1..opened /\ closed \subseteq disposed
          /\ revoked \subseteq {Device, Agent} /\ announced \subseteq {Device, Agent}
      BY DEF IInv, TypeOK, ShellInv
    <2>3. QED
      BY <2>1, <2>2, ShellKeeps
  <1>9. QED
    BY <1>1, <1>2, <1>3, <1>4, <1>5, <1>6, <1>7, <1>8, DispatchKeeps, ConnectsKeeps, SendsKeeps,
       ServeKeeps, DecideKeeps
    DEF Next, Finishing

\* What screens, calls, requests on their way and rows say of each other holds in every
\* state; both theorems about failures and metadata are parts of it.
THEOREM Invariance == Spec => []IInv
  <1>1. IInv /\ [Next]_vars => IInv'
    BY Inductive
  <1>2. QED
    BY Initially, <1>1, PTL DEF Spec

-----------------------------------------------------------------------------
(* Theorems *)

\* Every variable of the phone, the network and the server keeps its type, and no
\* screen outlives its repository.
THEOREM TypeCorrect == Spec => []TypeOK
  <1>1. IInv => TypeOK
    BY DEF IInv
  <1>2. QED
    BY Invariance, <1>1, PTL

\* "Failed", when "unknown" was never said of the same request, means that the
\* server has nothing and will get nothing of it.
THEOREM Failures == Spec => []FailureIsDefinite
  <1>1. IInv => FailureIsDefinite
    BY DEF IInv
  <1>2. QED
    BY Invariance, <1>1, PTL

\* Metadata that a screen shows are those of its own request, and of a row.
THEOREM Metadata == Spec => []MetadataIsReal
  <1>1. IInv => MetadataIsReal
    BY DEF IInv
  <1>2. QED
    BY Invariance, <1>1, PTL

\* What is left of NoSecondSession, which the run client_second refutes: a screen makes
\* two sessions only if it said "unknown" of one of them.
SecondSessionAfterUnknown ==
  \A i, j \in Ids : i # j /\ starter[i] = starter[j] /\ issued[i] # None /\ issued[j] # None =>
    i \in unsure \/ j \in unsure

\* A second session of a screen follows only a report of an unknown outcome, never a
\* failure that was reported as one from the start.
THEOREM SecondSession == Spec => []SecondSessionAfterUnknown
  <1>1. IInv => SecondSessionAfterUnknown
    <2> SUFFICES ASSUME IInv, NEW i \in Ids, NEW j \in Ids, i # j, starter[i] = starter[j],
                        issued[i] # None, issued[j] # None, i \notin unsure, j \notin unsure
                 PROVE  FALSE
      BY DEF SecondSessionAfterUnknown
    <2>1. starter[i] # None
      BY DEF IInv, OwnerInv
    <2>2. ~GivenUp(i) /\ ~GivenUp(j)
      BY DEF IInv, FailureIsDefinite
    <2>3. request[starter[i]] = i /\ request[starter[i]] = j
      BY <2>1, <2>2 DEF GivenUp
    <2>4. QED
      BY <2>3
  <1>2. QED
    BY Invariance, <1>1, PTL

\* What is kept open belongs to the attempt that runs, in every interleaving of
\* deadlines, retries, late answers of openUrl and close(), and nothing is sent for a
\* closed repository.
THEOREM Outlives == Spec => NothingOutlivesItsCall
  <1>1. IInv /\ [Next]_vars => \A k \in connections' : call'[k.by] # "none" /\ k.try = tries'[k.by]
    BY Inductive DEF IInv, ConnectionInv
  <1>2. IInv /\ [Next]_vars => \A m \in posts' \ posts : m.by \notin closed
    <2> SUFFICES ASSUME [Next]_vars, NEW m \in posts' \ posts
                 PROVE  m.by \notin closed
      OBVIOUS
    <2>1. PICK c \in Screens : Sends(c)
      <3>1. ASSUME ~ \E c \in Screens : Sends(c)
            PROVE  posts' \subseteq posts
        BY <3>1 DEF Next, vars, OpenProject, LeaveProject, CloseRuntime, Revoke, Start, RetryOutcomeUnknown,
             EvidenceFails, Dispatch, Connects, Finishing, Answered, TransportFails, ServeStarted,
             ServeInDoubt, ServeRefused, GatewayGivesUp, Decide, Take, net
      <3>2. QED
        BY <3>1
    <2>2. QED
      BY <2>1 DEF Sends, MaySend
  <1>3. IInv /\ [Next]_vars =>
          [/\ \A k \in connections' : call'[k.by] # "none" /\ k.try = tries'[k.by]
           /\ \A m \in posts' \ posts : m.by \notin closed]_vars
    BY <1>1, <1>2
  <1>4. QED
    BY Invariance, <1>3, PTL DEF Spec, NothingOutlivesItsCall
===============================================================================
