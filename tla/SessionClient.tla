----------------------------- MODULE SessionClient -----------------------------
(***************************************************************************)
(* The phone's side of starting a session: the project screens with their  *)
(* SessionStartControllers, the ControlPlaneApiRepository that authorizes  *)
(* POST /v1/sessions, the IoControlPlaneTransport that opens a connection  *)
(* for it and sends it, and the HTTP handler that answers it.              *)
(*                                                                         *)
(* Requests and answers travel over a network that can lose them or bring  *)
(* a request in after the phone has given up waiting; a gateway can put    *)
(* its own 5xx or an unusable body in the place of an answer.  What the    *)
(* service does with a request is SessionAuthority, which SessionIssuance  *)
(* implements; a commit in doubt is decided after the answer has left.     *)
(*                                                                         *)
(* Dart code runs to its next await without interruption: the actions are  *)
(* the stretches between two awaits.                                       *)
(***************************************************************************)
EXTENDS Naturals, FiniteSets

CONSTANTS MaxScreens, \* bound: how many project screens are opened, one after the other
          Ids,        \* the session ids that OpaqueId.generate can return
          MaxTries,   \* bound: how many starts and retries there are on all screens
          Device, Agent, None

Screens == 1..MaxScreens
Session == [id: Ids, device: {Device}, agent: {Agent}]
RowOf(id) == [id |-> id, device |-> Device, agent |-> Agent]
Attempts == [by: Screens, try: 1..MaxTries]
Post == [by: Screens, try: 1..MaxTries, id: Ids]
Statuses == {"idle", "starting", "metadataReady", "outcomeUnknown", "failed"}
Answers == {"none", "metadata", "unusable", "serverError", "rejected"}

ASSUME ConstantsAssumption ==
  /\ MaxScreens \in Nat
  /\ MaxTries \in Nat
  /\ Device # Agent
  /\ None \notin Ids \cup Session \cup Screens

VARIABLES
  opened,    \* how many screens have been opened
  disposed,  \* screens whose controller is disposed
  closed,    \* screens whose repository is closed
  status,    \* SessionStartController.status
  request,   \* the id of the request that _start runs with, or ran with last
  unknown,   \* _outcomeUnknownRequest
  shown,     \* the id of the metadata
  call,      \* where the running startSession is: "none", "evidence", "opening" or "sent"
  tries,     \* how often each screen has called the transport
  connecting,  \* attempts whose openUrl has not answered
  connections, \* attempts whose request is open: neither aborted nor answered
  posts,     \* requests on their way to the server
  answer,    \* the answer on its way to each screen's running call
  doubt,     \* rows whose commit the server has yet to decide
  issued, revoked, announced, granted, \* of SessionAuthority
  starter,   \* history: the screen that made each id
  unsure,    \* history: ids that were once reported as unknown
  begun      \* how many starts and retries there have been, for the bound

Server == INSTANCE SessionAuthority WITH
  SessionIds <- Ids, Aggregates <- {Device, Agent}, Calls <- Screens

controller == <<status, request, unknown, shown>>
server == <<issued, revoked, announced, granted>>
shell == <<opened, disposed, closed>>
links == <<connecting, connections>>
net == <<posts, answer, doubt, links>>
history == <<starter, unsure, begun>>
vars == <<shell, controller, call, tries, net, server, history>>

Init ==
  /\ opened = 0
  /\ disposed = {}
  /\ closed = {}
  /\ status = [c \in Screens |-> "idle"]
  /\ request = [c \in Screens |-> None]
  /\ unknown = [c \in Screens |-> None]
  /\ shown = [c \in Screens |-> None]
  /\ call = [c \in Screens |-> "none"]
  /\ tries = [c \in Screens |-> 0]
  /\ connecting = {}
  /\ connections = {}
  /\ posts = {}
  /\ answer = [c \in Screens |-> "none"]
  /\ doubt = {}
  /\ Server!Init
  /\ starter = [id \in Ids |-> None]
  /\ unsure = {}
  /\ begun = 0

Active == 1..opened \ disposed

-----------------------------------------------------------------------------
(* ControlPlaneShell *)

\* A project is chosen: the controller of the last screen is disposed.
OpenProject ==
  /\ opened + 1 \in Screens
  /\ opened' = opened + 1
  /\ disposed' = 1..opened
  /\ UNCHANGED <<closed, controller, call, tries, net, server, history>>

\* The user goes back to the catalog.
LeaveProject ==
  /\ Active # {}
  /\ disposed' = 1..opened
  /\ UNCHANGED <<opened, closed, controller, call, tries, net, server, history>>

\* Mutant of CloseRuntime: the screens survive their repository.
CloseRuntime_KeepsScreens ==
  /\ closed # 1..opened
  /\ closed' = 1..opened
  /\ UNCHANGED <<opened, disposed, controller, call, tries, net, server, history>>

\* Sign-out or a new configuration: the repository is closed with the screens.
CloseRuntime ==
  /\ closed # 1..opened
  /\ disposed' = 1..opened
  /\ closed' = 1..opened
  /\ UNCHANGED <<opened, controller, call, tries, net, server, history>>

-----------------------------------------------------------------------------
(* SessionStartController *)

Begin(c, id) ==
  /\ status' = [status EXCEPT ![c] = "starting"]
  /\ request' = [request EXCEPT ![c] = id]
  /\ shown' = [shown EXCEPT ![c] = None]
  /\ call' = [call EXCEPT ![c] = "evidence"]
  /\ begun < MaxTries /\ begun' = begun + 1
  /\ UNCHANGED unknown

\* The screen offers a start, always with a new id, when it is idle or failed.
Start(c) ==
  /\ c \in Active
  /\ status[c] \in {"idle", "failed"}
  /\ \E id \in Ids : /\ starter[id] = None
                     /\ starter' = [starter EXCEPT ![id] = c]
                     /\ Begin(c, id)
  /\ UNCHANGED <<shell, tries, net, server, unsure>>

RetryOutcomeUnknown(c) ==
  /\ c \in Active
  /\ status[c] = "outcomeUnknown"
  /\ Begin(c, unknown[c])
  /\ UNCHANGED <<shell, tries, net, server, starter, unsure>>

\* The attempt of the running call at the transport.
Attempt(c) == [by |-> c, try |-> tries[c]]

\* startSession returns or throws, and its request is finished or aborted; a
\* disposed controller ignores the outcome.
Settle(c, outcome) ==
  /\ call' = [call EXCEPT ![c] = "none"]
  /\ connections' = connections \ {Attempt(c)}
  /\ answer' = [answer EXCEPT ![c] = "none"]
  /\ IF c \in disposed THEN UNCHANGED <<controller, unsure>> ELSE
       /\ status' = [status EXCEPT ![c] = outcome]
       /\ shown' = [shown EXCEPT ![c] = IF outcome = "metadataReady" THEN request[c] ELSE None]
       /\ unknown' = [unknown EXCEPT ![c] = IF outcome = "outcomeUnknown" THEN request[c] ELSE None]
       /\ unsure' = IF outcome = "outcomeUnknown" THEN unsure \cup {request[c]} ELSE unsure
       /\ UNCHANGED request

-----------------------------------------------------------------------------
(* ControlPlaneApiRepository *)

\* The token session has no evidence, or not in time; or the repository was
\* closed while it was looked up.
EvidenceFails(c) ==
  /\ call[c] = "evidence"
  /\ Settle(c, "failed")
  /\ UNCHANGED <<shell, tries, connecting, posts, doubt, server, starter, begun>>

\* Both the repository and the transport refuse when they are closed.
MayDispatch(c) == call[c] = "evidence" /\ c \notin closed

\* The transport asks the HttpClient to open a request, and waits for it.
Dispatch(c) ==
  /\ MayDispatch(c)
  /\ tries' = [tries EXCEPT ![c] = @ + 1]
  /\ connecting' = connecting \cup {[by |-> c, try |-> tries[c] + 1]}
  /\ call' = [call EXCEPT ![c] = "opening"]
  /\ UNCHANGED <<shell, controller, connections, posts, answer, doubt, server, history>>

-----------------------------------------------------------------------------
(* IoControlPlaneTransport *)

\* Mutant of Accepts: an attempt that was given up keeps the request it gets.
Accepts_Late(k) == k.by \notin closed

\* acceptOpenedRequest is true of the attempt that send still waits for.
Accepts(k) == k.by \notin closed /\ call[k.by] = "opening" /\ k = Attempt(k.by)

\* openUrl answers with a request, at any time; one that nobody wants any more is
\* aborted.
Connects(k) ==
  /\ connecting' = connecting \ {k}
  /\ connections' = IF Accepts(k) THEN connections \cup {k} ELSE connections
  /\ UNCHANGED <<shell, controller, call, tries, posts, answer, doubt, server, history>>

\* Mutant of MaySend: the transport is not looked at again after the await.
MaySend_Unchecked(c) == call[c] = "opening" /\ Attempt(c) \in connections

MaySend(c) == call[c] = "opening" /\ Attempt(c) \in connections /\ c \notin closed

\* send goes on with the open request: headers and body leave.
Sends(c) ==
  /\ MaySend(c)
  /\ posts' = posts \cup {[by |-> c, try |-> tries[c], id |-> request[c]]}
  /\ call' = [call EXCEPT ![c] = "sent"]
  /\ UNCHANGED <<shell, controller, tries, links, answer, doubt, server, history>>

\* Mutants of OutcomeOf: a 5xx, or an unusable 200, is taken for a failure.
OutcomeOf_FailOn5xx(a) ==
  CASE a = "metadata" -> "metadataReady"
    [] a = "unusable" -> "outcomeUnknown"
    [] a \in {"serverError", "rejected"} -> "failed"

OutcomeOf_AnyOk(a) ==
  CASE a \in {"metadata", "serverError"} -> "metadataReady"
    [] a = "unusable" -> "outcomeUnknown"
    [] a = "rejected" -> "failed"

\* What the repository makes of the status and body of an answer.
OutcomeOf(a) ==
  CASE a = "metadata" -> "metadataReady"
    [] a \in {"unusable", "serverError"} -> "outcomeUnknown"
    [] a = "rejected" -> "failed"

\* After close() an answer is not looked at.
Answered(c) ==
  /\ call[c] = "sent"
  /\ answer[c] # "none"
  /\ Settle(c, IF c \in closed THEN "outcomeUnknown" ELSE OutcomeOf(answer[c]))
  /\ UNCHANGED <<shell, tries, connecting, posts, doubt, server, starter, begun>>

\* The transport fails: no connection, deadline, closed meanwhile, bounds.  What has
\* been sent stays on its way, and an openUrl may still answer.
TransportFails(c) ==
  /\ call[c] \in {"opening", "sent"}
  /\ Settle(c, "outcomeUnknown")
  /\ UNCHANGED <<shell, tries, connecting, posts, doubt, server, starter, begun>>

-----------------------------------------------------------------------------
(* The server *)

\* The answer reaches the call that waits for it, if it still does.
Reply(m, a) ==
  answer' = IF call[m.by] = "sent" /\ tries[m.by] = m.try
            THEN [answer EXCEPT ![m.by] = a] ELSE answer

Take(m) == posts' = posts \ {m} /\ UNCHANGED <<shell, controller, call, tries, links, history>>

\* Start commits.  The gateway may still spoil the answer.
ServeStarted(m) ==
  /\ Take(m)
  /\ Server!Grant(m.by, RowOf(m.id))
  /\ \E a \in {"metadata", "unusable", "serverError"} : Reply(m, a)
  /\ UNCHANGED doubt

\* Start returns ErrSessionCommitOutcomeUnknown: 503 session_outcome_unknown.
ServeInDoubt(m) ==
  /\ Take(m)
  /\ Server!Live(RowOf(m.id))
  /\ doubt' = doubt \cup {m.id}
  /\ Reply(m, "serverError")
  /\ UNCHANGED server

\* Authentication or Start fails before a commit: a 4xx when the evidence, the
\* actor's ownership or the request's time is at fault, else a 503.
ServeRefused(m) ==
  /\ Take(m)
  /\ \E a \in {"rejected", "serverError"} : Reply(m, a)
  /\ UNCHANGED <<doubt, server>>

\* A gateway gives up waiting for a server that has yet to take the request.
GatewayGivesUp(m) ==
  /\ Reply(m, "serverError")
  /\ UNCHANGED <<shell, controller, call, tries, links, posts, doubt, server, history>>

\* The database decides a commit in doubt.
Decide(id) ==
  /\ id \in doubt
  /\ doubt' = doubt \ {id}
  /\ Server!Issue(RowOf(id)) \/ UNCHANGED server
  /\ UNCHANGED <<shell, controller, call, tries, links, posts, answer, history>>

Revoke ==
  /\ \E a \in {Device, Agent} : Server!Revoke(a)
  /\ UNCHANGED <<shell, controller, call, tries, net, history>>

-----------------------------------------------------------------------------
\* Mutant of Finishing: the transport has no deadline.
Finishing_NoDeadline(c) == Answered(c)

\* How an attempt at the transport ends for the phone.
Finishing(c) == Answered(c) \/ TransportFails(c)

Next ==
  \/ OpenProject \/ LeaveProject \/ CloseRuntime \/ Revoke
  \/ \E c \in Screens :
       \/ Start(c) \/ RetryOutcomeUnknown(c) \/ EvidenceFails(c) \/ Dispatch(c)
       \/ Sends(c) \/ Finishing(c)
  \/ \E k \in connecting : Connects(k)
  \/ \E m \in posts : ServeStarted(m) \/ ServeInDoubt(m) \/ ServeRefused(m) \/ GatewayGivesUp(m)
  \/ \E id \in doubt : Decide(id)

\* The evidence lookup and the transport both have deadlines.  Nothing is
\* assumed of the user, the network or the server.
Fairness ==
  \A c \in Screens : /\ WF_vars(EvidenceFails(c) \/ Dispatch(c))
                     /\ WF_vars(Finishing(c))

Spec == Init /\ [][Next]_vars
FairSpec == Spec /\ Fairness

-----------------------------------------------------------------------------
(* Properties *)

\* Every variable holds a value of the kind the code keeps in it, and no screen
\* outlives its repository.
TypeOK ==
  /\ opened \in {0} \cup Screens
  /\ disposed \subseteq Screens /\ closed \subseteq disposed
  /\ status \in [Screens -> Statuses]
  /\ request \in [Screens -> Ids \cup {None}]
  /\ unknown \in [Screens -> Ids \cup {None}]
  /\ shown \in [Screens -> Ids \cup {None}]
  /\ call \in [Screens -> {"none", "evidence", "opening", "sent"}]
  /\ tries \in [Screens -> 0..MaxTries]
  /\ connecting \subseteq Attempts /\ connections \subseteq Attempts
  /\ posts \subseteq Post
  /\ answer \in [Screens -> Answers]
  /\ doubt \subseteq Ids
  /\ issued \in [Ids -> Session \cup {None}]
  /\ revoked \subseteq {Device, Agent} /\ announced \subseteq {Device, Agent}
  /\ granted \in [Screens -> Session \cup {None}]
  /\ starter \in [Ids -> Screens \cup {None}]
  /\ unsure \subseteq Ids
  /\ begun \in 0..MaxTries

\* The server may still make a row of the id.
Possible(id) == id \in doubt \/ \E m \in posts : m.id = id

\* An id that a controller has put behind it.
GivenUp(id) ==
  starter[id] # None /\ LET c == starter[id] IN
    request[c] # id \/ status[c] = "failed"

\* A screen that says failed without ever having said unknown is right that
\* nothing happened: the session does not exist and no request for it is left,
\* so that a new session is no second one.  It is the classification of
\* answers, errors and closures in _sendAuthenticated and startSession.
FailureIsDefinite ==
  \A id \in Ids : GivenUp(id) /\ id \notin unsure => issued[id] = None /\ ~Possible(id)

\* A screen that shows metadata shows those of its own request, and the server
\* has the row.
MetadataIsReal ==
  \A c \in Screens : status[c] = "metadataReady" =>
    shown[c] = request[c] /\ issued[shown[c]] = RowOf(shown[c])

\* An open request belongs to the call that runs, and to its own attempt: one that
\* opens after the deadline, during a later attempt, or after close(), is not kept.
\* And close() between the repository's check, the transport's await of openUrl and
\* its continuation is noticed: nothing is sent for a closed repository.
NothingOutlivesItsCall ==
  [][/\ \A k \in connections' : call'[k.by] # "none" /\ k.try = tries'[k.by]
     /\ \A m \in posts' \ posts : m.by \notin closed]_vars

\* Every start comes to an end on the screen that is still open.
EveryStartEnds ==
  \A c \in Screens : status[c] = "starting" ~> (status[c] # "starting" \/ c \in disposed)

\* "callers must retry the same ID and inputs instead of creating a second
\* session" (services/control-plane/internal/session/README.md): one screen
\* makes one session at most.
NoSecondSession ==
  \A c \in Screens :
    Cardinality({id \in Ids : starter[id] = c /\ issued[id] # None}) <= 1
===============================================================================
