# CodeRoam in TLA+

CodeRoam is a phone app for coding sessions that run elsewhere. At this commit
the parts with behaviour of their own are a Go control plane on PostgreSQL, a Go
worker that drains its outbox, and a Flutter app with a token session, the
session-start screens, a web-view editor and a terminal. Relay and agent are
stubs.

This directory holds TLA+ modules translated from that code, TLC configurations
that check small instances of them, and proofs, checked by the TLA+ proof
system, that hold for every instance. Paths below are relative to the
repository root.

| component | module | checked by | proved |
|---|---|---|---|
| session, device and agent transactions | `SessionIssuance`, abstract `SessionAuthority` | 2 runs | `SessionIssuanceProofs` |
| outbox worker | `OutboxWorker`, abstract `OutboxDelivery` | 1 run | `OutboxWorkerProofs` |
| session start on the phone, and its HTTP endpoint | `SessionClient`, its server is `SessionAuthority` | 2 runs | `SessionClientProofs` |
| token session on the phone | `OidcSession` | 2 runs | `OidcSessionProofs` |
| JWKS cache of the control plane | `JwksCache` | 2 runs | `JwksCacheProofs` |
| web-view bridge | `WebViewBridge`, part of the next two | with them | lemmas of the next two |
| editor | `EditorWebView` | 1 run | `EditorWebViewProofs` |
| terminal input stream | `TerminalStream` | 1 run | `TerminalStreamProofs` |
| terminal touch selection | `TouchSelection` | 1 run | `TouchSelectionProofs` |

## 1. Inventory

### Control plane: sessions, devices, agents (`services/control-plane/internal/{session,device,workspace,outbox}`)

*State*: the tables `session.sessions`, `device.devices`, `workspace.agents`,
`workspace.projects` with environments, `outbox.events`; row locks and the
unique key of an uncommitted session row.
*Operations*: `session.Service.Start` (three authorizations, `CreateOrGet`,
commit), `device.Repository.Revoke`, `workspace.Repository.RevokeAgent` (lock,
update, `outbox.Enqueue`, commit), listing of projects (one query).
*Interactions*: called by the HTTP API; the event rows are what the worker reads.
*Hard*: starts and revocations of the same rows interleave statement by
statement; a retry overlaps the first attempt; a commit answer is lost; API
instances have clocks of their own.
*Correct when*: no session starts on a device or agent whose revocation has
committed; a revocation has exactly one event; a caller that is told "started"
finds the row it was told; rows are never rewritten; nobody waits for ever.

### Outbox worker (`services/worker/internal/outbox`)

*State*: rows of `outbox.events` (outcome, `available_at`, `attempt_count`), row
locks, each worker's place in `ProcessNext` and its clock.
*Operations*: `runProcessingLoop`, `ProcessNext`, `Claim`, the handler, `Finish`.
*Interactions*: the event rows come from the control plane; workers share only
the database.
*Hard*: several workers; a crash or a broken connection during the handler; a
commit in doubt; a clock that is set back; malformed rows; limits of attempts
and integers.
*Correct when*: deliveries are bounded and explained, recorded outcomes are
true and final, every event is concluded in the end.

### Session start on the phone (`apps/mobile/lib/features/{session,control_plane}`)

*State*: one `SessionStartController` per project screen (status, the request
whose outcome is unknown, the metadata), one `ControlPlaneApiRepository` with its
`IoControlPlaneTransport` per signed-in runtime (closed or not, deadline, the
connections it waits for or has open).
*Operations*: open and leave a project, sign out, start, retry, close; on the
server `serveStartSession`.
*Interactions*: HTTP, through a gateway; authentication evidence from the token
session.
*Hard*: the answer is lost or late, a request arrives after the phone has given
up, the screen goes away while the call runs, a connection opens when nobody waits
for it any more.
*Correct when*: "failed" means that nothing happened, metadata is real, a closed
repository sends nothing, no open request outlives its attempt, each start ends.

### Token session on the phone (`apps/mobile/lib/features/auth`)

*State*: tokens in memory, tokens in secure storage, a generation number,
futures of the operations in flight, `_cleanupRequired`; the controller's status.
*Operations*: `restore`, `signIn`, `signOut`, `authenticationEvidence` with its
refresh.
*Interactions*: secure storage, the OpenID provider, the shell above it.
*Hard*: late saves and refreshes after a sign-out or another sign-in; failing
storage calls; operations that await each other; a relaunch.
*Correct when*: what was given up never comes back, memory and storage agree,
evidence belongs to the account it was asked for, everything ends.

### JWKS cache (`services/control-plane/internal/auth/oidc_token_verifier.go`)

*State*: per URL and algorithm the cached key set, the date of the last attempt
and the fetch in flight; each verification's deadline and its reading of the
clock.
*Operations*: `VerifyOIDCToken`, `RoundTrip` with `beforeFetch` and
`finishFetch`.
*Interactions*: HTTP requests of the API call it concurrently; it asks the
identity provider.
*Hard*: requests wait for the fetch of another and go on with the time they read
before; a fetch fails, is cancelled by its own client or is never answered; keys
are replaced meanwhile; a goroutine is delayed between any two steps.
*Correct when*: removed keys stop working in time, the provider is asked seldom
however many tokens come, no fetch stays in flight.

### Web-view bridge and editor (`apps/mobile/lib/shared/webview`, `features/editor`, `webview/editor`)

*State*: the bridge's queue of at most 256 pending messages, readiness, the
running `runJavaScript` call; the last document Flutter set; the page.
*Operations*: send, drain, ready, not ready, dispose; set a document, commands;
load, reload.
*Interactions*: channel messages and page-start callbacks from the platform,
`runJavaScript` to it.
*Hard*: a page is replaced while messages wait or run, before Flutter has heard
of it; the queue is full when the document is restored.
*Correct when*: messages run in order and at most once, and the page ends up with
the last document.

### Terminal input stream (`features/terminal`, `webview/terminal`)

*State*: the active stream, the last 256 event ids, the last 8 retired streams;
clipboard reads under way; the bridge back.
*Operations*: ready, input, copy and paste events; page starts; the clipboard's
answer; developer keys; dispose.
*Interactions*: messages of pages, the clipboard, the bridge.
*Hard*: messages come late, twice or out of order; a page is replaced while its
clipboard is read; both memories are bounded.
*Correct when*: no input is taken twice, no replaced page comes back, a text is
pasted only into the page that asked, as far as the memories reach.

### Terminal touch selection (`webview/terminal/src/terminal_touch_selection.ts`)

*State*: the gesture (finger, anchor, word, timer), the endpoints kept for the
handles, the visible controls, xterm.js's own selection and viewport.
*Operations*: touch handlers, the long-press timer, the toolbar's buttons,
updates on output, input, scroll and resize, dispose.
*Hard*: three copies of one selection, while the buffer loses lines, the user
types, scrolls or turns the phone in the middle of a drag.
*Correct when*: controls, endpoints and highlighted text agree; a drag keeps its
fixed end; no timer outlives its gesture.

## 2. The modules and the code

### SessionAuthority and SessionIssuance

`SessionAuthority` is the promise, with no transactions: a row is issued, or a
caller is told of it, at an instant when its device and agent are live; an id
names one row for ever; a revocation and its announcement are one step.

In `SessionIssuance` each SQL statement is a step.

| action | code |
|---|---|
| `StartBegin` | the request, `startedAt` and the region, before the transaction |
| `AuthorizeDevice`, `AuthorizeAgent`, `AuthorizeProject` | the three authorization queries with their `FOR SHARE` locks; the third one's, on project and environment, is left out because nothing locks those rows exclusively |
| `InsertSession`, `ReadSession` | `INSERT ... ON CONFLICT DO NOTHING`, which waits for an uncommitted row of the same id, then the read back and the comparison |
| `RevokeBegin`, `LockAggregate`, `MarkRevoked`, `EnqueueEvent` | `Revoke` and `RevokeAgent`: `FOR UPDATE`, the checks, the update, the event |
| `Commit`, `LoseCommit`, `SettleCommitted`, `SettleAborted` | `tx.Commit` answered, unanswered, and what the server then decides |
| `Fail` | any error, deadline, cancellation or crash before the commit |

Uncommitted writes (`inserted`, `marked`, `queued`) are private until `Publish`;
locks go with the end of the transaction. Only what PostgreSQL itself does with
a commit in doubt is external. Devices and agents are revoked by code of the
same shape and are both "aggregates". Clock readings are arbitrary members of
`Times`: nothing relates the clocks of two instances.

### OutboxDelivery and OutboxWorker

`OutboxDelivery` is the promise for one event: delivered until concluded,
concluded once, with a reason, never delivered afterwards.

| action of `OutboxWorker` | code |
|---|---|
| `Poll`, `ClaimNothing`, `Claim` | `claimedAt`, the `SKIP LOCKED` query and the decision about a malformed or exhausted row |
| `HandlerReturns` | the handler's verdict, or its deadline |
| `Finish`, `Commit` | `Finish` with its checks on clock and count, then the commit |
| `LoseCommit`, `SettleAborted`, `SettleCommitted` | a commit in doubt |
| `Fail`, `Disconnect`, `Stop`, `Start` | an error of a statement, a connection that breaks under the worker, a process that dies, a new one |
| `Tick`, `SetBack` | each worker's own wall clock |
| `Enqueue` | the row that `SessionIssuance` commits |

`deliveries`, `verdicts` and `lost` are history variables: the code keeps
neither, the properties are about them. `IntegerMax` and `MaxAttempts` are
parameters, so that the boundary of the column is reached.

### SessionClient

One action is the Dart code between two awaits.

| action | code |
|---|---|
| `OpenProject`, `LeaveProject`, `CloseRuntime` | `ControlPlaneShell` |
| `Start`, `RetryOutcomeUnknown` | the buttons, up to the lookup of the evidence |
| `EvidenceFails`, `Dispatch` | what follows it: `_sendAuthenticated` looks at `_closed` again and calls the transport, which asks for a connection |
| `Connects` | `openUrl` answers, at any time: `acceptOpenedRequest` and `_closed` decide whether the request is kept or aborted |
| `Sends` | `send` after that await: `_closed` once more, then headers and body |
| `Answered`, `TransportFails` | how an attempt ends for the phone |
| `ServeStarted`, `ServeInDoubt`, `ServeRefused` | `serveStartSession` around the actions of `SessionAuthority` |
| `GatewayGivesUp` | an answer that is not the service's |

`connecting` has the attempts whose `openUrl` is unanswered, `connections` those
whose request is open. `acceptOpenedRequest` is a variable of one call of `send`: it
is true as long as that attempt is the running call's and waits. An `openUrl` that
fails is one that never answers, under `TransportFails`. `close()` also closes the
`HttpClient` by force; that cuts connections, but nothing here relies on it, as a
transport can be given another opener. A request stays in `posts` after the phone has
given up: it can arrive late. `SessionAuthority` is instantiated in the role of the
server, so that what the phone assumes of it is what `SessionIssuance` is shown to
implement.

### OidcSession

`OidcSessionLifecycle` with each await as a state of the operation that awaits:
for instance `RestoreAwaitsSignIn`, `RestoreAwaitsRefresh`, `RestoreClears`,
`RestoreReads`, `RestoreDiscards`, `RestoreLoaded` are `restore` from top to
bottom. `status` is the controller's, whose calls exclude each other; with
`status = "free"` the lifecycle is used directly and its operations overlap in
every way, as in its tests. Token contents are abstracted to the sign-in they
come from and the number of refreshes. A storage call may fail before or after
its effect. `Relaunch` ends the process and keeps only the storage.

### JwksCache

| action | code |
|---|---|
| `Begin`, `Cancel`, `Verify` | `VerifyOIDCToken` with its deadline of 5 s, the context of the HTTP request, and the check after the keys are there |
| `ReadClock` | `RoundTrip` reads `now` once, before it waits for the lock or for another fetch |
| `AwaitFetch`, `WakeUp`, `UseCached`, `StartFetch` | the branches of `beforeFetch`, each under the lock |
| `Send`, `Answer`, `TimeOut` | the HTTP request to the provider and how it ends |
| `FinishFetch` | `finishFetch`: the cache takes what came, nothing included, and the waiters are woken |
| `Tick`, `Rotate` | time, and a new key set at the provider |

A key set is the number of rotations before it, and `rotations` dates them; that
is all the properties need. Whether a token matches a key, and the shape of
either, is left out.

### WebViewBridge and EditorWebView

A bridge is a value: each method of `WebViewBridgeController` is an operator from
the bridge before to the bridge after, so that a handler which calls several is
still one step, and the editor and the terminal share the module. `Drained` is
`_scheduleDrain` with the condition of the loop, `CallEnded` what follows the
await of `runJavaScript`, with or without an error.

| action of `EditorWebView` | code |
|---|---|
| `SetDocument`, `Command` | `EditorBridgeController`, which keeps the document before the bridge can refuse it |
| `HandlePageStarted`, `HandleReady` | `_handlePageStarted` with `_restoreDocumentAfterReload`, and `editor.ready` in `_handleMessage` |
| `PageStarts`, `ScriptRuns`, `Receive`, `CallReturns` | the web view: a page is replaced, `main.ts` runs, a script is evaluated in whatever page there then is, the call completes |
| `DisposeBridge` | the shell's dispose |

Messages are numbered by the model (`sends`, `ran`) to say what order means.
The page's content is the document that Flutter last put there.

### TerminalStream

| action | code |
|---|---|
| `ScriptRuns`, `UserActs`, `PostEvent` | `main.ts`: the ready message, and numbered events of its stream |
| `HandlePageStarted` with `Reset` | `_handlePageStarted`, `TerminalInputEventDeduplicator.reset` |
| `HandleReady` | `beginStream`, then `markReady` and the harness's first line |
| `HandleEvent` with `Accepted` | `accept` and what each kind of event does |
| `ClipboardAnswers` | `_pasteClipboard` after its await |
| `DeveloperKey`, `Receive`, `CallReturns`, `DisposeBridge` | as in the editor |

`posted` is never emptied and events are taken from it in any order and any
number of times: that is the delay and duplication of `docs/touch-ux-spike.md`.
`taken`, `resets`, `retiredAt` and `pasted` are history.

### TouchSelection

One action per handler: `TouchSecond`, `TouchHandle`, `TouchToolbar`, `TouchText`
are the branches of touchstart, `MovesAway` and `Drags` of touchmove, `TouchEnds`
touchend and touchcancel, then `LongPress`, `PressButton`, `DisposeControls`.
`Output`, `UserInput`, `Scroll` and `Resize` are xterm.js as far as its selection
and scrolling matter, followed by `updateSelectionControls` where the code
listens. A position is a cell of the buffer; what a word is depends on the text,
so `WordSelections` is every interval around the cell.

## 3. What the runs show

Sizes are distinct states.

| run | instance | shows |
|---|---|---|
| `issuance_race` (45 687) | two starts with different ids on one device and agent, two revocations of either | `IssuedOnlyWhileLive`, `OneEventPerRevocation`, the refinement `ImplementsAuthority`, and `EveryCallEnds` |
| `issuance_retry` (192 858) | one id asked for by its owner twice, with another device, by a stranger, with a foreign project; foreign and premature revocations; two regions, two instants | `TypeOK`, `AnswersAreTrue`, `HistoryIsKept`; also no deadlock, in both |
| `worker` (272 884) | a row that is due later, one at the integer limit and one with an infinite timestamp, two workers, two attempts, a fault | `TypeOK`, `DeliveriesBounded`, `OverlapOnlyAfterLoss`, `OutcomesAreTrue`, `ConclusionsAreFinal`, the refinement `ImplementsDelivery`, and `EveryEventEnds` |
| `client` (435 308) | two screens in turn, two ids, three starts and retries in all | `TypeOK`, `FailureIsDefinite`, `MetadataIsReal`, `NothingOutlivesItsCall`, `EveryStartEnds` |
| `client_second` | one screen, three starts and retries | violates `NoSecondSession` (section 6) |
| `oidc_overlap` (40 682) | three calls among restores, sign-ins and sign-outs, refreshes, three failing storage or provider calls, with and without the controller | `TypeOK`, `DeadStaysDead`, `TokensAreStored`, `NothingLeft`, `EvidenceIsOwn`, `EverythingEnds` |
| `oidc_relaunch` | the same, controller only, one relaunch | violates `RestoreRetriesCleanup` (section 6) |
| `jwks_requests` (430 699) | two verifications at a time over two refresh intervals, a rotation | `KeysAreFresh`, `TrafficIsBounded`, `FetchEnds` |
| `jwks_thirty` | one verification after another, ticks of 5/3 s | violates `KeysWithinRefresh` (section 6) |
| `editor_reload` (39 820) | a page loaded and reloaded twice, two documents, three actions of the user, a queue of two | `TypeOK`, `MessagesInOrder`, `QuietPageHasDocument`, `DocumentComesBack` |
| `terminal_reload` (725 350) | three pages, two events of the user, a developer key, memories of one event and one stream, a queue of two | `TypeOK`, `DuplicatesRefused`, `StaleStreamsRefused`, `PasteReachesItsPage` |
| `touch_gestures` (171 224) | two widths, a screen of two lines with one above it, two fingers, three lines of output, a resize | `SelectionIsBetweenEndpoints`, `ControlsMatchSelection`, `AnchorStaysSelected`, `TimerIsForRestingFinger` |

Each property of a passing run has a mutant in `PROJECT.json`: a definition with
a plausible bug (a missing lock, an attempt counted too late, a swallowed error)
under which the same run finds the property violated. The mutants stand next to
the definitions they change and are used by nothing else.

*Why the bounds are enough.* The hazards of the transactions are between two
calls: two starts give the retry that overlaps the first, two revocations the
race for one row, one of each the race between them; two instants tell a clock
that is behind from one that is not. The worker needs two workers for any
overlap; one fault loses a claim, or puts a commit in doubt, or sets a clock
back, and `MaxAttempts` 2 passes the limit from both sides.
`Horizon` stops a clock that no event waits for. On the phone two screens are
the old one and the new one; three starts and retries are a request, the retry
during which its connection opens, and the third that the violation needs, all on one
screen or on both. In `OidcSession` three calls are the shortest
behaviours with a replaced account (restore, sign-out, sign-in), and three faults
let a save, its clear and a second clear fail; with four calls and two callers
(592 152 states) the safety properties hold as well, too slow for a regular run.
In `JwksCache` the second request is the one that waits, and a clock of two
intervals holds a fetch, a stale answer to it and the next fetch; `Refresh` 2 and
`Deadline` 1 keep them apart (`Refresh - Deadline` is positive, as 30 s and 5 s
are). The counterexample to 30 s needs the proportion of the two (18 and 3 ticks)
but no second request. In `EditorWebView` three pages are one that is replaced before Flutter
hears of it, one that is replaced after, and the last; a queue of two is full
after one message behind the running one. In `TerminalStream` memories of one
are the smallest that forget, and three pages are the fewest of which one is
forgotten. In `TouchSelection` one line above the screen makes the second line of
output trim the buffer, and a drag can then start in a line that is about to go;
the second finger is the one that interrupts. Wider terminals (2, 3 and 4 columns)
and two resizes (1 511 412 states) change nothing for the properties.
For every safety property above the theorems of section 5 remove the bounds.

*Deadlock* is checked for the transactions and the workers. The other models
stop when the bounds leave the user, the requests or the clock nothing more to
do, and say `CHECK_DEADLOCK FALSE`.

`SYMMETRY` is used only in `issuance_retry`, where calls of one kind are
interchangeable: it has no liveness property.

## 4. Fairness, and what justifies it

- `SessionIssuance`: a call that has begun executes its next statement, and the
  server ends a transaction whose client is gone. Nothing is assumed of new
  calls or failures. A call waiting for a lock is not enabled, so weak fairness
  does not hide a deadlock.
- `OutboxWorker`: `ProcessNext` of a running worker goes on (the loop polls, the
  handler has a deadline), clocks advance, the server ends transactions. No
  fairness restarts a stopped worker: `EveryEventEnds` has the premise that in
  the end some worker is up all the time. Faults are bounded, as they must be
  for any event to be concluded.
- `SessionClient`: the evidence lookup and the transport have deadlines
  (`control_plane_api_repository.dart:137`, `control_plane_transport.dart:95-144`). The user, the network, the gateway and
  the server owe nothing.
- `OidcSession`: a storage call, the provider and the browser answer, possibly
  with an error.
- `JwksCache`: a goroutine executes its next step, and time passes. The provider
  may never answer: `Answer` has no fairness, and what ends a fetch is its
  deadline.
- `EditorWebView`: the asset is loaded for the first time, a page's script runs,
  Flutter handles what the platform sent, and `runJavaScript` is evaluated and
  completes, with an error or not. Nothing is owed by the user, and no reload.

## 5. What is proved

The proof modules hold for every value of the constants that meets the named
assumptions of its module: typing of the parameters, `None` and `Never` outside
the sets they are told apart from (`NoneAssumption` and its like), `MaxAttempts`
between 1 and `IntegerMax`. Nothing is assumed finite, and the numbers of calls,
workers, events, requests, pages, fingers and faults are arbitrary.

**`SessionIssuanceProofs`.** None of the properties is inductive by itself:
`IssuedOnlyWhileLive` at a commit depends on locks taken five statements
earlier. `IInv` adds
- `LockInv`: who is past its locking statement holds the lock, shared and
  exclusive locks exclude each other, and a shared lock keeps the row live;
- `RevokeInv`: what an open revocation has written, and that the row was live
  when it wrote; at its commit it has queued its event, or it found the row
  revoked already;
- `InsertInv`: an uncommitted row owns its key, and what was read back is what
  the commit will leave;
- `KindInv`: a call that began knows its request.

The proof goes action by action; `PublishKeeps` carries the commits, `AbortKeeps`
the rollbacks, `AuthorizeKeeps` the locks. From `IInv`: `TypeCorrect`,
`RevocationAnnouncedOnce`, `AnswersCanBeTrusted`, `IssuedWhileLive`,
`HistoryKept`, and `Refinement`, that every step is an `Issue`, a `Grant`, a
`Revoke` or a stutter of `SessionAuthority`: a commit of a start maps to `Grant`,
one in doubt to `Issue`.

**`OutboxWorkerProofs`.** `IInv` is
- `HoldInv`: a locked row is pending and has one claimant; a busy worker still
  holds its row unless a loss of it was counted;
- `OutcomeInv`: the outcome a worker or the server is about to record is backed
  by the history of the event;
- `CountInv`: recorded attempts, deliveries and lost claims of a pending row
  account for each other. `DeliveriesBounded` alone does not say what a later
  claim may count on; this balance does.

From it: `TypeCorrect` (in particular `attempt_count` never leaves the integer
column), `DeliveriesAreBounded`, `RecordedOutcomesAreTrue`, `OverlapIsALoss`,
`Final`, and `Refinement` of `OutboxDelivery`.

**`JwksCacheProofs`.** `KeysAreFresh` is about an acceptance long after the
reading of the clock that justifies it, so `IInv` carries dates along:
- `TimeInv`: a request's deadline is at most `Deadline` after its reading;
- `FetchInv`: whoever is between `send` and `finish` is the fetch in flight, and
  the attempt bears the date of its reading;
- `KeyInv`: keys that were fetched were current at that reading, cached ones at
  the last attempt, and those about to be used within `Refresh` of the reading;
- `SentInv`: the provider was last asked less than `Deadline` after an attempt,
  and one that is about to ask read the clock late enough.

Then `Freshness` and `Traffic` follow for any number of requests and rotations.
In the first, lateness is bounded by the request's own deadline only, which is why
the bound is `Refresh + Deadline` and not `Refresh` (finding 3 of section 6).

**`SessionClientProofs`.** `FailureIsDefinite` is about ids that a screen has put
behind it; what keeps them harmless was settled when they were still its request.
`IInv` adds
- `StatusInv`: what a screen shows says whether a call runs, and which request a
  retry will repeat;
- `OwnerInv` and `CallInv`: requests on their way belong to the screen that made
  their id, and the one with the latest number is that of the running call, once it
  has been sent;
- `ConnectionInv`: an open request is that of the attempt that runs;
- `FirstInv`: until an unknown outcome is reported, an id has at most one request
  on its way, and none once it was rejected: the server then has nothing, and
  nothing under way;
- `AnswerInv`: an answer with metadata is about a row.

From it: `TypeCorrect`, `Failures`, `Metadata`, `Outlives` (of
`NothingOutlivesItsCall`), and `SecondSession`: of two sessions of one screen, one was reported as unknown. It delimits finding 1 of
section 6: no other road leads to a second session.

**`OidcSessionProofs`.** Nothing excludes overlaps here but generation numbers and
what each operation waits for, so `IInv` says what follows from them:
- `GenerationInv`: operations under way have generations of their own, and those
  begun before a sign-out are not the newest;
- `AccountInv`: accounts are numbered as they sign in, are given up as a whole, and
  each operation carries tokens of the account it began with;
- `RestoreInv`, `SignInInv`, `SignOutInv`, `RefreshInv`: what the newest operation
  has waited for is over, what it has not waited for is older, and while it runs
  there are no tokens in memory that it does not know;
- `LeftInv`: given-up tokens are in the storage only while that is noted or the
  operation that put them there is about to take them back;
- `ControlInv`: under the controller only one call runs, and memory and storage
  agree.

From it: `TypeCorrect`, `GivenUpForGood`, `Stored`, `Cleaned`, `OwnEvidence` and
`RetriesCleanup`, about `Spec`, the behaviour of one process. `Relaunches` is about
`RelaunchSpec`: over any number of relaunches all of it still holds as long as no
process ends with a cleanup noted. That is the exact extent of finding 2 of section 6.

**The bridge** has no theorems of its own: the two modules below begin with lemmas
on what its operations do, the editor's for any kind of message and with the proof
that the bridge stays `Sound` (the queue's limit, a running call is of the head,
nothing waits that could run).

**`EditorWebViewProofs`.** `IInv` adds to soundness
- `OrderInv`: numbers in the queue increase, from that of the last executed
  message to that of the last one sent;
- `PageInv`: readiness that Flutter has not handled is that of the live page, or
  another page is coming;
- `DocInv`: the last document that was not refused waits in the queue as its last
  document, runs in the live page, has arrived, or a page is coming that will be
  sent it again. `QuietPageHasDocument` is the case in which only "arrived" is
  left, and not inductive alone.

**`TerminalStreamProofs`.** `IInv` says that the bounded memories are the tails of
unbounded histories: `RetiredInv` dates the retired streams by resets, and a stream
that is no longer among them was retired `MaxRetired` resets ago; `RememberedInv`
does the same for events; `TakenInv` gives each span between two resets one stream.
Pastes under way carry the stream that was active at both ends of the clipboard
read (`Sendable`). From it: `TypeCorrect`, `Duplicates`, `StaleStreams`, `Pastes`.

**`TouchSelectionProofs`.** `IInv` adds that endpoints are in order, that a gesture
which selects knows its anchor and, after a long press, a word around it, and that
nothing is pending once disposed. From it: `Controls`, `Anchor`, `RestingFinger`.
`Between` needs `BetweenInv` as well: until a resize, the selection is what
`terminalSelectionBetween` makes of the endpoints, less the lines that the buffer
has lost. That the highlighted cells are then those between the handles is
arithmetic: xterm.js finds the end of the selection with a division by the width,
and `Quotient` and `FinalEnd` say that it is one past the last cell, in its line,
also where that line is full and the division leaves no remainder.

*Only model-checked*: the liveness properties (`EveryCallEnds`,
`EveryEventEnds`, `EveryStartEnds`, `EverythingEnds`, `FetchEnds`,
`DocumentComesBack`), since liveness under fairness is out of the prover's reach.
Every safety property that a passing run checks is also a theorem.

## 6. Where code and documentation disagree

1. **A second session after an unknown outcome** (`client_second`).
   `session/README.md:27-29` asks callers to retry the same id after an unknown
   outcome. `SessionStartController._start` forgets the request whose outcome is
   unknown when a retry of it fails for a definite reason
   (`session_start_controller.dart:83`); the screen then offers a new session,
   while the first may exist. `FailureIsDefinite` is what does hold: a failure
   that was never preceded by an unknown outcome is one.
2. **Cleanup is not retried after a relaunch** (`oidc_relaunch`). A comment in
   `oidc_session_lifecycle.dart:223` promises that a later restore retries a
   failed cleanup before reading token state. `_cleanupRequired` is only in
   memory and the controller restores once per process, so the restore that
    follows is the next process's, which reads first.
3. **Keys older than 30 seconds** (`jwks_thirty`). The plan of milestone 2
   (`docs/plans/2026-07-17-m2-single-owner-control-plane.md:201-202`) says that "even
   a locally known key must be refreshed within 30 seconds". `beforeFetch` compares
   the last attempt with a reading of the clock that `RoundTrip` took
   (`oidc_token_verifier.go:266`) before it waited for the lock or another fetch, and
   the token may be accepted up to the verification's deadline of 5 s. The run has a
   key set replaced right after a fetch at 0 s, a reading below 30 s, and an
   acceptance after 30 s. `KeysAreFresh` is what does hold: 35 s (`Refresh +
   Deadline`).

Observations that no run reports, because no document denies them; the properties
are stated with these exceptions:

- *Token session*: used directly, not through the controller, a `restore` whose
  clear is slow can clear the storage after a later sign-in has saved its tokens.
  The controller's status makes the overlap impossible, and `TokensAreStored` is
  stated for the app.
- *JWKS*: a fetch that its own client cancels empties the cache: every verification
  fails until the interval ends.
- *Editor*: with a full queue the document of a reload is refused, and a document
  that was refused is still the one restored later. `editor.ready` carries no page,
  so the readiness of a page that has been replaced makes the bridge ready for the
  next one; messages run before that one's script are lost. `DocumentComesBack`
  holds because the start of that page, handled next, sends the document again;
  commands are not repeated.
- *Terminal*: readiness of a page that was replaced before its readiness was
  handled is accepted later and keeps the current page's stream out until the next
  page start. A paste that was queued when its page was replaced is executed by the
  next page. After more than 8 reloads a stream is forgotten and could begin again.
- *Touch*: endpoints are not shifted when the buffer loses lines, so the handles
  drift and the next drag selects other lines; a selection clamped at the first
  line keeps its length. xterm.js does not report wheel scrolling, so handles stay
  in place. Typing during a drag clears the selection and the next move brings it
  back. After the terminal becomes narrower, an endpoint beyond its width makes
  drags do nothing.

## 7. Abstractions

- Ids, keys and token sets are model values or small records; hashing, encoding,
  validation of lengths and formats are their verdicts (an unusable answer, a
  malformed row).
- Times are small naturals; the retry delay of the worker is one tick.
- PostgreSQL is its READ COMMITTED visibility, row locks, unique key and commit.
- A device or agent is revoked at most once and never deleted: the schema has no
  operation that does either.
- A page, its random stream id and its JavaScript context are one number; a script
  is evaluated at one instant.
- Pixels, the placement of toolbar and handles, and the text of lines are left out
  of `TouchSelection`; a touch is the cell that `terminalCellFromPoint` makes of it.
  `Resize` changes the width: a change of height alone, which scrolls or trims the
  buffer as output does but keeps its lines, is left out. Two fingers that land in one touchstart are two steps, one finger each.

## 8. Not modelled, and why

- **Database migrations** (`packages/go/postgresx/migrate.go`): they run once per
  release under one advisory lock, in one transaction per migration; the other
  components share no state with them. Planned below.
- **What the editor's user does in CodeMirror** (typing, undo, search, diagnostics,
  indentation): computations of one page on its own text, most of them in libraries.
- **The sticky Ctrl key and the echo of the spike harness**: what is written, not
  when.
- **Selections made with a mouse**, and pixel geometry: xterm.js and layout.
- **Token verification** (signatures, claims): cryptography on one value. The look-up
  of an owner by identity is one query.
- **The HTTP process**: wiring around `net/http`; a process that stops is an aborted
  or undecided transaction in `SessionIssuance`.
- **Creation of devices, agents, environments and projects**: nothing creates them
  at run time at this commit. Listing is one read-only query.
- **The project catalog controller**: one load at a time, nothing persisted.
- **Relay and agent**: stubs.

The largest files of the repository, `apps/mobile/assets/{editor,terminal}/app.js`,
are bundles generated from `webview/*` together with CodeMirror and xterm.js. They are
modelled where the code in `webview/` depends on them (the selection and scrolling of
xterm.js) and otherwise left aside as libraries.

## 9. Plan

1. `RevocationOutbox`: `SessionIssuance` and `OutboxWorker` composed through
   `outbox.events`: every committed revocation is delivered or concluded; the
   composition refines both of its parts.
2. `Migrations`: several migrators, the advisory lock, a crash between two
   statements; each migration is applied once and in order.
