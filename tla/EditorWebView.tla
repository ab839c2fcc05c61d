----------------------------- MODULE EditorWebView -----------------------------
(***************************************************************************)
(* The editor: EditorWebView and EditorBridgeController on the Flutter      *)
(* side, the page of webview/editor on the other, across page loads and     *)
(* reloads.  What the page holds is abstracted to the document that Flutter *)
(* last put into it; what its user types, undoes or selects is not          *)
(* modelled.  Channel messages and page-start callbacks reach Flutter in    *)
(* the order in which the platform sends them; a script that Flutter asks   *)
(* for runs in whatever page the web view then has, before or after that    *)
(* page's own script.                                                       *)
(***************************************************************************)
EXTENDS WebViewBridge

CONSTANTS Documents,
          Sample,   \* the document of _setInitialDocument
          MaxPages, \* bound: loads and reloads
          MaxAsks   \* bound: actions of the shell's user

ASSUME EditorAssumption ==
  /\ Sample \in Documents
  /\ None \notin Documents
  /\ MaxPages \in Nat
  /\ MaxAsks \in Nat

VARIABLES
  bridge,     \* the controller's WebViewBridgeController
  lastSet,    \* _lastSetDocumentMessage
  hasStarted, \* _hasStartedPage
  inbox,      \* what the platform has sent and Flutter has not handled
  page,       \* the page of the web view; n is 0 until the asset is loaded
  sends,      \* messages given to the bridge so far, refused ones included
  asks,       \* how many of them the user asked for
  accepted,   \* history: the last document given to the bridge was accepted
  ran         \* history: number of the last message that a page executed

flutter == <<bridge, lastSet, hasStarted, sends, asks, accepted>>
vars == <<flutter, inbox, page, ran>>

\* doc is None in a command: focus, undo, redo, openSearch, getState, setSelection.
Message == [n : Nat \ {0}, doc : Documents \cup {None}]

ASSUME NoneAssumption == None \notin [message : Message, reached : BOOLEAN]

Init ==
  /\ bridge = Send(NewBridge, [n |-> 1, doc |-> Sample])
  /\ lastSet = Sample
  /\ hasStarted = FALSE
  /\ inbox = <<>>
  /\ page = [n |-> 0, live |-> FALSE, doc |-> None]
  /\ sends = 1
  /\ asks = 0
  /\ accepted = Accepts(NewBridge)
  /\ ran = 0

-----------------------------------------------------------------------------
(* Flutter *)

\* EditorBridgeController keeps the document before the bridge can refuse it.
SetDocument(doc) ==
  /\ asks < MaxAsks /\ ~bridge.disposed
  /\ lastSet' = doc
  /\ accepted' = Accepts(bridge)
  /\ bridge' = Send(bridge, [n |-> sends + 1, doc |-> doc])
  /\ sends' = sends + 1
  /\ asks' = asks + 1
  /\ UNCHANGED <<hasStarted, inbox, page, ran>>

Command ==
  /\ asks < MaxAsks /\ ~bridge.disposed
  /\ bridge' = Send(bridge, [n |-> sends + 1, doc |-> None])
  /\ sends' = sends + 1
  /\ asks' = asks + 1
  /\ UNCHANGED <<lastSet, hasStarted, inbox, page, accepted, ran>>

\* The next of the platform's callbacks is of this kind.
Delivered(event) == inbox # <<>> /\ Head(inbox) = event /\ inbox' = Tail(inbox)

\* Mutant of HandlePageStarted: the bridge stays ready while the page loads.
HandlePageStarted_StaysReady ==
  /\ Delivered("started")
  /\ IF hasStarted
     THEN /\ bridge' = Send(bridge, [n |-> sends + 1, doc |-> lastSet])
          /\ accepted' = Accepts(bridge)
          /\ sends' = sends + 1
     ELSE UNCHANGED <<bridge, accepted, sends>>
  /\ hasStarted' = TRUE
  /\ UNCHANGED <<lastSet, asks, page, ran>>

\* onPageStarted: the page is not ready, and every page but the first is sent
\* the last document again, behind what the queue already holds.
HandlePageStarted ==
  /\ Delivered("started")
  /\ IF hasStarted
     THEN /\ bridge' = Send(MarkNotReady(bridge), [n |-> sends + 1, doc |-> lastSet])
          /\ accepted' = Accepts(bridge)
          /\ sends' = sends + 1
     ELSE /\ bridge' = MarkNotReady(bridge)
          /\ UNCHANGED <<accepted, sends>>
  /\ hasStarted' = TRUE
  /\ UNCHANGED <<lastSet, asks, page, ran>>

\* editor.ready carries no page: it makes the bridge ready for any page.  After
\* dispose markReady throws and nothing changes.
HandleReady ==
  /\ Delivered("ready")
  /\ bridge' = IF bridge.disposed THEN bridge ELSE MarkReady(bridge)
  /\ UNCHANGED <<lastSet, hasStarted, sends, asks, accepted, page, ran>>

\* The shell goes away.
DisposeBridge ==
  /\ ~bridge.disposed
  /\ bridge' = Dispose(bridge)
  /\ UNCHANGED <<lastSet, hasStarted, inbox, page, sends, asks, accepted, ran>>

-----------------------------------------------------------------------------
(* The web view and its page *)

\* The asset is loaded, or the page is reloaded: all it held is gone.
PageStarts ==
  /\ page.n < MaxPages
  /\ page' = [n |-> page.n + 1, live |-> FALSE, doc |-> None]
  /\ inbox' = Append(inbox, "started")
  /\ UNCHANGED <<flutter, ran>>

FirstPageStarts == page.n = 0 /\ PageStarts

\* main.ts runs: CodeRoamEditorReceive is defined and editor.ready is posted.
ScriptRuns ==
  /\ page.n > 0 /\ ~page.live
  /\ page' = [page EXCEPT !.live = TRUE]
  /\ inbox' = Append(inbox, "ready")
  /\ UNCHANGED <<flutter, ran>>

\* The script of the running call is evaluated.  Without CodeRoamEditorReceive
\* the message is lost.
Receive ==
  /\ bridge.call # None /\ ~bridge.call.reached
  /\ bridge' = [bridge EXCEPT !.call.reached = TRUE]
  /\ IF page.live
     THEN /\ ran' = bridge.call.message.n
          /\ page' = IF bridge.call.message.doc = None THEN page
                     ELSE [page EXCEPT !.doc = bridge.call.message.doc]
     ELSE UNCHANGED <<ran, page>>
  /\ UNCHANGED <<lastSet, hasStarted, sends, asks, accepted, inbox>>

\* The platform answers runJavaScript, with an error or not.
CallReturns ==
  /\ bridge.call # None /\ bridge.call.reached
  /\ bridge' = CallEnded(bridge)
  /\ UNCHANGED <<lastSet, hasStarted, sends, asks, accepted, inbox, page, ran>>

-----------------------------------------------------------------------------
Handle == HandlePageStarted \/ HandleReady

Next ==
  \/ \E doc \in Documents : SetDocument(doc)
  \/ Command \/ Handle \/ DisposeBridge
  \/ PageStarts \/ ScriptRuns \/ Receive \/ CallReturns

\* The asset is loaded, a page's script runs, Flutter handles what it is sent,
\* and the platform evaluates and answers.  Nothing is owed by the user, and no
\* reload.
Fairness ==
  /\ WF_vars(FirstPageStarts) /\ WF_vars(ScriptRuns)
  /\ WF_vars(Handle)
  /\ WF_vars(Receive) /\ WF_vars(CallReturns)

Spec == Init /\ [][Next]_vars
FairSpec == Spec /\ Fairness

-----------------------------------------------------------------------------
(* Properties *)

\* Every variable holds a value of the kind the code keeps in it; the queue
\* keeps its limit, and the message that is running is its head.
TypeOK ==
  /\ bridge.ready \in BOOLEAN /\ bridge.disposed \in BOOLEAN
  /\ bridge.queue \in Seq(Message) /\ Len(bridge.queue) <= MaxPending
  /\ bridge.call \in [message : Message, reached : BOOLEAN] \cup {None}
  /\ bridge.call # None =>
       bridge.disposed \/ (bridge.queue # <<>> /\ bridge.call.message = Head(bridge.queue))
  /\ lastSet \in Documents
  /\ hasStarted \in BOOLEAN /\ accepted \in BOOLEAN
  /\ inbox \in Seq({"started", "ready"})
  /\ page \in [n : 0..MaxPages, live : BOOLEAN, doc : Documents \cup {None}]
  /\ sends \in Nat /\ asks \in 0..MaxAsks /\ ran \in Nat

\* Pages execute messages in the order in which Flutter sent them and none of
\* them twice, whatever reloads happen while messages wait or run ("ordered
\* single flushing", docs/ux-spike-results.md).
MessagesInOrder == [][Receive /\ page.live => bridge.call.message.n > ran]_vars

\* When nothing is under way, the page has the last document that Flutter set:
\* a reload that overtakes the message, or comes before the page's start is
\* known, does not leave another document there, or none.  A document the
\* full queue refused is the exception.
QuietPageHasDocument ==
  bridge.ready /\ bridge.queue = <<>> /\ inbox = <<>> /\ accepted => page.doc = lastSet

\* A document that was set and not refused gets into the page, and again after
\* each reload, unless another is set.
DocumentComesBack ==
  \A doc \in Documents :
    lastSet = doc /\ accepted
      ~> page.doc = doc \/ lastSet # doc \/ ~accepted \/ bridge.disposed
===============================================================================
