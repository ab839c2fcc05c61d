----------------------------- MODULE TerminalStream -----------------------------
(***************************************************************************)
(* The terminal's input stream: the page of webview/terminal, which numbers *)
(* its events and names its stream, and on the Flutter side TerminalWebView *)
(* with TerminalInputEventDeduplicator, the clipboard and the bridge back   *)
(* to the page.  Messages of a page may be handled late, repeatedly and in  *)
(* any order ("simulate duplicated and delayed bridge messages",            *)
(* docs/touch-ux-spike.md), but not before the start of their page; page    *)
(* starts are handled in order.                                             *)
(***************************************************************************)
EXTENDS WebViewBridge

CONSTANTS MaxRemembered, \* maxRememberedEventIds: 256
          MaxRetired,    \* _maxRetiredStreamIds: 8
          MaxPages,      \* bound: loads and reloads
          MaxEvents,     \* bound: events of the page's user
          MaxKeys,       \* bound: keys of the developer row
          MaxTaken       \* bound: events that Flutter accepts

ASSUME StreamAssumption ==
  /\ MaxRemembered \in Nat \ {0}
  /\ MaxRetired \in Nat
  /\ None \notin Nat
  /\ {MaxPages, MaxEvents, MaxKeys, MaxTaken} \subseteq Nat

VARIABLES
  page,       \* the web view's page; its number stands for its random stream id
  posted,     \* the messages of all pages: none is ever lost
  told,       \* the last page whose start Flutter has handled
  active,     \* _activeStreamId
  remembered, \* _eventIdOrder, sequence numbers in the order of acceptance
  retired,    \* _retiredStreamIdOrder
  bridge,
  reading,    \* clipboard reads under way: which of taken asked for each
  events,     \* counters of the bounds
  keys,
  taken,      \* history: the events that were accepted, with the resets before
  resets,     \* history: how many streams were retired
  retiredAt,  \* history: the value of resets at a stream's last retirement, or 0
  pasted      \* history: the pastes that pages executed

stream == <<told, active, remembered, retired>>
history == <<taken, resets, retiredAt, pasted>>
vars == <<page, posted, stream, bridge, reading, events, keys, history>>

Pages == 1..MaxPages
Kinds == {"input", "copySelection", "pasteRequest"}
Posted == [stream : Pages, seq : Nat, kind : Kinds \cup {"ready"}]

\* terminal.write, focus, clear or resize; terminal.paste, with who asked for it,
\* the stream that was active and the page that Flutter knew of.
Write == [asker |-> None, active |-> None, told |-> 0]
Paste(s) == [asker |-> s, active |-> active, told |-> told]
Message == [asker : Pages \cup {None}, active : Pages \cup {None}, told : 0..MaxPages]

ASSUME NoneAssumption == None \notin [message : Message, reached : BOOLEAN]

Elements(seq) == {seq[i] : i \in DOMAIN seq}

\* Mutant of Bounded: the oldest element is dropped one too late.
Bounded_OneMore(seq, x, bound) ==
  LET longer == Append(seq, x) IN IF Len(longer) > bound + 1 THEN Tail(longer) ELSE longer

\* The last bound elements of seq followed by x.
Bounded(seq, x, bound) ==
  LET longer == Append(seq, x) IN IF Len(longer) > bound THEN Tail(longer) ELSE longer

Init ==
  /\ page = [n |-> 0, live |-> FALSE, seq |-> 0]
  /\ posted = {}
  /\ told = 0 /\ active = None /\ remembered = <<>> /\ retired = <<>>
  /\ bridge = NewBridge
  /\ reading = {}
  /\ events = 0 /\ keys = 0
  /\ taken = <<>> /\ resets = 0 /\ retiredAt = [s \in Pages |-> 0] /\ pasted = {}

-----------------------------------------------------------------------------
(* The page *)

PageStarts ==
  /\ page.n < MaxPages
  /\ page' = [n |-> page.n + 1, live |-> FALSE, seq |-> 0]
  /\ UNCHANGED <<posted, stream, bridge, reading, events, keys, history>>

\* main.ts runs to its last line.
ScriptRuns ==
  /\ page.n > 0 /\ ~page.live
  /\ page' = [page EXCEPT !.live = TRUE]
  /\ posted' = posted \cup {[stream |-> page.n, seq |-> 0, kind |-> "ready"]}
  /\ UNCHANGED <<stream, bridge, reading, events, keys, history>>

\* sendTerminalStreamEvent
PostEvent(kind) ==
  /\ page' = [page EXCEPT !.seq = @ + 1]
  /\ posted' = posted \cup {[stream |-> page.n, seq |-> page.seq + 1, kind |-> kind]}

UserActs(kind) ==
  /\ page.live /\ events < MaxEvents
  /\ PostEvent(kind)
  /\ events' = events + 1
  /\ UNCHANGED <<stream, bridge, reading, keys, history>>

\* The script of the running call is evaluated in the page there is; text that
\* is pasted comes back as input.
Receive ==
  /\ bridge.call # None /\ ~bridge.call.reached
  /\ bridge' = [bridge EXCEPT !.call.reached = TRUE]
  /\ LET message == bridge.call.message IN
     IF page.live /\ message.asker # None
     THEN /\ PostEvent("input")
          /\ pasted' = pasted \cup
             {[asker |-> message.asker, active |-> message.active, told |-> message.told,
               into |-> page.n]}
     ELSE UNCHANGED <<page, posted, pasted>>
  /\ UNCHANGED <<stream, reading, events, keys, taken, resets, retiredAt>>

-----------------------------------------------------------------------------
(* Flutter *)

CallReturns ==
  /\ bridge.call # None /\ bridge.call.reached
  /\ bridge' = CallEnded(bridge)
  /\ UNCHANGED <<page, posted, stream, reading, events, keys, history>>

\* A key of the developer row, echoed by the spike harness.
DeveloperKey ==
  /\ keys < MaxKeys /\ ~bridge.disposed
  /\ keys' = keys + 1
  /\ bridge' = Send(bridge, Write)
  /\ UNCHANGED <<page, posted, stream, reading, events, history>>

\* Mutant of Reset: a page start forgets the stream without retiring it.
Reset_Forgets ==
  /\ active' = None
  /\ remembered' = <<>>
  /\ resets' = IF active = None THEN resets ELSE resets + 1
  /\ retiredAt' = IF active = None THEN retiredAt ELSE [retiredAt EXCEPT ![active] = resets + 1]
  /\ UNCHANGED retired

\* reset: the active stream is retired, and the oldest retired one may be
\* forgotten.
Reset ==
  /\ active' = None
  /\ remembered' = <<>>
  /\ IF active = None
     THEN UNCHANGED <<retired, resets, retiredAt>>
     ELSE /\ retired' = Bounded(retired, active, MaxRetired)
          /\ resets' = resets + 1
          /\ retiredAt' = [retiredAt EXCEPT ![active] = resets + 1]

HandlePageStarted ==
  /\ told < page.n
  /\ told' = told + 1
  /\ Reset
  /\ bridge' = MarkNotReady(bridge)
  /\ UNCHANGED <<page, posted, reading, events, keys, taken, pasted>>

\* beginStream, and markReady with onReady if it says yes: the harness then
\* writes its first line.  A disposed bridge throws instead.
HandleReady(m) ==
  /\ m.kind = "ready" /\ m.stream <= told
  /\ \/ active = None /\ m.stream \notin Elements(retired)
     \/ active = m.stream
  /\ active' = m.stream
  /\ remembered' = IF active = None THEN <<>> ELSE remembered
  /\ bridge' = IF bridge.disposed \/ bridge.ready THEN bridge ELSE Send(MarkReady(bridge), Write)
  /\ UNCHANGED <<page, posted, told, retired, reading, events, keys, history>>

\* Mutant of Accepted: events are remembered but not looked up.
Accepted_Again(m) == m.kind \in Kinds /\ active = m.stream

\* accept
Accepted(m) == m.kind \in Kinds /\ active = m.stream /\ m.seq \notin Elements(remembered)

\* An accepted event: input is echoed, a paste request reads the clipboard, a
\* copied selection goes to the clipboard.
HandleEvent(m) ==
  /\ m.stream <= told
  /\ Accepted(m)
  /\ Len(taken) < MaxTaken
  /\ remembered' = Bounded(remembered, m.seq, MaxRemembered)
  /\ taken' = Append(taken, [stream |-> m.stream, seq |-> m.seq, resets |-> resets])
  /\ bridge' = IF m.kind = "input" THEN Send(bridge, Write) ELSE bridge
  /\ reading' = IF m.kind = "pasteRequest" THEN reading \cup {Len(taken) + 1} ELSE reading
  /\ UNCHANGED <<page, posted, told, active, retired, events, keys, resets, retiredAt, pasted>>

\* Mutant of ClipboardAnswers: the stream is not looked at after the await.
ClipboardAnswers_Unchecked(r) ==
  /\ r \in reading
  /\ reading' = reading \ {r}
  /\ bridge' \in {bridge, Send(bridge, Paste(taken[r].stream))}
  /\ UNCHANGED <<page, posted, stream, events, keys, history>>

\* Clipboard.getData returns, with a text that can be pasted or without; by then
\* the page that asked may be gone, or the widget.
ClipboardAnswers(r) ==
  /\ r \in reading
  /\ reading' = reading \ {r}
  /\ bridge' \in IF active = taken[r].stream /\ ~bridge.disposed
                 THEN {bridge, Send(bridge, Paste(taken[r].stream))}
                 ELSE {bridge}
  /\ UNCHANGED <<page, posted, stream, events, keys, history>>

DisposeBridge ==
  /\ ~bridge.disposed
  /\ bridge' = Dispose(bridge)
  /\ UNCHANGED <<page, posted, stream, reading, events, keys, history>>

-----------------------------------------------------------------------------
Next ==
  \/ PageStarts \/ ScriptRuns \/ Receive \/ CallReturns
  \/ \E kind \in Kinds : UserActs(kind)
  \/ DeveloperKey \/ HandlePageStarted \/ DisposeBridge
  \/ \E m \in posted : HandleReady(m) \/ HandleEvent(m)
  \/ \E r \in reading : ClipboardAnswers(r)

Spec == Init /\ [][Next]_vars

-----------------------------------------------------------------------------
(* Properties *)

\* Every variable holds a value of the kind the code keeps in it, the memories
\* within their limits; the active stream is not a retired one.
TypeOK ==
  /\ page \in [n : 0..MaxPages, live : BOOLEAN, seq : Nat]
  /\ posted \subseteq Posted
  /\ told \in 0..page.n
  /\ active \in Pages \cup {None}
  /\ remembered \in Seq(Nat) /\ Len(remembered) <= MaxRemembered
  /\ retired \in Seq(Pages) /\ Len(retired) <= MaxRetired
  /\ active \notin Elements(retired)
  /\ bridge.queue \in Seq(Message) /\ Len(bridge.queue) <= MaxPending
  /\ bridge.call \in [message : Message, reached : BOOLEAN] \cup {None}
  /\ reading \subseteq DOMAIN taken
  /\ pasted \subseteq [asker : Pages, active : Pages, told : 0..MaxPages, into : Pages]

\* An event is accepted once, however often and late the platform repeats it:
\* a second time only after MaxRemembered others of its stream, or after so many
\* reloads that its stream was forgotten.  This is what the two bounded memories
\* guarantee of "no duplicate input" (docs/development-spec.md).
DuplicatesRefused ==
  \A i, j \in DOMAIN taken :
    i < j /\ taken[i].stream = taken[j].stream /\ taken[i].seq = taken[j].seq =>
      \/ j - i > MaxRemembered
      \/ taken[j].resets - taken[i].resets > MaxRetired

\* Delayed readiness does not bring a replaced page back, with two exceptions
\* that the code leaves open: a page that was replaced before its readiness was
\* handled was never retired, and only MaxRetired streams are remembered.
StaleStreamsRefused ==
  active \in Pages /\ active # told =>
    retiredAt[active] = 0 \/ resets - retiredAt[active] >= MaxRetired

\* A clipboard text is pasted into the page that asked for it, however slow the
\* clipboard.  The code leaves two exceptions open: the text was in the bridge's
\* queue already when Flutter learned of the next page, or the page that asked
\* was the active one after it had been replaced (see StaleStreamsRefused).
PasteReachesItsPage ==
  \A p \in pasted :
    \/ p.into = p.asker
    \/ p.into > p.told
    \/ p.asker = p.active /\ p.active # p.told
===============================================================================
