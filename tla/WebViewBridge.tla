----------------------------- MODULE WebViewBridge -----------------------------
(***************************************************************************)
(* WebViewBridgeController: the queue between a Flutter widget and the page *)
(* in its web view.  Messages wait until the page is ready and are handed   *)
(* to runJavaScript one at a time; the head leaves the queue when that call  *)
(* has ended.  A bridge is a value here: each method of the class is an      *)
(* operator from the bridge before it to the bridge after it, so that a      *)
(* widget's handler that calls several of them is still one step.           *)
(***************************************************************************)
EXTENDS Integers, Sequences

CONSTANTS MaxPending, \* maxPendingMessages: 256
          None

ASSUME BridgeAssumption == MaxPending \in Nat \ {0}

\* A call of runJavaScript that has not ended, and whether the page got it.
Call(message) == [message |-> message, reached |-> FALSE]

\* A controller that its widget has attached and no page has answered yet.
NewBridge == [ready |-> FALSE, disposed |-> FALSE, queue |-> <<>>, call |-> None]

\* Mutant of Drained: nothing remembers that a drain is running.
Drained_Reentrant(b) ==
  IF b.ready /\ ~b.disposed /\ b.queue # <<>> THEN [b EXCEPT !.call = Call(Head(b.queue))] ELSE b

\* _scheduleDrain, and the condition of the loop in _drain: the next message is
\* run unless one is running (_draining) or nothing can be.
Drained(b) ==
  IF b.call = None /\ b.ready /\ ~b.disposed /\ b.queue # <<>>
  THEN [b EXCEPT !.call = Call(Head(b.queue))]
  ELSE b

MarkReady(b) == IF b.ready THEN b ELSE Drained([b EXCEPT !.ready = TRUE])

\* A call that is running goes on.
MarkNotReady(b) == IF b.disposed THEN b ELSE [b EXCEPT !.ready = FALSE]

\* Mutant of Accepts: the limit is off by one.
Accepts_OneMore(b) == ~b.disposed /\ Len(b.queue) <= MaxPending

Accepts(b) == ~b.disposed /\ Len(b.queue) < MaxPending

\* A message that is not accepted is an error of its sender.
Send(b, message) ==
  IF Accepts(b) THEN Drained([b EXCEPT !.queue = Append(@, message)]) ELSE b

\* Mutant of CallEnded: the loop is left after each message.
CallEnded_OneEach(b) ==
  [b EXCEPT !.call = None, !.queue = IF b.disposed THEN @ ELSE Tail(@)]

\* runJavaScript's future completes, with or without an error: its message
\* leaves the queue, if dispose has not emptied it, and the loop goes on.
CallEnded(b) ==
  Drained([b EXCEPT !.call = None, !.queue = IF b.disposed THEN @ ELSE Tail(@)])

Dispose(b) == [b EXCEPT !.disposed = TRUE, !.ready = FALSE, !.queue = <<>>]
===============================================================================
