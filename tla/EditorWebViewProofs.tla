--------------------------- MODULE EditorWebViewProofs ---------------------------
(***************************************************************************)
(* Theorems about EditorWebView, for every queue limit and any number of    *)
(* documents, pages and messages.  IInv is the inductive invariant: the     *)
(* bridge is sound, messages are numbered upwards from those that pages have *)
(* executed, readiness and page starts are still ordered when Flutter        *)
(* handles them, and the last document is somewhere on its way to the page.  *)
(***************************************************************************)
EXTENDS EditorWebView, TLAPS, SequenceTheorems

-----------------------------------------------------------------------------
(* The bridge, for any kind of message *)

Bridges(Messages) ==
  [ready : BOOLEAN, disposed : BOOLEAN, queue : Seq(Messages),
   call : [message : Messages, reached : BOOLEAN] \cup {None}]

\* What WebViewBridgeController keeps true between its operations: the queue's
\* limit; a call is of the queue's head, until dispose empties the queue; nothing
\* waits that could run.
Sound(b) ==
  /\ Len(b.queue) <= MaxPending
  /\ b.call # None => b.disposed \/ (b.queue # <<>> /\ b.call.message = Head(b.queue))
  /\ b.disposed => ~b.ready /\ b.queue = <<>>
  /\ b.call = None /\ b.ready => b.queue = <<>>

\* A call is not None: None is not a record of a call.
NoneIsNoCall(Messages) == None \notin [message : Messages, reached : BOOLEAN]

-----------------------------------------------------------------------------
(* The inductive invariant *)

BridgeInv == bridge \in Bridges(Message) /\ Sound(bridge)

\* Numbers in the queue go up to that of the message sent last, and from that of
\* the message executed last, which may be the head's whose call has reached the
\* page.
Numbered(b, sent, executed) ==
  /\ executed <= sent
  /\ \A i \in DOMAIN b.queue :
       /\ b.queue[i].n <= sent
       /\ b.queue[i].n > executed \/ (i = 1 /\ b.call # None /\ b.call.reached)
       /\ \A j \in DOMAIN b.queue : i < j => b.queue[i].n < b.queue[j].n
  /\ b.call # None =>
       b.call.message.n <= sent /\ (~b.call.reached => b.call.message.n > executed)

OrderInv == Numbered(bridge, sends, ran)

\* Flutter has yet to learn of a page.
Coming == \E i \in DOMAIN inbox : inbox[i] = "started"

\* Before the first page nothing runs.  A page that is ready is the live one, and
\* readiness that has not been handled is that of the live page, unless another
\* page is coming.
PageInv ==
  /\ ~hasStarted => /\ ~bridge.ready /\ bridge.call = None
                    /\ inbox # <<>> => inbox[1] = "started"
                    /\ page.n > 0 => inbox # <<>>
  /\ bridge.ready => page.live \/ Coming
  /\ \A i \in DOMAIN inbox :
       inbox[i] = "ready" => page.live \/ \E j \in DOMAIN inbox : j > i /\ inbox[j] = "started"

\* The queue's last document is the one that was set last.
LastIs(queue, k, doc) ==
  /\ k \in DOMAIN queue /\ queue[k].doc = doc
  /\ \A j \in DOMAIN queue : j > k => queue[j].doc = None

\* Where the last document is: it waits in the queue; or its call runs in the live
\* page; or it is there.
Waits == \E k \in DOMAIN bridge.queue : LastIs(bridge.queue, k, lastSet) /\ (k = 1 => bridge.call = None)
Runs ==
  /\ LastIs(bridge.queue, 1, lastSet) /\ bridge.call # None
  /\ IF bridge.call.reached THEN page.doc = lastSet ELSE page.live
Arrived == page.doc = lastSet /\ \A j \in DOMAIN bridge.queue : bridge.queue[j].doc = None

\* It is in one of these places, or a page is coming that will be sent it again.
DocInv ==
  accepted /\ ~bridge.disposed =>
    Waits \/ (hasStarted /\ (Coming \/ Runs \/ Arrived))

IInv == TypeOK /\ BridgeInv /\ OrderInv /\ PageInv /\ DocInv

-----------------------------------------------------------------------------
(* What each operation of WebViewBridge does to the queue and the running call, and
   that the bridge stays sound *)

LEMMA CallFacts ==
  ASSUME NEW Messages, NEW m \in Messages, NoneIsNoCall(Messages)
  PROVE  Call(m) # None /\ Call(m).message = m /\ ~Call(m).reached
  <1>1. Call(m) \in [message : Messages, reached : BOOLEAN]
    BY DEF Call
  <1>2. Call(m) # None
    BY <1>1 DEF NoneIsNoCall
  <1>3. QED
    BY <1>2 DEF Call

LEMMA NewBridgeSound ==
  ASSUME NEW Messages
  PROVE  NewBridge \in Bridges(Messages) /\ Sound(NewBridge)
  <1>1. Len(<<>>) = 0 /\ <<>> \in Seq(Messages)
    BY EmptySeq
  <1>2. QED
    BY <1>1, BridgeAssumption DEF NewBridge, Bridges, Sound

\* Drained changes nothing but the call that is running.
LEMMA DrainedFacts ==
  ASSUME NEW Messages, NEW b \in Bridges(Messages)
  PROVE  /\ Drained(b) \in Bridges(Messages)
         /\ Drained(b).ready = b.ready
         /\ Drained(b).disposed = b.disposed
         /\ Drained(b).queue = b.queue
         /\ Drained(b).call = IF b.call = None /\ b.ready /\ ~b.disposed /\ b.queue # <<>>
                              THEN Call(Head(b.queue)) ELSE b.call
  <1>1. CASE b.call = None /\ b.ready /\ ~b.disposed /\ b.queue # <<>>
    <2>1. Head(b.queue) \in Messages
      BY <1>1 DEF Bridges
    <2>2. Call(Head(b.queue)) \in [message : Messages, reached : BOOLEAN]
      BY <2>1 DEF Call
    <2>3. QED
      BY <1>1, <2>2 DEF Drained, Bridges
  <1>2. CASE ~(b.call = None /\ b.ready /\ ~b.disposed /\ b.queue # <<>>)
    BY <1>2 DEF Drained
  <1>3. QED
    BY <1>1, <1>2

\* A message that is accepted goes to the end of the queue, and is run at once if
\* the queue was empty and the page ready.
LEMMA SendFacts ==
  ASSUME NEW Messages, NEW b \in Bridges(Messages), NEW m \in Messages,
         NoneIsNoCall(Messages), Sound(b)
  PROVE  /\ Send(b, m) \in Bridges(Messages) /\ Sound(Send(b, m))
         /\ Send(b, m).ready = b.ready
         /\ Send(b, m).disposed = b.disposed
         /\ ~Accepts(b) => Send(b, m) = b
         /\ Accepts(b) => /\ Send(b, m).queue = Append(b.queue, m)
                          /\ Send(b, m).call = IF b.call = None /\ b.ready THEN Call(m) ELSE b.call
  <1>1. CASE ~Accepts(b)
    BY <1>1 DEF Send
  <1>2. CASE Accepts(b)
    <2> DEFINE c == [b EXCEPT !.queue = Append(@, m)]
    <2>1. /\ Append(b.queue, m) \in Seq(Messages) /\ Append(b.queue, m) # <<>>
          /\ Len(Append(b.queue, m)) = Len(b.queue) + 1 /\ Len(b.queue) \in Nat
          /\ b.queue = <<>> => Head(Append(b.queue, m)) = m
          /\ b.queue # <<>> => Head(Append(b.queue, m)) = Head(b.queue)
      BY AppendProperties, HeadTailAppend, LenProperties DEF Bridges
    <2>2. /\ c \in Bridges(Messages)
          /\ c.ready = b.ready /\ c.disposed = b.disposed /\ c.call = b.call
          /\ c.queue = Append(b.queue, m)
      BY <2>1 DEF Bridges
    <2>3. Send(b, m) = Drained(c)
      BY <1>2 DEF Send
    <2> HIDE DEF c
    <2>4. /\ Send(b, m) \in Bridges(Messages)
          /\ Send(b, m).ready = b.ready
          /\ Send(b, m).disposed = b.disposed
          /\ Send(b, m).queue = Append(b.queue, m)
          /\ Send(b, m).call = IF b.call = None /\ b.ready /\ ~b.disposed
                               THEN Call(Head(Append(b.queue, m))) ELSE b.call
      BY <2>1, <2>2, <2>3, DrainedFacts
    <2>5. ~b.disposed /\ Len(b.queue) + 1 <= MaxPending
      BY <1>2, <2>1, BridgeAssumption DEF Accepts
    <2>6. b.call = None /\ b.ready => Head(Append(b.queue, m)) = m
      BY <2>1 DEF Sound
    <2>7. Send(b, m).call = IF b.call = None /\ b.ready THEN Call(m) ELSE b.call
      BY <2>4, <2>5, <2>6
    <2>8. Call(m) # None /\ Call(m).message = m
      BY CallFacts
    <2>9. Sound(Send(b, m))
      <3>1. Len(Send(b, m).queue) <= MaxPending /\ Send(b, m).queue # <<>> /\ ~Send(b, m).disposed
        BY <2>1, <2>4, <2>5
      <3>2. Send(b, m).call # None => Send(b, m).call.message = Head(Send(b, m).queue)
        <4>1. CASE b.call = None /\ b.ready
          BY <2>4, <2>6, <2>7, <2>8, <4>1
        <4>2. CASE b.call # None
          <5>1. b.queue # <<>> /\ b.call.message = Head(b.queue)
            BY <2>5, <4>2 DEF Sound
          <5>2. QED
            BY <2>1, <2>4, <2>7, <4>2, <5>1
        <4>3. QED
          BY <2>7, <4>1, <4>2
      <3>3. Send(b, m).call = None => ~Send(b, m).ready
        BY <2>4, <2>7, <2>8
      <3>4. QED
        BY <3>1, <3>2, <3>3 DEF Sound
    <2>10. QED
      BY <1>2, <2>4, <2>7, <2>9
  <1>3. QED
    BY <1>1, <1>2

\* A page that is ready gets the head of the queue, unless a call is running.
LEMMA MarkReadyFacts ==
  ASSUME NEW Messages, NEW b \in Bridges(Messages), NoneIsNoCall(Messages), Sound(b), ~b.disposed
  PROVE  /\ MarkReady(b) \in Bridges(Messages) /\ Sound(MarkReady(b))
         /\ MarkReady(b).ready
         /\ ~MarkReady(b).disposed
         /\ MarkReady(b).queue = b.queue
         /\ MarkReady(b).call = IF b.call = None /\ b.queue # <<>>
                                THEN Call(Head(b.queue)) ELSE b.call
  <1>1. CASE b.ready
    BY <1>1 DEF MarkReady, Sound
  <1>2. CASE ~b.ready
    <2> DEFINE c == [b EXCEPT !.ready = TRUE]
    <2>1. /\ c \in Bridges(Messages)
          /\ c.ready /\ ~c.disposed /\ c.call = b.call /\ c.queue = b.queue
      BY DEF Bridges
    <2>2. MarkReady(b) = Drained(c)
      BY <1>2 DEF MarkReady
    <2> HIDE DEF c
    <2>3. /\ MarkReady(b) \in Bridges(Messages)
          /\ MarkReady(b).ready
          /\ ~MarkReady(b).disposed
          /\ MarkReady(b).queue = b.queue
          /\ MarkReady(b).call = IF b.call = None /\ b.queue # <<>>
                                 THEN Call(Head(b.queue)) ELSE b.call
      BY <2>1, <2>2, DrainedFacts
    <2>4. \A m \in Messages : Call(m) # None /\ Call(m).message = m
      BY CallFacts
    <2>5. b.queue # <<>> => Head(b.queue) \in Messages
      BY DEF Bridges
    <2>6. Sound(MarkReady(b))
      <3>1. MarkReady(b).call # None =>
              MarkReady(b).queue # <<>> /\ MarkReady(b).call.message = Head(MarkReady(b).queue)
        <4>1. CASE b.call = None /\ b.queue # <<>>
          BY <2>3, <2>4, <2>5, <4>1
        <4>2. CASE b.call # None
          BY <2>3, <4>2 DEF Sound
        <4>3. QED
          BY <2>3, <4>1, <4>2
      <3>2. MarkReady(b).call = None => MarkReady(b).queue = <<>>
        BY <2>3, <2>4, <2>5
      <3>3. Len(MarkReady(b).queue) <= MaxPending
        BY <2>3 DEF Sound
      <3>4. QED
        BY <2>3, <3>1, <3>2, <3>3 DEF Sound
    <2>7. QED
      BY <2>3, <2>6
  <1>3. QED
    BY <1>1, <1>2

LEMMA MarkNotReadyFacts ==
  ASSUME NEW Messages, NEW b \in Bridges(Messages), Sound(b)
  PROVE  /\ MarkNotReady(b) \in Bridges(Messages) /\ Sound(MarkNotReady(b))
         /\ ~MarkNotReady(b).ready
         /\ MarkNotReady(b).disposed = b.disposed
         /\ MarkNotReady(b).queue = b.queue
         /\ MarkNotReady(b).call = b.call
  BY DEF MarkNotReady, Bridges, Sound

\* A call that ends takes its message out of the queue, and the next one is run if
\* the page is ready.
LEMMA CallEndedFacts ==
  ASSUME NEW Messages, NEW b \in Bridges(Messages), NoneIsNoCall(Messages), Sound(b), b.call # None
  PROVE  /\ CallEnded(b) \in Bridges(Messages) /\ Sound(CallEnded(b))
         /\ CallEnded(b).ready = b.ready
         /\ CallEnded(b).disposed = b.disposed
         /\ b.disposed => CallEnded(b).queue = <<>> /\ CallEnded(b).call = None
         /\ ~b.disposed =>
              /\ b.queue # <<>>
              /\ CallEnded(b).queue = Tail(b.queue)
              /\ CallEnded(b).call = IF b.ready /\ Tail(b.queue) # <<>>
                                     THEN Call(Head(Tail(b.queue))) ELSE None
  <1> DEFINE rest == IF b.disposed THEN b.queue ELSE Tail(b.queue)
             c == [b EXCEPT !.call = None, !.queue = rest]
  <1>1. CallEnded(b) = Drained(c)
    BY DEF CallEnded, Bridges
  <1>2. b.disposed => b.queue = <<>> /\ ~b.ready
    BY DEF Sound
  <1>3. ~b.disposed => b.queue # <<>>
    BY DEF Sound
  <1>4. rest \in Seq(Messages) /\ Len(rest) <= MaxPending
    <2>1. CASE b.disposed
      BY <2>1, <1>2 DEF Bridges, Sound
    <2>2. CASE ~b.disposed
      <3>1. /\ Tail(b.queue) \in Seq(Messages) /\ Len(Tail(b.queue)) = Len(b.queue) - 1
            /\ Len(b.queue) \in Nat
        BY <1>3, <2>2, HeadTailProperties, LenProperties DEF Bridges
      <3>2. QED
        BY <2>2, <3>1, BridgeAssumption DEF Sound
    <2>3. QED
      BY <2>1, <2>2
  <1>5. /\ c \in Bridges(Messages)
        /\ c.ready = b.ready /\ c.disposed = b.disposed /\ c.call = None /\ c.queue = rest
    <2> HIDE DEF rest
    <2>1. QED
      BY <1>4 DEF Bridges
  <1> HIDE DEF c
  <1>6. /\ CallEnded(b) \in Bridges(Messages)
        /\ CallEnded(b).ready = b.ready
        /\ CallEnded(b).disposed = b.disposed
        /\ CallEnded(b).queue = rest
        /\ CallEnded(b).call = IF b.ready /\ ~b.disposed /\ rest # <<>>
                               THEN Call(Head(rest)) ELSE None
    <2> HIDE DEF rest
    <2>1. QED
      BY <1>1, <1>5, DrainedFacts
  <1>7. rest # <<>> => Head(rest) \in Messages
    BY <1>4, HeadTailProperties
  <1>8. \A m \in Messages : Call(m) # None /\ Call(m).message = m
    BY CallFacts
  <1>9. Sound(CallEnded(b))
    <2>1. b.disposed => rest = <<>> /\ ~b.ready
      BY <1>2
    <2> HIDE DEF rest
    <2>2. CallEnded(b).call # None => rest # <<>> /\ CallEnded(b).call.message = Head(rest)
      BY <1>6, <1>7, <1>8
    <2>3. CallEnded(b).call = None /\ b.ready => rest = <<>>
      BY <1>6, <1>7, <1>8, <2>1
    <2>4. QED
      BY <1>4, <1>6, <2>1, <2>2, <2>3 DEF Sound
  <1>10. QED
    BY <1>2, <1>3, <1>6, <1>9

LEMMA DisposeFacts ==
  ASSUME NEW Messages, NEW b \in Bridges(Messages), Sound(b)
  PROVE  /\ Dispose(b) \in Bridges(Messages) /\ Sound(Dispose(b))
         /\ ~Dispose(b).ready
         /\ Dispose(b).disposed
         /\ Dispose(b).queue = <<>>
         /\ Dispose(b).call = b.call
  <1>1. Len(<<>>) = 0 /\ <<>> \in Seq(Messages)
    BY EmptySeq
  <1>2. /\ Dispose(b) \in Bridges(Messages)
        /\ ~Dispose(b).ready /\ Dispose(b).disposed
        /\ Dispose(b).queue = <<>> /\ Dispose(b).call = b.call
    BY <1>1 DEF Dispose, Bridges
  <1>3. QED
    BY <1>1, <1>2, BridgeAssumption DEF Sound

\* The page gets the running call's message.
LEMMA ReachedFacts ==
  ASSUME NEW Messages, NEW b \in Bridges(Messages), NoneIsNoCall(Messages), Sound(b), b.call # None,
         NEW c, c = [b EXCEPT !.call.reached = TRUE]
  PROVE  /\ c \in Bridges(Messages) /\ Sound(c)
         /\ c.ready = b.ready
         /\ c.disposed = b.disposed
         /\ c.queue = b.queue
         /\ c.call # None /\ c.call.message = b.call.message /\ c.call.reached
  <1>1. b.call \in [message : Messages, reached : BOOLEAN]
    BY DEF Bridges
  <1>2. /\ c.ready = b.ready /\ c.disposed = b.disposed /\ c.queue = b.queue
        /\ c.call = [b.call EXCEPT !.reached = TRUE]
        /\ c \in Bridges(Messages)
    BY <1>1 DEF Bridges
  <1>3. c.call \in [message : Messages, reached : BOOLEAN] /\ c.call.message = b.call.message /\ c.call.reached
    <2> DEFINE d == b.call
    <2>1. d \in [message : Messages, reached : BOOLEAN]
      BY <1>1
    <2>2. c.call = [d EXCEPT !.reached = TRUE]
      BY <1>2
    <2> HIDE DEF d
    <2>3. c.call \in [message : Messages, reached : BOOLEAN] /\ c.call.message = d.message /\ c.call.reached
      BY <2>1, <2>2
    <2>4. QED
      BY <2>3 DEF d
  <1>4. c.call # None
    BY <1>3 DEF NoneIsNoCall
  <1>5. Sound(c)
    <2>1. b.disposed \/ (b.queue # <<>> /\ b.call.message = Head(b.queue))
      BY DEF Sound
    <2>2. Len(b.queue) <= MaxPending /\ (b.disposed => ~b.ready /\ b.queue = <<>>)
      BY DEF Sound
    <2>3. QED
      BY <1>2, <1>3, <1>4, <2>1, <2>2 DEF Sound
  <1>6. QED
    BY <1>2, <1>3, <1>4, <1>5

-----------------------------------------------------------------------------
(* Lemmas about the bridge with the editor's messages *)

LEMMA NoCall == NoneIsNoCall(Message)
  BY NoneAssumption DEF NoneIsNoCall

LEMMA AppendElements ==
  ASSUME NEW S, NEW s \in Seq(S), NEW e \in S
  PROVE  /\ Append(s, e) \in Seq(S)
         /\ DOMAIN s = 1..Len(s) /\ Len(s) \in Nat
         /\ DOMAIN Append(s, e) = 1..(Len(s) + 1)
         /\ \A i \in DOMAIN s : Append(s, e)[i] = s[i]
         /\ Append(s, e)[Len(s) + 1] = e
  BY AppendProperties, LenProperties

LEMMA TailElements ==
  ASSUME NEW S, NEW s \in Seq(S), s # <<>>
  PROVE  /\ Tail(s) \in Seq(S)
         /\ DOMAIN s = 1..Len(s) /\ Len(s) \in Nat /\ Len(s) > 0
         /\ DOMAIN Tail(s) = 1..(Len(s) - 1)
         /\ \A i \in DOMAIN Tail(s) : i + 1 \in DOMAIN s /\ Tail(s)[i] = s[i + 1]
         /\ Head(s) = s[1]
         /\ Tail(s) # <<>> => Head(Tail(s)) = s[2] /\ 2 \in DOMAIN s /\ 1 \in DOMAIN Tail(s)
  <1>1. /\ Tail(s) \in Seq(S) /\ Len(Tail(s)) = Len(s) - 1
        /\ \A i \in 1..Len(Tail(s)) : Tail(s)[i] = s[i + 1]
        /\ DOMAIN s = 1..Len(s) /\ Len(s) \in Nat /\ Len(s) > 0
        /\ DOMAIN Tail(s) = 1..Len(Tail(s))
    BY HeadTailProperties, LenProperties, EmptySeq
  <1>2. Head(s) = s[1]
    OBVIOUS
  <1>3. Tail(s) # <<>> => Len(Tail(s)) > 0 /\ Head(Tail(s)) = Tail(s)[1]
    BY <1>1, EmptySeq, LenProperties
  <1>4. QED
    BY <1>1, <1>2, <1>3

LEMMA QueueElements ==
  ASSUME NEW b \in Bridges(Message)
  PROVE  /\ b.queue \in Seq(Message)
         /\ DOMAIN b.queue = 1..Len(b.queue) /\ Len(b.queue) \in Nat
         /\ \A i \in DOMAIN b.queue : b.queue[i] \in Message /\ b.queue[i].n \in Nat
         /\ b.call # None => b.call.message \in Message /\ b.call.message.n \in Nat
  <1>1. b.queue \in Seq(Message)
    BY DEF Bridges
  <1>2. DOMAIN b.queue = 1..Len(b.queue) /\ Len(b.queue) \in Nat
    BY <1>1, LenProperties
  <1>3. \A i \in DOMAIN b.queue : b.queue[i] \in Message
    BY <1>1, <1>2, ElementOfSeq
  <1>4. b.call # None => b.call.message \in Message
    BY DEF Bridges
  <1>5. \A m \in Message : m.n \in Nat
    BY DEF Message
  <1>6. QED
    BY <1>1, <1>2, <1>3, <1>4, <1>5

\* A message that is sent gets the next number.
LEMMA SendNumbered ==
  ASSUME NEW b \in Bridges(Message), Sound(b), NEW m \in Message,
         NEW sent \in Nat, NEW executed \in Nat, Numbered(b, sent, executed), m.n = sent + 1
  PROVE  Numbered(Send(b, m), sent + 1, executed)
  <1>1. CASE ~Accepts(b)
    <2>1. Send(b, m) = b
      BY <1>1 DEF Send
    <2>2. \A i \in DOMAIN b.queue : b.queue[i].n \in Nat
      BY QueueElements
    <2>3. b.call # None => b.call.message.n \in Nat
      BY DEF Bridges, Message
    <2>4. QED
      BY <2>1, <2>2, <2>3 DEF Numbered
  <1>2. CASE Accepts(b)
    <2> DEFINE q == Append(b.queue, m)
    <2>1. /\ DOMAIN b.queue = 1..Len(b.queue) /\ Len(b.queue) \in Nat
          /\ DOMAIN q = 1..(Len(b.queue) + 1)
          /\ \A i \in DOMAIN b.queue : q[i] = b.queue[i] /\ b.queue[i].n \in Nat
          /\ q[Len(b.queue) + 1] = m
      BY AppendElements, QueueElements
    <2>2. /\ Send(b, m).queue = q
          /\ Send(b, m).call = IF b.call = None /\ b.ready THEN Call(m) ELSE b.call
      BY <1>2, NoCall, SendFacts
    <2>3. Call(m).message = m /\ ~Call(m).reached
      BY NoCall, CallFacts
    <2>4. b.call # None => b.call.message.n \in Nat
      BY DEF Bridges, Message
    <2> HIDE DEF q
    <2>5. ASSUME NEW i \in DOMAIN q
          PROVE  /\ q[i].n <= sent + 1
                 /\ q[i].n > executed \/ (i = 1 /\ Send(b, m).call # None /\ Send(b, m).call.reached)
                 /\ \A j \in DOMAIN q : i < j => q[i].n < q[j].n
      <3>1. CASE i = Len(b.queue) + 1
        BY <2>1, <3>1 DEF Numbered
      <3>2. CASE i \in DOMAIN b.queue
        <4>1. /\ q[i].n <= sent
              /\ q[i].n > executed \/ (i = 1 /\ b.call # None /\ b.call.reached)
              /\ \A j \in DOMAIN b.queue : i < j => q[i].n < q[j].n
          BY <2>1, <3>2 DEF Numbered
        <4>2. b.call # None => Send(b, m).call = b.call
          BY <2>2
        <4>3. QED
          BY <2>1, <3>2, <4>1, <4>2
      <3>3. QED
        BY <2>1, <3>1, <3>2
    <2>6. Send(b, m).call # None =>
            /\ Send(b, m).call.message.n <= sent + 1
            /\ ~Send(b, m).call.reached => Send(b, m).call.message.n > executed
      BY <2>2, <2>3, <2>4 DEF Numbered
    <2>7. QED
      BY <2>2, <2>5, <2>6 DEF Numbered
  <1>3. QED
    BY <1>1, <1>2

\* Readiness changes no number.
LEMMA ReadyNumbered ==
  ASSUME NEW b \in Bridges(Message), Sound(b), ~b.disposed,
         NEW sent \in Nat, NEW executed \in Nat, Numbered(b, sent, executed)
  PROVE  Numbered(MarkReady(b), sent, executed)
  <1>1. /\ MarkReady(b).queue = b.queue
        /\ MarkReady(b).call = IF b.call = None /\ b.queue # <<>> THEN Call(Head(b.queue)) ELSE b.call
    BY NoCall, MarkReadyFacts
  <1>2. CASE b.call = None /\ b.queue # <<>>
    <2>1. 1 \in DOMAIN b.queue /\ Head(b.queue) = b.queue[1] /\ Head(b.queue) \in Message
      BY <1>2, TailElements, ElementOfSeq DEF Bridges
    <2>2. /\ MarkReady(b).call # None /\ MarkReady(b).call.message = b.queue[1]
          /\ ~MarkReady(b).call.reached
      BY <1>1, <1>2, <2>1, NoCall, CallFacts
    <2>3. QED
      BY <1>1, <1>2, <2>1, <2>2 DEF Numbered
  <1>3. CASE ~(b.call = None /\ b.queue # <<>>)
    BY <1>1, <1>3 DEF Numbered
  <1>4. QED
    BY <1>2, <1>3

\* The next call is of a message that no page has executed.
LEMMA CallEndedNumbered ==
  ASSUME NEW b \in Bridges(Message), Sound(b), b.call # None, b.call.reached,
         NEW sent \in Nat, NEW executed \in Nat, Numbered(b, sent, executed)
  PROVE  Numbered(CallEnded(b), sent, executed)
  <1>1. CASE b.disposed
    <2>1. CallEnded(b).queue = <<>> /\ CallEnded(b).call = None
      BY <1>1, NoCall, CallEndedFacts
    <2>2. QED
      BY <2>1 DEF Numbered
  <1>2. CASE ~b.disposed
    <2> DEFINE q == b.queue
               c == CallEnded(b)
    <2>1. /\ q # <<>> /\ c.queue = Tail(q)
          /\ c.call = IF b.ready /\ Tail(q) # <<>> THEN Call(Head(Tail(q))) ELSE None
      BY <1>2, NoCall, CallEndedFacts
    <2>2. /\ DOMAIN q = 1..Len(q) /\ Len(q) \in Nat
          /\ \A i \in DOMAIN Tail(q) : i \in Nat /\ i > 0 /\ i + 1 \in DOMAIN q /\ Tail(q)[i] = q[i + 1]
          /\ Tail(q) # <<>> => Head(Tail(q)) = q[2] /\ 2 \in DOMAIN q
      BY <2>1, TailElements DEF Bridges
    <2>3. \A i \in DOMAIN q : q[i] \in Message
      BY <2>2, ElementOfSeq DEF Bridges
    <2>4. c.call # None => c.call.message = q[2] /\ 2 \in DOMAIN q /\ ~c.call.reached
      <3>1. SUFFICES ASSUME c.call # None PROVE c.call.message = q[2] /\ 2 \in DOMAIN q /\ ~c.call.reached
        OBVIOUS
      <3>2. c.call = Call(q[2]) /\ 2 \in DOMAIN q
        BY <2>1, <2>2, <3>1
      <3>3. q[2] \in Message
        BY <2>3, <3>2
      <3>4. QED
        BY <3>2, <3>3, NoCall, CallFacts
    <2>5. \A i \in DOMAIN q : i > 1 => q[i].n > executed
      BY <2>2 DEF Numbered
    <2>6. ASSUME NEW i \in DOMAIN c.queue
          PROVE  /\ c.queue[i].n <= sent /\ c.queue[i].n > executed
                 /\ \A j \in DOMAIN c.queue : i < j => c.queue[i].n < c.queue[j].n
      <3>1. \A j \in DOMAIN c.queue :
              c.queue[j] = q[j + 1] /\ j + 1 \in DOMAIN q /\ j \in Nat /\ j > 0
        <4>1. c.queue = Tail(q)
          BY <2>1
        <4>2. QED
          BY <2>2, <4>1
      <3>2. /\ q[i + 1].n <= sent
            /\ \A j \in DOMAIN q : i + 1 < j => q[i + 1].n < q[j].n
        BY <3>1 DEF Numbered
      <3>3. QED
        <4>1. i + 1 > 1 /\ \A j \in DOMAIN c.queue : i < j => i + 1 < j + 1
          BY <3>1
        <4>2. QED
          BY <2>5, <3>1, <3>2, <4>1
    <2>7. c.call # None => c.call.message.n <= sent /\ c.call.message.n > executed
      BY <2>4, <2>5 DEF Numbered
    <2>8. executed <= sent
      BY DEF Numbered
    <2> HIDE DEF c
    <2>9. Numbered(c, sent, executed)
      BY <2>6, <2>7, <2>8 DEF Numbered
    <2>10. QED
      BY <2>9 DEF c
  <1>3. QED
    BY <1>1, <1>2

\* A call that reaches the page has its message executed, or lost.
LEMMA ReachedNumbered ==
  ASSUME NEW b \in Bridges(Message), Sound(b), b.call # None, ~b.call.reached,
         NEW sent \in Nat, NEW executed \in Nat, Numbered(b, sent, executed),
         NEW c, c = [b EXCEPT !.call.reached = TRUE]
  PROVE  Numbered(c, sent, executed) /\ Numbered(c, sent, b.call.message.n)
  <1>1. /\ c.queue = b.queue
        /\ c.call # None /\ c.call.message = b.call.message /\ c.call.reached
    BY NoCall, ReachedFacts
  <1>2. /\ DOMAIN b.queue = 1..Len(b.queue) /\ Len(b.queue) \in Nat
        /\ \A i \in DOMAIN b.queue : b.queue[i].n \in Nat
    BY QueueElements
  <1>3. \A i \in DOMAIN b.queue : 1 \in DOMAIN b.queue /\ b.queue[1] = b.call.message
    <2>1. b.disposed => b.queue = <<>>
      BY DEF Sound
    <2>2. ~b.disposed => b.queue # <<>> /\ b.call.message = Head(b.queue)
      BY DEF Sound
    <2>3. QED
      BY <1>2, <2>1, <2>2, TailElements DEF Bridges
  <1>4. Numbered(c, sent, executed)
    BY <1>1 DEF Numbered
  <1>5. Numbered(c, sent, b.call.message.n)
    <2>1. b.call.message.n <= sent
      BY DEF Numbered
    <2>2. ASSUME NEW i \in DOMAIN b.queue
          PROVE  i = 1 \/ b.queue[i].n > b.call.message.n
      BY <1>2, <1>3 DEF Numbered
    <2>3. QED
      BY <1>1, <1>2, <2>1, <2>2 DEF Numbered
  <1>6. QED
    BY <1>4, <1>5

-----------------------------------------------------------------------------
(* Types *)

Events == {"started", "ready"}

\* A sound bridge has the type that TypeOK asks for.
LEMMA BridgeTyped ==
  ASSUME NEW b \in Bridges(Message), Sound(b)
  PROVE  /\ b.ready \in BOOLEAN /\ b.disposed \in BOOLEAN
         /\ b.queue \in Seq(Message) /\ Len(b.queue) <= MaxPending
         /\ b.call \in [message : Message, reached : BOOLEAN] \cup {None}
         /\ b.call # None => b.disposed \/ (b.queue # <<>> /\ b.call.message = Head(b.queue))
  BY DEF Bridges, Sound

\* What Flutter sends is a message of the editor.
LEMMA MessageTyped ==
  ASSUME TypeOK, NEW doc \in Documents \cup {None}
  PROVE  [n |-> sends + 1, doc |-> doc] \in Message
  BY DEF TypeOK, Message

LEMMA InitTyped ==
  ASSUME Init
  PROVE  /\ TypeOK /\ BridgeInv
         /\ bridge.queue = <<[n |-> 1, doc |-> Sample]>> /\ bridge.call = None /\ ~bridge.ready
  <1> DEFINE m == [n |-> 1, doc |-> Sample]
  <1>1. m \in Message
    BY EditorAssumption DEF Message
  <1>2. NewBridge \in Bridges(Message) /\ Sound(NewBridge)
    BY NewBridgeSound
  <1>3. Accepts(NewBridge)
    BY EmptySeq, BridgeAssumption DEF Accepts, NewBridge
  <1>4. BridgeInv
    BY <1>1, <1>2, NoCall, SendFacts DEF Init, BridgeInv
  <1>5. bridge.queue = Append(<<>>, m) /\ bridge.call = None /\ ~bridge.ready
    <2>1. NewBridge.queue = <<>> /\ NewBridge.call = None /\ ~NewBridge.ready
      BY DEF NewBridge
    <2>2. /\ Send(NewBridge, m).queue = Append(NewBridge.queue, m)
          /\ Send(NewBridge, m).ready = NewBridge.ready
          /\ Send(NewBridge, m).call =
               IF NewBridge.call = None /\ NewBridge.ready THEN Call(m) ELSE NewBridge.call
      BY <1>1, <1>2, <1>3, NoCall, SendFacts
    <2>3. bridge = Send(NewBridge, m)
      BY DEF Init
    <2> HIDE DEF m
    <2>4. QED
      BY <2>1, <2>2, <2>3
  <1>6. Append(<<>>, m) = <<m>>
    OBVIOUS
  <1>7. <<>> \in Seq(Events)
    BY EmptySeq
  <1>8. TypeOK
    <2>1. page \in [n : 0..MaxPages, live : BOOLEAN, doc : Documents \cup {None}]
      BY EditorAssumption DEF Init
    <2>2. lastSet \in Documents /\ hasStarted \in BOOLEAN /\ inbox \in Seq(Events)
      BY <1>7, EditorAssumption DEF Init
    <2>3. sends \in Nat /\ asks \in 0..MaxAsks /\ ran \in Nat /\ accepted \in BOOLEAN
      BY EditorAssumption DEF Init, Accepts
    <2>4. QED
      BY <1>4, <2>1, <2>2, <2>3, BridgeTyped DEF TypeOK, BridgeInv, Events
  <1>9. QED
    BY <1>4, <1>5, <1>6, <1>8

\* Every step keeps the types and the soundness of the bridge.
LEMMA TypesKept ==
  ASSUME TypeOK, BridgeInv, [Next]_vars
  PROVE  TypeOK' /\ BridgeInv'
  <1>1. ASSUME BridgeInv', lastSet' \in Documents, hasStarted' \in BOOLEAN, accepted' \in BOOLEAN,
               inbox' \in Seq(Events),
               page' \in [n : 0..MaxPages, live : BOOLEAN, doc : Documents \cup {None}],
               sends' \in Nat, asks' \in 0..MaxAsks, ran' \in Nat
        PROVE  TypeOK' /\ BridgeInv'
    BY <1>1, BridgeTyped DEF TypeOK, BridgeInv, Events
  <1>2. /\ lastSet \in Documents /\ hasStarted \in BOOLEAN /\ accepted \in BOOLEAN
        /\ inbox \in Seq(Events)
        /\ page \in [n : 0..MaxPages, live : BOOLEAN, doc : Documents \cup {None}]
        /\ sends \in Nat /\ asks \in 0..MaxAsks /\ ran \in Nat
        /\ sends + 1 \in Nat /\ (asks < MaxAsks => asks + 1 \in 0..MaxAsks)
    BY EditorAssumption DEF TypeOK, Events
  <1>3. \A b \in Bridges(Message) : Accepts(b) \in BOOLEAN
    BY DEF Accepts
  <1>4. ASSUME NEW doc \in Documents, SetDocument(doc)
        PROVE  TypeOK' /\ BridgeInv'
    <2>1. BridgeInv'
      BY <1>4, MessageTyped, NoCall, SendFacts DEF SetDocument, BridgeInv
    <2>2. QED
      BY <1>1, <1>2, <1>4, <2>1 DEF SetDocument, Accepts
  <1>5. CASE Command
    <2>1. BridgeInv'
      BY <1>5, MessageTyped, NoCall, SendFacts DEF Command, BridgeInv
    <2>2. QED
      BY <1>1, <1>2, <1>5, <2>1 DEF Command
  <1>6. \A event : Delivered(event) => inbox' \in Seq(Events)
    BY <1>2, HeadTailProperties DEF Delivered
  <1>7. CASE HandlePageStarted
    <2>1. BridgeInv'
      <3>1. MarkNotReady(bridge) \in Bridges(Message) /\ Sound(MarkNotReady(bridge))
        BY MarkNotReadyFacts DEF BridgeInv
      <3>2. [n |-> sends + 1, doc |-> lastSet] \in Message
        BY <1>2, MessageTyped
      <3>3. QED
        BY <1>7, <3>1, <3>2, NoCall, SendFacts DEF HandlePageStarted, BridgeInv
    <2>2. QED
      BY <1>1, <1>2, <1>6, <1>7, <2>1 DEF HandlePageStarted, Accepts
  <1>8. CASE HandleReady
    <2>1. BridgeInv'
      BY <1>8, NoCall, MarkReadyFacts DEF HandleReady, BridgeInv
    <2>2. QED
      BY <1>1, <1>2, <1>6, <1>8, <2>1 DEF HandleReady
  <1>9. CASE DisposeBridge
    <2>1. BridgeInv'
      BY <1>9, DisposeFacts DEF DisposeBridge, BridgeInv
    <2>2. QED
      BY <1>1, <1>2, <1>9, <2>1 DEF DisposeBridge
  <1>10. CASE PageStarts
    <2>1. BridgeInv' /\ UNCHANGED <<lastSet, hasStarted, sends, asks, accepted, ran>>
      BY <1>10 DEF PageStarts, flutter, BridgeInv
    <2>2. inbox' \in Seq(Events)
      BY <1>2, <1>10, AppendProperties DEF PageStarts, Events
    <2>3. page' \in [n : 0..MaxPages, live : BOOLEAN, doc : Documents \cup {None}]
      BY <1>2, <1>10, EditorAssumption DEF PageStarts
    <2>4. QED
      BY <1>1, <1>2, <2>1, <2>2, <2>3
  <1>11. CASE ScriptRuns
    <2>1. BridgeInv' /\ UNCHANGED <<lastSet, hasStarted, sends, asks, accepted, ran>>
      BY <1>11 DEF ScriptRuns, flutter, BridgeInv
    <2>2. inbox' \in Seq(Events)
      BY <1>2, <1>11, AppendProperties DEF ScriptRuns, Events
    <2>3. page' \in [n : 0..MaxPages, live : BOOLEAN, doc : Documents \cup {None}]
      BY <1>2, <1>11 DEF ScriptRuns
    <2>4. QED
      BY <1>1, <1>2, <2>1, <2>2, <2>3
  <1>12. CASE Receive
    <2>1. BridgeInv'
      BY <1>12, NoCall, ReachedFacts DEF Receive, BridgeInv
    <2>2. bridge.call.message \in Message /\ bridge.call.message.n \in Nat
      BY <1>12, QueueElements DEF Receive, BridgeInv
    <2>3. bridge.call.message.doc \in Documents \cup {None}
      BY <2>2 DEF Message
    <2>4. QED
      BY <1>1, <1>2, <1>12, <2>1, <2>2, <2>3 DEF Receive
  <1>13. CASE CallReturns
    <2>1. BridgeInv'
      BY <1>13, NoCall, CallEndedFacts DEF CallReturns, BridgeInv
    <2>2. QED
      BY <1>1, <1>2, <1>13, <2>1 DEF CallReturns
  <1>14. CASE UNCHANGED vars
    BY <1>1, <1>2, <1>14 DEF vars, flutter, BridgeInv
  <1>15. QED
    BY <1>4, <1>5, <1>7, <1>8, <1>9, <1>10, <1>11, <1>12, <1>13, <1>14 DEF Next, Handle

-----------------------------------------------------------------------------
(* The order of messages *)

\* Every step keeps the numbers in order.
LEMMA OrderKept ==
  ASSUME TypeOK, BridgeInv, OrderInv, [Next]_vars
  PROVE  OrderInv'
  <1>1. /\ bridge \in Bridges(Message) /\ Sound(bridge)
        /\ sends \in Nat /\ ran \in Nat /\ Numbered(bridge, sends, ran)
    BY DEF BridgeInv, TypeOK, OrderInv
  <1>2. ASSUME NEW doc \in Documents, SetDocument(doc)
        PROVE  OrderInv'
    BY <1>1, <1>2, MessageTyped, SendNumbered DEF SetDocument, OrderInv
  <1>3. CASE Command
    BY <1>1, <1>3, MessageTyped, SendNumbered DEF Command, OrderInv
  <1>4. CASE HandlePageStarted
    <2>1. MarkNotReady(bridge) \in Bridges(Message) /\ Sound(MarkNotReady(bridge))
      BY <1>1, MarkNotReadyFacts
    <2>2. Numbered(MarkNotReady(bridge), sends, ran)
      BY <1>1, MarkNotReadyFacts DEF Numbered
    <2>3. [n |-> sends + 1, doc |-> lastSet] \in Message
      BY MessageTyped DEF TypeOK
    <2>4. QED
      BY <1>1, <1>4, <2>1, <2>2, <2>3, SendNumbered DEF HandlePageStarted, OrderInv
  <1>5. CASE HandleReady
    BY <1>1, <1>5, ReadyNumbered DEF HandleReady, OrderInv
  <1>6. CASE DisposeBridge
    <2>1. Dispose(bridge).queue = <<>> /\ Dispose(bridge).call = bridge.call
      BY <1>1, DisposeFacts
    <2>2. QED
      BY <1>1, <1>6, <2>1 DEF DisposeBridge, OrderInv, Numbered
  <1>7. CASE PageStarts \/ ScriptRuns
    BY <1>1, <1>7 DEF PageStarts, ScriptRuns, flutter, OrderInv
  <1>8. CASE Receive
    BY <1>1, <1>8, ReachedNumbered DEF Receive, OrderInv
  <1>9. CASE CallReturns
    BY <1>1, <1>9, CallEndedNumbered DEF CallReturns, OrderInv
  <1>10. CASE UNCHANGED vars
    BY <1>10 DEF vars, flutter, OrderInv
  <1>11. QED
    BY <1>2, <1>3, <1>4, <1>5, <1>6, <1>7, <1>8, <1>9, <1>10 DEF Next, Handle

-----------------------------------------------------------------------------
(* Page starts and readiness *)

\* The callback that is handled leaves the inbox, and the others move up.
LEMMA DeliveredFacts ==
  ASSUME TypeOK, NEW event, Delivered(event)
  PROVE  /\ DOMAIN inbox = 1..Len(inbox) /\ Len(inbox) \in Nat /\ 1 \in DOMAIN inbox
         /\ inbox[1] = event
         /\ DOMAIN inbox' = 1..(Len(inbox) - 1)
         /\ \A i \in DOMAIN inbox' : i + 1 \in DOMAIN inbox /\ inbox'[i] = inbox[i + 1]
         /\ \A i \in DOMAIN inbox : i > 1 => i - 1 \in DOMAIN inbox' /\ inbox'[i - 1] = inbox[i]
  <1>1. inbox \in Seq(Events) /\ inbox # <<>> /\ Head(inbox) = event /\ inbox' = Tail(inbox)
    BY DEF TypeOK, Delivered, Events
  <1>2. QED
    BY <1>1, TailElements

\* A callback that is sent goes to the end.
LEMMA PostedFacts ==
  ASSUME TypeOK, NEW event \in Events, inbox' = Append(inbox, event)
  PROVE  /\ DOMAIN inbox = 1..Len(inbox) /\ Len(inbox) \in Nat
         /\ DOMAIN inbox' = 1..(Len(inbox) + 1)
         /\ \A i \in DOMAIN inbox : i \in DOMAIN inbox' /\ inbox'[i] = inbox[i]
         /\ inbox'[Len(inbox) + 1] = event
         /\ inbox' # <<>> /\ (inbox # <<>> => inbox'[1] = inbox[1])
  <1>1. inbox \in Seq(Events)
    BY DEF TypeOK, Events
  <1>2. /\ inbox' \in Seq(Events)
        /\ DOMAIN inbox = 1..Len(inbox) /\ Len(inbox) \in Nat
        /\ DOMAIN inbox' = 1..(Len(inbox) + 1)
        /\ \A i \in DOMAIN inbox : inbox'[i] = inbox[i]
        /\ inbox'[Len(inbox) + 1] = event
    BY <1>1, AppendElements
  <1>3. inbox # <<>> => 1 \in DOMAIN inbox
    BY <1>1, <1>2, EmptySeq
  <1>4. inbox' # <<>>
    BY <1>1, AppendProperties
  <1>5. QED
    BY <1>2, <1>3, <1>4

\* A page that starts is coming, and it stays so until its start is handled.
LEMMA StartComes ==
  ASSUME TypeOK, PageStarts
  PROVE  Coming' /\ inbox' = Append(inbox, "started") /\ (inbox = <<>> => inbox'[1] = "started")
  <1>1. inbox' = Append(inbox, "started")
    BY DEF PageStarts
  <1>2. /\ DOMAIN inbox = 1..Len(inbox) /\ Len(inbox) \in Nat
        /\ DOMAIN inbox' = 1..(Len(inbox) + 1) /\ inbox'[Len(inbox) + 1] = "started"
    BY <1>1, PostedFacts DEF Events
  <1>3. inbox = <<>> => Len(inbox) = 0
    BY EmptySeq
  <1>4. QED
    BY <1>1, <1>2, <1>3 DEF Coming

\* Handling readiness leaves the starts where they are.
LEMMA ReadyLeavesStarts ==
  ASSUME TypeOK, Delivered("ready")
  PROVE  Coming <=> Coming'
  <1>1. /\ 1 \in DOMAIN inbox /\ inbox[1] = "ready" /\ DOMAIN inbox = 1..Len(inbox) /\ Len(inbox) \in Nat
        /\ \A i \in DOMAIN inbox' : i + 1 \in DOMAIN inbox /\ inbox'[i] = inbox[i + 1]
        /\ \A i \in DOMAIN inbox : i > 1 => i - 1 \in DOMAIN inbox' /\ inbox'[i - 1] = inbox[i]
    BY DeliveredFacts
  <1>2. ASSUME Coming PROVE Coming'
    <2>1. PICK i \in DOMAIN inbox : inbox[i] = "started"
      BY <1>2 DEF Coming
    <2>2. i > 1
      BY <1>1, <2>1
    <2>3. QED
      BY <1>1, <2>1, <2>2 DEF Coming
  <1>3. ASSUME Coming' PROVE Coming
    BY <1>1, <1>3 DEF Coming
  <1>4. QED
    BY <1>2, <1>3

\* When Flutter handles readiness, the page has been there before, and the live
\* page is the ready one unless another is coming.
LEMMA ReadyIsLive ==
  ASSUME TypeOK, PageInv, Delivered("ready")
  PROVE  hasStarted /\ (page.live \/ Coming')
  <1>1. /\ 1 \in DOMAIN inbox /\ inbox[1] = "ready" /\ inbox # <<>>
        /\ \A i \in DOMAIN inbox : i > 1 => i - 1 \in DOMAIN inbox' /\ inbox'[i - 1] = inbox[i]
    BY DeliveredFacts DEF Delivered
  <1>2. hasStarted
    BY <1>1 DEF PageInv
  <1>3. page.live \/ \E j \in DOMAIN inbox : j > 1 /\ inbox[j] = "started"
    BY <1>1 DEF PageInv
  <1>4. QED
    BY <1>1, <1>2, <1>3 DEF Coming

\* What is left of PageInv after a callback is handled.
LEMMA LaterReadiness ==
  ASSUME TypeOK, PageInv, NEW event, Delivered(event), UNCHANGED page
  PROVE  \A i \in DOMAIN inbox' :
           inbox'[i] = "ready" => page'.live \/ \E j \in DOMAIN inbox' : j > i /\ inbox'[j] = "started"
  <1>1. /\ DOMAIN inbox = 1..Len(inbox) /\ Len(inbox) \in Nat
        /\ DOMAIN inbox' = 1..(Len(inbox) - 1)
        /\ \A i \in DOMAIN inbox' : i + 1 \in DOMAIN inbox /\ inbox'[i] = inbox[i + 1]
        /\ \A i \in DOMAIN inbox : i > 1 => i - 1 \in DOMAIN inbox' /\ inbox'[i - 1] = inbox[i]
    BY DeliveredFacts
  <1>2. ASSUME NEW i \in DOMAIN inbox', inbox'[i] = "ready", ~page'.live
        PROVE  \E j \in DOMAIN inbox' : j > i /\ inbox'[j] = "started"
    <2>1. inbox[i + 1] = "ready" /\ ~page.live /\ i + 1 \in DOMAIN inbox
      BY <1>1, <1>2
    <2>2. PICK j \in DOMAIN inbox : j > i + 1 /\ inbox[j] = "started"
      BY <2>1 DEF PageInv
    <2>3. j - 1 \in DOMAIN inbox' /\ j - 1 > i /\ inbox'[j - 1] = "started"
      BY <1>1, <1>2, <2>2
    <2>4. QED
      BY <2>3
  <1>3. QED
    BY <1>2

\* Every step keeps readiness and page starts in order.
LEMMA PageKept ==
  ASSUME TypeOK, BridgeInv, PageInv, [Next]_vars
  PROVE  PageInv'
  <1>1. bridge \in Bridges(Message) /\ Sound(bridge)
    BY DEF BridgeInv
  <1>2. ASSUME bridge'.ready = bridge.ready, ~bridge.ready /\ bridge.call = None => bridge'.call = None,
               UNCHANGED <<hasStarted, inbox, page>>
        PROVE  PageInv'
    BY <1>2 DEF PageInv, Coming
  <1>3. ASSUME NEW doc \in Documents, SetDocument(doc)
        PROVE  PageInv'
    <2> DEFINE m == [n |-> sends + 1, doc |-> doc]
    <2>1. m \in Message
      BY MessageTyped
    <2> HIDE DEF m
    <2>2. /\ Send(bridge, m).ready = bridge.ready
          /\ ~bridge.ready /\ bridge.call = None => Send(bridge, m).call = None
      BY <1>1, <2>1, NoCall, SendFacts
    <2>3. bridge' = Send(bridge, m) /\ UNCHANGED <<hasStarted, inbox, page>>
      BY <1>3 DEF SetDocument, m
    <2>4. QED
      BY <1>2, <2>2, <2>3
  <1>4. CASE Command
    <2> DEFINE m == [n |-> sends + 1, doc |-> None]
    <2>1. m \in Message
      BY MessageTyped
    <2> HIDE DEF m
    <2>2. /\ Send(bridge, m).ready = bridge.ready
          /\ ~bridge.ready /\ bridge.call = None => Send(bridge, m).call = None
      BY <1>1, <2>1, NoCall, SendFacts
    <2>3. bridge' = Send(bridge, m) /\ UNCHANGED <<hasStarted, inbox, page>>
      BY <1>4 DEF Command, m
    <2>4. QED
      BY <1>2, <2>2, <2>3
  <1>5. CASE HandlePageStarted
    <2>1. hasStarted' /\ Delivered("started") /\ UNCHANGED page
      BY <1>5 DEF HandlePageStarted
    <2>2. ~bridge'.ready
      <3>1. MarkNotReady(bridge) \in Bridges(Message) /\ Sound(MarkNotReady(bridge)) /\ ~MarkNotReady(bridge).ready
        BY <1>1, MarkNotReadyFacts
      <3>2. [n |-> sends + 1, doc |-> lastSet] \in Message
        BY MessageTyped DEF TypeOK
      <3>3. QED
        BY <1>5, <3>1, <3>2, NoCall, SendFacts DEF HandlePageStarted
    <2>3. QED
      BY <2>1, <2>2, LaterReadiness DEF PageInv
  <1>6. CASE HandleReady
    <2>1. Delivered("ready") /\ UNCHANGED <<page, hasStarted>>
      BY <1>6 DEF HandleReady
    <2>2. hasStarted' /\ (page'.live \/ Coming')
      BY <2>1, ReadyIsLive
    <2>3. QED
      BY <2>1, <2>2, LaterReadiness DEF PageInv
  <1>7. CASE DisposeBridge
    <2>1. ~Dispose(bridge).ready /\ Dispose(bridge).call = bridge.call
      BY <1>1, DisposeFacts
    <2>2. QED
      BY <1>7, <2>1 DEF DisposeBridge, PageInv, Coming
  <1>8. CASE PageStarts
    <2>1. Coming' /\ inbox' = Append(inbox, "started") /\ (inbox = <<>> => inbox'[1] = "started")
      BY <1>8, StartComes
    <2>2. /\ DOMAIN inbox = 1..Len(inbox) /\ Len(inbox) \in Nat
          /\ DOMAIN inbox' = 1..(Len(inbox) + 1)
          /\ \A i \in DOMAIN inbox : i \in DOMAIN inbox' /\ inbox'[i] = inbox[i]
          /\ inbox'[Len(inbox) + 1] = "started"
          /\ inbox' # <<>> /\ (inbox # <<>> => inbox'[1] = inbox[1])
      BY <2>1, PostedFacts DEF Events
    <2>3. UNCHANGED <<bridge, hasStarted>>
      BY <1>8 DEF PageStarts, flutter
    <2>4. ASSUME NEW i \in DOMAIN inbox', inbox'[i] = "ready"
          PROVE  \E j \in DOMAIN inbox' : j > i /\ inbox'[j] = "started"
      <3>1. i # Len(inbox) + 1 /\ i < Len(inbox) + 1 /\ Len(inbox) + 1 \in DOMAIN inbox'
        BY <2>2, <2>4
      <3>2. QED
        BY <2>2, <3>1
    <2>5. QED
      BY <2>1, <2>2, <2>3, <2>4 DEF PageInv
  <1>9. CASE ScriptRuns
    <2>1. page'.live /\ page'.n = page.n /\ inbox' = Append(inbox, "ready") /\ page.n > 0
      BY <1>9 DEF ScriptRuns, TypeOK
    <2>2. inbox' # <<>> /\ (inbox # <<>> => inbox'[1] = inbox[1])
      BY <2>1, PostedFacts DEF Events
    <2>3. UNCHANGED <<bridge, hasStarted>>
      BY <1>9 DEF ScriptRuns, flutter
    <2>4. QED
      BY <2>1, <2>2, <2>3 DEF PageInv
  <1>10. CASE Receive
    <2>1. bridge'.ready = bridge.ready /\ bridge.call # None /\ UNCHANGED <<hasStarted, inbox>>
      BY <1>1, <1>10, NoCall, ReachedFacts DEF Receive
    <2>2. page'.live = page.live
      BY <1>10 DEF Receive, TypeOK
    <2>3. QED
      BY <2>1, <2>2 DEF PageInv, Coming
  <1>11. CASE CallReturns
    <2>1. bridge'.ready = bridge.ready /\ bridge.call # None /\ UNCHANGED <<hasStarted, inbox, page>>
      BY <1>1, <1>11, NoCall, CallEndedFacts DEF CallReturns
    <2>2. QED
      BY <1>2, <2>1
  <1>12. CASE UNCHANGED vars
    BY <1>2, <1>12 DEF vars, flutter
  <1>13. QED
    BY <1>3, <1>4, <1>5, <1>6, <1>7, <1>8, <1>9, <1>10, <1>11, <1>12 DEF Next, Handle

-----------------------------------------------------------------------------
(* The document that was set last *)

\* Behind a document that is sent there is nothing; a command behind a document
\* leaves it the last.
LEMMA LastOfAppend ==
  ASSUME NEW q \in Seq(Message), NEW m \in Message
  PROVE  /\ LastIs(Append(q, m), Len(q) + 1, m.doc)
         /\ m.doc = None => \A k, doc : LastIs(q, k, doc) => LastIs(Append(q, m), k, doc)
  <1>1. /\ DOMAIN q = 1..Len(q) /\ Len(q) \in Nat
        /\ DOMAIN Append(q, m) = 1..(Len(q) + 1)
        /\ \A i \in DOMAIN q : Append(q, m)[i] = q[i]
        /\ Append(q, m)[Len(q) + 1] = m
    BY AppendElements
  <1>2. QED
    BY <1>1 DEF LastIs

\* The same when the head leaves the queue.
LEMMA LastOfTail ==
  ASSUME NEW q \in Seq(Message), q # <<>>, NEW k, NEW doc, LastIs(q, k, doc)
  PROVE  /\ k # 1 => LastIs(Tail(q), k - 1, doc)
         /\ k = 1 => \A j \in DOMAIN Tail(q) : Tail(q)[j].doc = None
  <1>1. /\ DOMAIN q = 1..Len(q) /\ Len(q) \in Nat
        /\ DOMAIN Tail(q) = 1..(Len(q) - 1)
        /\ \A i \in DOMAIN Tail(q) : i + 1 \in DOMAIN q /\ Tail(q)[i] = q[i + 1]
    BY TailElements
  <1>2. k \in DOMAIN q /\ q[k].doc = doc /\ \A j \in DOMAIN q : j > k => q[j].doc = None
    BY DEF LastIs
  <1>3. ASSUME k # 1 PROVE LastIs(Tail(q), k - 1, doc)
    <2>1. k - 1 \in DOMAIN Tail(q) /\ Tail(q)[k - 1] = q[k]
      BY <1>1, <1>2, <1>3
    <2>2. \A j \in DOMAIN Tail(q) : j > k - 1 => Tail(q)[j].doc = None
      BY <1>1, <1>2
    <2>3. QED
      BY <1>2, <2>1, <2>2 DEF LastIs
  <1>4. ASSUME k = 1 PROVE \A j \in DOMAIN Tail(q) : Tail(q)[j].doc = None
    BY <1>1, <1>2, <1>4
  <1>5. QED
    BY <1>3, <1>4

\* A document that the bridge accepts is on its way.
LEMMA DocumentSent ==
  ASSUME NEW b \in Bridges(Message), Sound(b), NEW m \in Message, Accepts(b),
         bridge' = Send(b, m), m.doc = lastSet',
         b.ready => hasStarted' /\ (page'.live \/ Coming')
  PROVE  DocInv'
  <1> DEFINE k == Len(b.queue) + 1
  <1>1. /\ bridge'.queue = Append(b.queue, m)
        /\ bridge'.call = IF b.call = None /\ b.ready THEN Call(m) ELSE b.call
    BY NoCall, SendFacts
  <1>2. b.queue \in Seq(Message) /\ Len(b.queue) \in Nat
    BY QueueElements
  <1>3. LastIs(bridge'.queue, k, lastSet')
    BY <1>1, <1>2, LastOfAppend
  <1>4. CASE b.call = None /\ b.ready
    <2>1. k = 1
      BY <1>4, EmptySeq DEF Sound
    <2>2. bridge'.call # None /\ ~bridge'.call.reached
      BY <1>1, <1>4, NoCall, CallFacts
    <2>3. Coming' \/ Runs'
      BY <1>3, <1>4, <2>1, <2>2 DEF Runs
    <2>4. QED
      BY <1>4, <2>3 DEF DocInv
  <1>5. CASE b.call # None
    <2>1. b.queue # <<>>
      BY <1>5 DEF Sound, Accepts
    <2>2. k # 1
      BY <1>2, <2>1, EmptySeq
    <2> HIDE DEF k
    <2>3. Waits'
      BY <1>3, <2>2 DEF Waits, LastIs
    <2>4. QED
      BY <2>3 DEF DocInv
  <1>6. CASE b.call = None /\ ~b.ready
    <2>1. bridge'.call = None
      BY <1>1, <1>6
    <2> HIDE DEF k
    <2>2. Waits'
      BY <1>3, <2>1 DEF Waits, LastIs
    <2>3. QED
      BY <2>2 DEF DocInv
  <1>7. QED
    BY <1>4, <1>5, <1>6

\* Every step keeps the last document on its way.
LEMMA DocumentKept ==
  ASSUME TypeOK, BridgeInv, PageInv, DocInv, [Next]_vars
  PROVE  DocInv'
  <1>1. /\ bridge \in Bridges(Message) /\ Sound(bridge)
        /\ bridge.queue \in Seq(Message) /\ Len(bridge.queue) \in Nat
        /\ DOMAIN bridge.queue = 1..Len(bridge.queue)
    BY QueueElements DEF BridgeInv
  <1>2. bridge.ready \/ bridge.call # None => hasStarted
    BY DEF PageInv
  <1>3. bridge.ready => page.live \/ Coming
    BY DEF PageInv
  <1>4. ASSUME NEW doc \in Documents, SetDocument(doc)
        PROVE  DocInv'
    <2> DEFINE m == [n |-> sends + 1, doc |-> doc]
    <2>1. m \in Message /\ m.doc = lastSet'
      BY <1>4, MessageTyped DEF SetDocument
    <2>2. bridge' = Send(bridge, m) /\ accepted' = Accepts(bridge)
      BY <1>4 DEF SetDocument
    <2>3. bridge.ready => hasStarted' /\ (page'.live \/ Coming')
      BY <1>2, <1>3, <1>4 DEF SetDocument, Coming
    <2> HIDE DEF m
    <2>4. CASE Accepts(bridge)
      BY <1>1, <2>1, <2>2, <2>3, <2>4, DocumentSent
    <2>5. CASE ~Accepts(bridge)
      BY <2>2, <2>5 DEF DocInv
    <2>6. QED
      BY <2>4, <2>5
  <1>5. CASE Command
    <2> DEFINE m == [n |-> sends + 1, doc |-> None]
    <2>1. m \in Message /\ m.doc = None
      BY MessageTyped
    <2>2. /\ bridge' = Send(bridge, m) /\ ~bridge.disposed
          /\ UNCHANGED <<lastSet, hasStarted, inbox, page, accepted>>
      BY <1>5 DEF Command
    <2> HIDE DEF m
    <2>3. CASE ~Accepts(bridge)
      <3>1. bridge' = bridge
        BY <1>1, <2>1, <2>2, <2>3, NoCall, SendFacts
      <3>2. QED
        BY <2>2, <3>1 DEF DocInv, Waits, Runs, Arrived, Coming
    <2>4. CASE Accepts(bridge)
      <3>1. /\ bridge'.queue = Append(bridge.queue, m)
            /\ bridge'.call = IF bridge.call = None /\ bridge.ready THEN Call(m) ELSE bridge.call
            /\ bridge'.disposed = bridge.disposed
        BY <1>1, <2>1, <2>2, <2>4, NoCall, SendFacts
      <3>2. \A k : LastIs(bridge.queue, k, lastSet) => LastIs(bridge'.queue, k, lastSet')
        BY <1>1, <2>1, <2>2, <3>1, LastOfAppend
      <3>3. Arrived => Arrived'
        <4>1. \A j \in DOMAIN bridge'.queue : j \in DOMAIN bridge.queue \/ j = Len(bridge.queue) + 1
          BY <1>1, <2>1, <3>1, AppendElements
        <4>2. /\ bridge'.queue[Len(bridge.queue) + 1] = m
              /\ \A j \in DOMAIN bridge.queue : bridge'.queue[j] = bridge.queue[j]
          BY <1>1, <2>1, <3>1, AppendElements
        <4>3. QED
          BY <2>1, <2>2, <4>1, <4>2 DEF Arrived
      <3>4. CASE bridge.call = None /\ bridge.ready
        <4>1. bridge.queue = <<>> /\ DOMAIN bridge.queue = {}
          BY <1>1, <3>4, EmptySeq DEF Sound
        <4>2. ~Waits /\ ~Runs
          BY <4>1 DEF Waits, Runs, LastIs
        <4>3. QED
          BY <2>2, <3>1, <3>3, <4>2 DEF DocInv, Coming
      <3>5. CASE ~(bridge.call = None /\ bridge.ready)
        <4>1. bridge'.call = bridge.call
          BY <3>1, <3>5
        <4>2. Waits => Waits'
          BY <3>2, <4>1 DEF Waits, LastIs
        <4>3. Runs => Runs'
          BY <2>2, <3>2, <4>1 DEF Runs
        <4>4. QED
          BY <2>2, <3>1, <3>3, <4>2, <4>3 DEF DocInv, Coming
      <3>6. QED
        BY <3>4, <3>5
    <2>5. QED
      BY <2>3, <2>4
  <1>6. CASE HandlePageStarted
    <2>1. /\ MarkNotReady(bridge) \in Bridges(Message) /\ Sound(MarkNotReady(bridge))
          /\ ~MarkNotReady(bridge).ready
          /\ MarkNotReady(bridge).disposed = bridge.disposed
          /\ MarkNotReady(bridge).queue = bridge.queue
          /\ MarkNotReady(bridge).call = bridge.call
      BY <1>1, MarkNotReadyFacts
    <2>2. hasStarted' /\ lastSet' = lastSet
      BY <1>6 DEF HandlePageStarted
    <2>3. CASE hasStarted
      <3> DEFINE m == [n |-> sends + 1, doc |-> lastSet]
      <3>1. m \in Message /\ m.doc = lastSet'
        BY <2>2, MessageTyped DEF TypeOK
      <3>2. bridge' = Send(MarkNotReady(bridge), m) /\ accepted' = Accepts(bridge)
        BY <1>6, <2>3 DEF HandlePageStarted
      <3>3. Accepts(bridge) <=> Accepts(MarkNotReady(bridge))
        BY <2>1 DEF Accepts
      <3> HIDE DEF m
      <3>4. CASE Accepts(bridge)
        BY <2>1, <3>1, <3>2, <3>3, <3>4, DocumentSent
      <3>5. CASE ~Accepts(bridge)
        BY <3>2, <3>5 DEF DocInv
      <3>6. QED
        BY <3>4, <3>5
    <2>4. CASE ~hasStarted
      <3>1. bridge' = MarkNotReady(bridge) /\ accepted' = accepted
        BY <1>6, <2>4 DEF HandlePageStarted
      <3>2. Waits => Waits'
        BY <2>1, <2>2, <3>1 DEF Waits
      <3>3. QED
        BY <2>1, <2>4, <3>1, <3>2 DEF DocInv
    <2>5. QED
      BY <2>3, <2>4
  <1>7. CASE HandleReady
    <2>1. /\ Delivered("ready")
          /\ UNCHANGED <<page, hasStarted, lastSet, accepted>>
      BY <1>7 DEF HandleReady
    <2>2. hasStarted /\ (page.live \/ Coming') /\ (Coming => Coming')
      BY <2>1, ReadyIsLive, ReadyLeavesStarts
    <2>3. CASE bridge.disposed
      BY <1>7, <2>3 DEF HandleReady, DocInv
    <2>4. CASE ~bridge.disposed
      <3>1. /\ bridge'.queue = bridge.queue
            /\ bridge'.call = IF bridge.call = None /\ bridge.queue # <<>>
                              THEN Call(Head(bridge.queue)) ELSE bridge.call
        BY <1>1, <1>7, <2>4, NoCall, MarkReadyFacts DEF HandleReady
      <3>2. Arrived => Arrived'
        BY <2>1, <3>1 DEF Arrived
      <3>3. CASE bridge.call = None /\ bridge.queue # <<>>
        <4>1. bridge'.call # None /\ ~bridge'.call.reached
          BY <1>1, <3>1, <3>3, NoCall, CallFacts, HeadTailProperties
        <4>2. ASSUME Waits PROVE Waits' \/ Runs' \/ Coming'
          <5>1. PICK k \in DOMAIN bridge.queue : LastIs(bridge.queue, k, lastSet)
            BY <4>2 DEF Waits
          <5>2. CASE k = 1
            BY <2>1, <2>2, <3>1, <4>1, <5>1, <5>2 DEF Runs
          <5>3. CASE k # 1
            BY <2>1, <3>1, <5>1, <5>3 DEF Waits
          <5>4. QED
            BY <5>2, <5>3
        <4>3. ~Runs
          BY <3>3 DEF Runs
        <4>4. QED
          BY <2>1, <2>2, <2>4, <3>2, <4>2, <4>3 DEF DocInv
      <3>4. CASE ~(bridge.call = None /\ bridge.queue # <<>>)
        <4>1. bridge'.call = bridge.call
          BY <3>1, <3>4
        <4>2. (Waits => Waits') /\ (Runs => Runs')
          BY <2>1, <3>1, <4>1 DEF Waits, Runs
        <4>3. QED
          BY <2>1, <2>2, <2>4, <3>2, <4>2 DEF DocInv
      <3>5. QED
        BY <3>3, <3>4
    <2>5. QED
      BY <2>3, <2>4
  <1>8. CASE DisposeBridge
    <2>1. bridge'.disposed
      BY <1>1, <1>8, DisposeFacts DEF DisposeBridge
    <2>2. QED
      BY <2>1 DEF DocInv
  <1>9. CASE PageStarts
    <2>1. Coming' /\ UNCHANGED flutter
      BY <1>9, StartComes DEF PageStarts
    <2>2. Waits => Waits'
      BY <2>1 DEF Waits, flutter
    <2>3. QED
      BY <2>1, <2>2 DEF DocInv, flutter
  <1>10. CASE ScriptRuns
    <2>1. page'.live /\ page'.doc = page.doc /\ UNCHANGED flutter /\ inbox' = Append(inbox, "ready")
      BY <1>10 DEF ScriptRuns, TypeOK
    <2>2. Coming => Coming'
      BY <2>1, PostedFacts DEF Coming, Events
    <2>3. /\ Waits => Waits'
          /\ Runs => Runs'
          /\ Arrived => Arrived'
      BY <2>1 DEF Waits, Runs, Arrived, flutter
    <2>4. QED
      BY <2>1, <2>2, <2>3 DEF DocInv, flutter
  <1>11. CASE Receive
    <2>1. /\ bridge.call # None /\ ~bridge.call.reached
          /\ UNCHANGED <<lastSet, hasStarted, accepted, inbox>>
      BY <1>11 DEF Receive
    <2>2. /\ bridge'.queue = bridge.queue /\ bridge'.disposed = bridge.disposed
          /\ bridge'.call # None /\ bridge'.call.reached
      BY <1>1, <1>11, NoCall, ReachedFacts DEF Receive
    <2>3. CASE bridge.disposed
      BY <2>2, <2>3 DEF DocInv
    <2>4. CASE ~bridge.disposed
      <3>1. 1 \in DOMAIN bridge.queue /\ bridge.call.message = bridge.queue[1]
        <4>1. bridge.queue # <<>> /\ bridge.call.message = Head(bridge.queue)
          BY <1>1, <2>1, <2>4 DEF Sound
        <4>2. QED
          BY <1>1, <4>1, TailElements
      <3>2. page'.doc = IF page.live /\ bridge.queue[1].doc # None THEN bridge.queue[1].doc ELSE page.doc
        BY <1>11, <3>1 DEF Receive, TypeOK
      <3>3. Waits => Waits'
        BY <2>1, <2>2 DEF Waits
      <3>4. Runs => Runs'
        <4>1. ASSUME Runs PROVE page'.doc = lastSet
          <5>1. page.live /\ bridge.queue[1].doc = lastSet
            BY <2>1, <4>1 DEF Runs, LastIs
          <5>2. lastSet # None
            BY EditorAssumption DEF TypeOK
          <5>3. QED
            BY <3>2, <5>1, <5>2
        <4>2. QED
          BY <2>1, <2>2, <4>1 DEF Runs
      <3>5. Arrived => Arrived'
        BY <2>1, <2>2, <3>1, <3>2 DEF Arrived
      <3>6. QED
        BY <2>1, <2>2, <3>3, <3>4, <3>5 DEF DocInv, Coming
    <2>5. QED
      BY <2>3, <2>4
  <1>12. CASE CallReturns
    <2>1. /\ bridge.call # None /\ bridge.call.reached /\ bridge' = CallEnded(bridge)
          /\ UNCHANGED <<lastSet, hasStarted, accepted, inbox, page>>
      BY <1>12 DEF CallReturns
    <2>2. CASE bridge.disposed
      <3>1. bridge'.disposed
        BY <1>1, <2>1, <2>2, NoCall, CallEndedFacts
      <3>2. QED
        BY <3>1 DEF DocInv
    <2>3. CASE ~bridge.disposed
      <3>1. /\ bridge.queue # <<>> /\ bridge'.queue = Tail(bridge.queue)
            /\ bridge'.disposed = bridge.disposed
            /\ bridge'.call = IF bridge.ready /\ Tail(bridge.queue) # <<>>
                              THEN Call(Head(Tail(bridge.queue))) ELSE None
        BY <1>1, <2>1, <2>3, NoCall, CallEndedFacts
      <3>2. bridge'.call # None => bridge.ready /\ ~bridge'.call.reached
        <4>1. Tail(bridge.queue) # <<>> => Head(Tail(bridge.queue)) \in Message
          BY <1>1, <3>1, HeadTailProperties
        <4>2. QED
          BY <3>1, <4>1, NoCall, CallFacts
      <3>3. ASSUME Waits PROVE Waits' \/ (hasStarted' /\ (Runs' \/ Coming'))
        <4>1. PICK k \in DOMAIN bridge.queue : LastIs(bridge.queue, k, lastSet) /\ k # 1
          BY <2>1, <3>3 DEF Waits
        <4>2. LastIs(bridge'.queue, k - 1, lastSet')
          BY <1>1, <2>1, <3>1, <4>1, LastOfTail
        <4>3. CASE k - 1 = 1 /\ bridge'.call # None
          <5>1. hasStarted' /\ (page'.live \/ Coming')
            BY <1>2, <1>3, <2>1, <3>2, <4>3 DEF Coming
          <5>2. QED
            BY <3>2, <4>2, <4>3, <5>1 DEF Runs
        <4>4. CASE ~(k - 1 = 1 /\ bridge'.call # None)
          BY <4>2, <4>4 DEF Waits, LastIs
        <4>5. QED
          BY <4>3, <4>4
      <3>4. Runs => Arrived'
        BY <1>1, <2>1, <3>1, LastOfTail DEF Runs, Arrived
      <3>5. Arrived => Arrived'
        <4>1. \A j \in DOMAIN bridge'.queue : j + 1 \in DOMAIN bridge.queue
                                               /\ bridge'.queue[j] = bridge.queue[j + 1]
          BY <1>1, <3>1, TailElements
        <4>2. QED
          BY <2>1, <4>1 DEF Arrived
      <3>6. QED
        BY <2>1, <3>1, <3>3, <3>4, <3>5 DEF DocInv, Coming
    <2>4. QED
      BY <2>2, <2>3
  <1>13. CASE UNCHANGED vars
    BY <1>13 DEF vars, flutter, DocInv, Waits, Runs, Arrived, Coming
  <1>14. QED
    BY <1>4, <1>5, <1>6, <1>7, <1>8, <1>9, <1>10, <1>11, <1>12, <1>13 DEF Next, Handle

-----------------------------------------------------------------------------
(* The invariant and what follows from it *)

\* It holds when the widget is built.
THEOREM Initially == Init => IInv
  <1> SUFFICES ASSUME Init PROVE IInv
    OBVIOUS
  <1> DEFINE m == [n |-> 1, doc |-> Sample]
  <1>1. TypeOK /\ BridgeInv /\ bridge.queue = <<m>> /\ bridge.call = None /\ ~bridge.ready
    BY InitTyped
  <1>2. DOMAIN bridge.queue = {1} /\ bridge.queue[1] = m
    BY <1>1
  <1>3. OrderInv
    BY <1>1, <1>2 DEF Init, OrderInv, Numbered
  <1>4. PageInv
    BY <1>1 DEF Init, PageInv
  <1>5. DocInv
    BY <1>1, <1>2 DEF Init, DocInv, Waits, LastIs
  <1>6. QED
    BY <1>1, <1>3, <1>4, <1>5 DEF IInv

\* Every step keeps it.
THEOREM Inductive == IInv /\ [Next]_vars => IInv'
  BY TypesKept, OrderKept, PageKept, DocumentKept DEF IInv

\* It is an invariant.
THEOREM Invariance == Spec => []IInv
  BY Initially, Inductive, PTL DEF Spec

\* Types: the queue keeps its limit, and the message that runs is its head.
THEOREM TypeCorrect == Spec => []TypeOK
  BY Invariance, PTL DEF IInv

\* Order: pages execute messages in the order in which they were sent, none of
\* them twice.
THEOREM Order == Spec => MessagesInOrder
  <1>1. IInv => (Receive /\ page.live => bridge.call.message.n > ran)
    BY DEF IInv, OrderInv, Numbered, Receive
  <1>2. QED
    BY <1>1, Invariance, PTL DEF Spec, MessagesInOrder

\* The document: when nothing is under way, the page has the one that was set
\* last.
THEOREM QuietDocument == Spec => []QuietPageHasDocument
  <1>1. IInv => QuietPageHasDocument
    <2> SUFFICES ASSUME IInv, bridge.ready, bridge.queue = <<>>, inbox = <<>>, accepted
                 PROVE  page.doc = lastSet
      BY DEF QuietPageHasDocument
    <2>1. ~bridge.disposed
      BY DEF IInv, BridgeInv, Sound
    <2>2. ~Coming
      BY DEF Coming
    <2>3. ~Waits /\ ~Runs
      BY DEF Waits, Runs, LastIs
    <2>4. Arrived
      BY <2>1, <2>2, <2>3 DEF IInv, DocInv
    <2>5. QED
      BY <2>4 DEF Arrived
  <1>2. QED
    BY <1>1, Invariance, PTL
===============================================================================
