-------------------------- MODULE TerminalStreamProofs --------------------------
(***************************************************************************)
(* Theorems about TerminalStream, for memories of any size and any number of *)
(* pages, events and pastes: what the deduplicator's two bounded memories      *)
(* guarantee, and into which pages clipboard texts can come.                    *)
(***************************************************************************)
EXTENDS TerminalStream, TLAPS, SequenceTheorems

-----------------------------------------------------------------------------
(* The inductive invariant *)

\* What the bridge may carry up to page p: a paste was asked for by the stream
\* that was active when the clipboard answered, of pages that had started by then.
Sendable(p) == {m \in Message : m.asker # None => m.asker = m.active /\ m.told <= p}

\* A bridge within its limit: what runs is in the queue, until dispose empties it.
Bridges(Messages) ==
  {b \in [ready : BOOLEAN, disposed : BOOLEAN, queue : Seq(Messages),
          call : [message : Messages, reached : BOOLEAN] \cup {None}] :
     /\ Len(b.queue) <= MaxPending
     /\ b.disposed => b.queue = <<>>
     /\ b.call # None => b.disposed \/ b.queue # <<>>}

BridgeInv == bridge \in Bridges(Sendable(page.n))

\* Pages, the bridge to them, and what they pasted.
PageInv ==
  /\ page \in [n : 0..MaxPages, live : BOOLEAN, seq : Nat]
  /\ page.live => page.n > 0
  /\ posted \subseteq Posted
  /\ told \in 0..page.n
  /\ BridgeInv
  /\ pasted \subseteq [asker : Pages, active : Pages, told : 0..MaxPages, into : Pages]
  /\ PasteReachesItsPage

Taken == [stream : Pages, seq : Nat, resets : Nat]

\* The types of the two memories and their history.
MemoryTypes ==
  /\ active \in Pages \cup {None}
  /\ remembered \in Seq(Nat) /\ Len(remembered) <= MaxRemembered
  /\ retired \in Seq(Pages) /\ Len(retired) <= MaxRetired
  /\ active \notin Elements(retired)
  /\ taken \in Seq(Taken)
  /\ resets \in Nat
  /\ retiredAt \in [Pages -> Nat]

\* The retired streams are those of the last resets, in order; one that is not
\* among them any more was retired MaxRetired resets ago or earlier.
RetiredInv ==
  /\ \A s \in Pages :
       /\ retiredAt[s] <= resets
       /\ retiredAt[s] # 0 => s \in Elements(retired) \/ resets - retiredAt[s] >= MaxRetired
  /\ \A i \in 1..Len(retired) : retiredAt[retired[i]] = resets - Len(retired) + i

\* Between two resets one stream is active, and all events are its; the stream of
\* an earlier event has been retired since.
TakenInv ==
  \A k \in 1..Len(taken) :
    /\ taken[k].resets <= resets
    /\ taken[k].resets = resets => taken[k].stream = active
    /\ taken[k].resets < resets => retiredAt[taken[k].stream] > taken[k].resets

\* The memory of events holds the last ones accepted; if it does not hold all
\* since the reset, it is full.
RememberedInv ==
  /\ Len(remembered) <= Len(taken)
  /\ \A i \in 1..Len(remembered) : remembered[i] = taken[Len(taken) - Len(remembered) + i].seq
  /\ \A k \in 1..Len(taken) :
       taken[k].resets = resets =>
         k > Len(taken) - Len(remembered) \/ Len(remembered) = MaxRemembered

MemoryInv == MemoryTypes /\ RetiredInv /\ TakenInv /\ RememberedInv /\ DuplicatesRefused

IInv == PageInv /\ MemoryInv /\ reading \subseteq DOMAIN taken

-----------------------------------------------------------------------------
(* Lemmas about sequences and the bridge *)

\* Bounded keeps the last elements in order, the new one at the end: the first d
\* are dropped.
Dropped(seq, bound) == IF Len(seq) = bound THEN 1 ELSE 0

LEMMA BoundedFacts ==
  ASSUME NEW S, NEW seq \in Seq(S), NEW x \in S, NEW bound \in Nat, Len(seq) <= bound,
         NEW last, last = Bounded(seq, x, bound),
         NEW d, d = Dropped(seq, bound)
  PROVE  /\ d \in {0, 1}
         /\ last \in Seq(S)
         /\ Len(last) = Len(seq) + 1 - d
         /\ d = 1 <=> Len(seq) = bound
         /\ \A i \in 1..Len(seq) - d : last[i] = seq[i + d]
         /\ Len(seq) + 1 - d > 0 => last[Len(seq) + 1 - d] = x
  <1> DEFINE longer == Append(seq, x)
  <1>1. /\ longer \in Seq(S) /\ longer # <<>> /\ Len(seq) \in Nat
        /\ Len(longer) = Len(seq) + 1
        /\ \A i \in 1..Len(seq) : longer[i] = seq[i]
        /\ longer[Len(seq) + 1] = x
    BY AppendProperties, LenProperties
  <1> HIDE DEF longer
  <1>2. /\ Tail(longer) \in Seq(S) /\ Len(Tail(longer)) = Len(seq)
        /\ \A i \in 1..Len(seq) : Tail(longer)[i] = longer[i + 1]
    BY <1>1, HeadTailProperties
  <1>3. CASE Len(seq) = bound
    <2>1. last = Tail(longer) /\ d = 1
      BY <1>1, <1>3 DEF Bounded, Dropped
    <2>2. \A i \in 1..Len(seq) - 1 : Tail(longer)[i] = seq[i + 1]
      BY <1>1, <1>2
    <2>3. Len(seq) > 0 => Tail(longer)[Len(seq)] = x
      BY <1>1, <1>2
    <2>4. QED
      BY <1>1, <1>2, <1>3, <2>1, <2>2, <2>3
  <1>4. CASE Len(seq) # bound
    <2>1. last = longer /\ d = 0
      BY <1>1, <1>4 DEF Bounded, Dropped
    <2>2. QED
      BY <1>1, <1>4, <2>1
  <1>5. QED
    BY <1>3, <1>4

LEMMA ElementsOfSeq ==
  ASSUME NEW S, NEW seq \in Seq(S)
  PROVE  /\ Len(seq) \in Nat
         /\ \A i \in 1..Len(seq) : seq[i] \in S
         /\ \A x : x \in Elements(seq) <=> \E i \in 1..Len(seq) : seq[i] = x
  <1>1. DOMAIN seq = 1..Len(seq) /\ Len(seq) \in Nat
    BY LenProperties
  <1>2. QED
    BY <1>1, ElementOfSeq DEF Elements

\* Every operation of the bridge leaves it within its limit.
LEMMA DrainedKeeps ==
  ASSUME NEW Messages, NEW b \in Bridges(Messages)
  PROVE  Drained(b) \in Bridges(Messages)
  <1>1. CASE b.call = None /\ b.ready /\ ~b.disposed /\ b.queue # <<>>
    <2>1. Call(Head(b.queue)) \in [message : Messages, reached : BOOLEAN]
      BY <1>1 DEF Bridges, Call
    <2>2. QED
      BY <1>1, <2>1 DEF Bridges, Drained
  <1>2. CASE ~(b.call = None /\ b.ready /\ ~b.disposed /\ b.queue # <<>>)
    BY <1>2 DEF Drained
  <1>3. QED
    BY <1>1, <1>2

LEMMA BridgeKeeps ==
  ASSUME NEW Messages, NEW b \in Bridges(Messages)
  PROVE  /\ \A m \in Messages : Send(b, m) \in Bridges(Messages)
         /\ MarkReady(b) \in Bridges(Messages)
         /\ MarkNotReady(b) \in Bridges(Messages)
         /\ Dispose(b) \in Bridges(Messages)
         /\ b.call # None => CallEnded(b) \in Bridges(Messages)
         /\ b.call # None => [b EXCEPT !.call.reached = TRUE] \in Bridges(Messages)
  <1>1. /\ Len(b.queue) \in Nat /\ b.queue \in Seq(Messages)
        /\ Len(<<>>) = 0 /\ <<>> \in Seq(Messages) /\ MaxPending \in Nat \ {0}
    BY LenProperties, EmptySeq, BridgeAssumption DEF Bridges
  <1>2. ASSUME NEW m \in Messages
        PROVE  Send(b, m) \in Bridges(Messages)
    <2> DEFINE c == [b EXCEPT !.queue = Append(@, m)]
    <2>1. CASE Accepts(b)
      <3>1. /\ Append(b.queue, m) \in Seq(Messages) /\ Append(b.queue, m) # <<>>
            /\ Len(Append(b.queue, m)) = Len(b.queue) + 1
        BY <1>1, AppendProperties
      <3>2. c \in Bridges(Messages)
        BY <1>1, <2>1, <3>1 DEF Bridges, Accepts
      <3>3. QED
        BY <2>1, <3>2, DrainedKeeps DEF Send
    <2>2. CASE ~Accepts(b)
      BY <2>2 DEF Send
    <2>3. QED
      BY <2>1, <2>2
  <1>3. MarkReady(b) \in Bridges(Messages)
    <2>1. [b EXCEPT !.ready = TRUE] \in Bridges(Messages)
      BY DEF Bridges
    <2>2. QED
      BY <2>1, DrainedKeeps DEF MarkReady
  <1>4. MarkNotReady(b) \in Bridges(Messages) /\ Dispose(b) \in Bridges(Messages)
    <2>1. MarkNotReady(b) \in Bridges(Messages)
      BY DEF MarkNotReady, Bridges
    <2>2. Len(<<>>) <= MaxPending
      BY <1>1
    <2>3. Dispose(b) \in Bridges(Messages)
      BY <1>1, <2>2 DEF Dispose, Bridges
    <2>4. QED
      BY <2>1, <2>3
  <1>5. ASSUME b.call # None
        PROVE  CallEnded(b) \in Bridges(Messages)
    <2> DEFINE rest == IF b.disposed THEN b.queue ELSE Tail(b.queue)
    <2>1. rest \in Seq(Messages) /\ Len(rest) <= MaxPending /\ (b.disposed => rest = <<>>)
      <3>1. b.queue # <<>> => Tail(b.queue) \in Seq(Messages) /\ Len(Tail(b.queue)) = Len(b.queue) - 1
        BY <1>1, HeadTailProperties
      <3>2. QED
        BY <1>1, <1>5, <3>1 DEF Bridges
    <2> HIDE DEF rest
    <2>2. [b EXCEPT !.call = None, !.queue = rest] \in Bridges(Messages)
      BY <2>1 DEF Bridges
    <2>3. CallEnded(b) = Drained([b EXCEPT !.call = None, !.queue = rest])
      BY DEF CallEnded, rest, Bridges
    <2>4. QED
      BY <2>2, <2>3, DrainedKeeps
  <1>6. ASSUME b.call # None
        PROVE  [b EXCEPT !.call.reached = TRUE] \in Bridges(Messages)
    <2> DEFINE call == b.call
    <2>1. call \in [message : Messages, reached : BOOLEAN]
      BY <1>6 DEF Bridges
    <2>2. [call EXCEPT !.reached = TRUE] \in [message : Messages, reached : BOOLEAN]
      BY <2>1
    <2>3. QED
      BY <1>6, <2>2 DEF Bridges
  <1>7. QED
    BY <1>2, <1>3, <1>4, <1>5, <1>6

\* What was sendable still is when more pages have started.
LEMMA SendableGrows ==
  ASSUME NEW p \in Nat, NEW q \in Nat, p <= q, NEW b \in Bridges(Sendable(p))
  PROVE  b \in Bridges(Sendable(q))
  <1>1. Sendable(p) \subseteq Sendable(q)
    BY DEF Sendable, Message
  <1>2. Seq(Sendable(p)) \subseteq Seq(Sendable(q))
    BY <1>1
  <1>3. [message : Sendable(p), reached : BOOLEAN] \subseteq [message : Sendable(q), reached : BOOLEAN]
    BY <1>1
  <1>4. QED
    BY <1>2, <1>3 DEF Bridges

LEMMA WriteSendable ==
  ASSUME NEW p \in Nat
  PROVE  Write \in Sendable(p)
  BY StreamAssumption DEF Write, Sendable, Message

\* A handler that leaves the pages alone.
LEMMA PageSame ==
  ASSUME PageInv, UNCHANGED <<page, posted, told, pasted>>,
         bridge' \in Bridges(Sendable(page.n))
  PROVE  PageInv'
  BY DEF PageInv, BridgeInv, PasteReachesItsPage

LEMMA MemorySame ==
  ASSUME MemoryInv, UNCHANGED <<active, remembered, retired, taken, resets, retiredAt>>
  PROVE  MemoryInv'
  BY DEF MemoryInv, MemoryTypes, RetiredInv, TakenInv, RememberedInv, DuplicatesRefused, Elements

-----------------------------------------------------------------------------
(* The two memories *)

\* Events accepted before and after a reset: the duplicates' second exception.
LEMMA ResetKeeps ==
  ASSUME MemoryInv, Reset, UNCHANGED taken
  PROVE  MemoryInv'
  <1>1. /\ active \in Pages \cup {None} /\ None \notin Pages
        /\ resets \in Nat /\ retiredAt \in [Pages -> Nat] /\ MaxRetired \in Nat
        /\ retired \in Seq(Pages) /\ Len(retired) <= MaxRetired /\ active \notin Elements(retired)
        /\ Len(retired) \in Nat
        /\ \A x : x \in Elements(retired) <=> \E i \in 1..Len(retired) : retired[i] = x
        /\ \A i \in 1..Len(retired) : retired[i] \in Pages
    <2>1. /\ active \in Pages \cup {None} /\ resets \in Nat /\ retiredAt \in [Pages -> Nat]
          /\ retired \in Seq(Pages) /\ Len(retired) <= MaxRetired /\ active \notin Elements(retired)
      BY DEF MemoryInv, MemoryTypes
    <2>2. None \notin Pages /\ MaxRetired \in Nat
      BY StreamAssumption DEF Pages
    <2>3. QED
      BY <2>1, <2>2, ElementsOfSeq
  <1>2. /\ Len(taken) \in Nat
        /\ \A k \in 1..Len(taken) : taken[k].stream \in Pages /\ taken[k].resets \in Nat
    <2>1. \A k \in 1..Len(taken) : taken[k] \in Taken
      BY ElementsOfSeq DEF MemoryInv, MemoryTypes
    <2>2. QED
      BY <2>1, ElementsOfSeq DEF Taken
  <1>3. active' = None /\ remembered' = <<>> /\ Len(<<>>) = 0 /\ <<>> \in Seq(Nat)
    BY EmptySeq DEF Reset
  <1>4. DuplicatesRefused'
    BY DEF MemoryInv, DuplicatesRefused
  <1>5. CASE active = None
    <2>1. UNCHANGED <<retired, resets, retiredAt>>
      BY <1>5 DEF Reset
    <2>2. MemoryTypes'
      BY <1>1, <1>3, <1>5, <2>1, StreamAssumption DEF MemoryInv, MemoryTypes
    <2>3. RetiredInv'
      BY <2>1 DEF MemoryInv, RetiredInv
    <2>4. TakenInv'
      BY <1>1, <1>2, <1>3, <1>5, <2>1 DEF MemoryInv, TakenInv
    <2>5. RememberedInv'
      BY <1>1, <1>2, <1>3, <1>5, <2>1 DEF MemoryInv, TakenInv, RememberedInv
    <2>6. QED
      BY <1>4, <2>2, <2>3, <2>4, <2>5 DEF MemoryInv
  <1>6. CASE active # None
    <2>1. /\ active \in Pages
          /\ retired' = Bounded(retired, active, MaxRetired)
          /\ resets' = resets + 1
          /\ retiredAt' = [retiredAt EXCEPT ![active] = resets + 1]
      BY <1>1, <1>6 DEF Reset
    <2> DEFINE d == Dropped(retired, MaxRetired)
    <2>2. /\ d \in {0, 1}
          /\ retired' \in Seq(Pages)
          /\ Len(retired') = Len(retired) + 1 - d
          /\ d = 1 <=> Len(retired) = MaxRetired
          /\ \A i \in 1..Len(retired) - d : retired'[i] = retired[i + d]
          /\ Len(retired) + 1 - d > 0 => retired'[Len(retired) + 1 - d] = active
      <3>1. retired \in Seq(Pages) /\ active \in Pages /\ MaxRetired \in Nat /\ Len(retired) <= MaxRetired
        BY <1>1, <2>1
      <3>2. retired' = Bounded(retired, active, MaxRetired)
        BY <2>1
      <3>3. QED
        BY <3>1, <3>2, BoundedFacts
    <2> HIDE DEF d
    <2>3. /\ Elements(retired)' \subseteq Pages
          /\ \A x : x \in Elements(retired)' <=> \E i \in 1..Len(retired') : retired'[i] = x
      BY <2>2, ElementsOfSeq DEF Elements
    <2>4. MemoryTypes'
      <3>1. Len(retired') <= MaxRetired
        BY <1>1, <2>2
      <3>2. resets' \in Nat /\ retiredAt' \in [Pages -> Nat]
        BY <1>1, <2>1
      <3>3. QED
        BY <1>1, <1>3, <2>2, <2>3, <3>1, <3>2, StreamAssumption DEF MemoryInv, MemoryTypes
    <2>5. \A s \in Pages : retiredAt'[s] = IF s = active THEN resets + 1 ELSE retiredAt[s]
      BY <1>1, <2>1
    <2>6. RetiredInv'
      <3>1. \A s \in Pages : retiredAt'[s] <= resets'
        BY <1>1, <2>1, <2>5 DEF MemoryInv, RetiredInv
      <3>2. ASSUME NEW i \in 1..Len(retired')
            PROVE  retiredAt'[retired'[i]] = resets' - Len(retired') + i
        <4>1. CASE i = Len(retired')
          BY <1>1, <2>1, <2>2, <2>3, <2>5, <4>1
        <4>2. CASE i # Len(retired')
          <5>1. i \in 1..Len(retired) - d /\ i + d \in 1..Len(retired) /\ retired'[i] = retired[i + d]
            <6>1. d \in {0, 1} /\ Len(retired') = Len(retired) + 1 - d /\ Len(retired) \in Nat
              BY <1>1, <2>2
            <6>2. i \in 1..Len(retired) - d /\ i + d \in 1..Len(retired)
              BY <4>2, <6>1
            <6>3. QED
              BY <2>2, <6>2
          <5>2. retired[i + d] # active /\ retired[i + d] \in Pages
            BY <1>1, <5>1 DEF Elements
          <5>3. retiredAt[retired[i + d]] = resets - Len(retired) + (i + d)
            BY <5>1 DEF MemoryInv, RetiredInv
          <5>4. QED
            BY <1>1, <2>1, <2>2, <2>5, <5>1, <5>2, <5>3
        <4>3. QED
          BY <4>1, <4>2
      <3>3. ASSUME NEW s \in Pages, retiredAt'[s] # 0
            PROVE  s \in Elements(retired)' \/ resets' - retiredAt'[s] >= MaxRetired
        <4>1. CASE s = active /\ Len(retired') > 0
          BY <1>1, <2>2, <2>3, <4>1 DEF Elements
        <4>2. CASE s = active /\ Len(retired') = 0
          BY <1>1, <2>1, <2>2, <2>5, <4>2
        <4>3. CASE s # active /\ resets - retiredAt[s] >= MaxRetired
          BY <1>1, <2>1, <2>5, <4>3
        <4>4. CASE s # active /\ s \in Elements(retired)
          <5>1. PICK i \in 1..Len(retired) : retired[i] = s
            BY <4>4 DEF Elements
          <5>2. CASE i > d
            <6>1. i - d \in 1..Len(retired) - d /\ i - d \in 1..Len(retired') /\ (i - d) + d = i
              BY <1>1, <2>2, <2>3, <5>1, <5>2
            <6>2. retired'[i - d] = s
              BY <2>2, <5>1, <6>1
            <6>3. QED
              BY <2>3, <6>1, <6>2
          <5>3. CASE ~(i > d)
            <6>1. i = 1 /\ d = 1 /\ Len(retired) = MaxRetired
              BY <1>1, <2>2, <5>1, <5>3
            <6>2. retiredAt[s] = resets - MaxRetired + 1
              BY <5>1, <6>1 DEF MemoryInv, RetiredInv
            <6>3. QED
              BY <1>1, <2>1, <2>5, <4>4, <6>2
          <5>4. QED
            BY <5>2, <5>3
        <4>5. retiredAt[s] # 0 \/ s = active
          BY <2>5, <3>3
        <4>6. Len(retired') \in Nat
          BY <1>1, <2>2
        <4>7. QED
          BY <4>1, <4>2, <4>3, <4>4, <4>5, <4>6 DEF MemoryInv, RetiredInv
      <3>4. QED
        BY <3>1, <3>2, <3>3 DEF RetiredInv
    <2>7. TakenInv'
      <3>1. \A s \in Pages : retiredAt'[s] >= retiredAt[s]
        BY <1>1, <2>5 DEF MemoryInv, RetiredInv
      <3>2. ASSUME NEW k \in 1..Len(taken)
            PROVE  taken[k].resets < resets' /\ retiredAt'[taken[k].stream] > taken[k].resets
        <4>1. CASE taken[k].resets = resets
          BY <1>1, <1>2, <2>1, <2>5, <4>1 DEF MemoryInv, TakenInv
        <4>2. CASE taken[k].resets < resets
          <5>1. retiredAt[taken[k].stream] > taken[k].resets /\ taken[k].stream \in Pages
            BY <1>2, <4>2 DEF MemoryInv, TakenInv
          <5>2. retiredAt'[taken[k].stream] \in Nat /\ retiredAt[taken[k].stream] \in Nat
            BY <1>1, <2>1, <5>1
          <5>3. QED
            BY <1>1, <1>2, <2>1, <3>1, <4>2, <5>1, <5>2
        <4>3. QED
          BY <1>1, <1>2, <4>1, <4>2 DEF MemoryInv, TakenInv
      <3>3. QED
        BY <1>1, <1>2, <2>1, <3>2 DEF TakenInv
    <2>8. RememberedInv'
      <3>1. \A k \in 1..Len(taken) : taken[k].resets # resets'
        BY <1>1, <1>2, <2>1 DEF MemoryInv, TakenInv
      <3>2. QED
        BY <1>2, <1>3, <3>1 DEF RememberedInv
    <2>9. QED
      BY <1>4, <2>4, <2>6, <2>7, <2>8 DEF MemoryInv
  <1>7. QED
    BY <1>5, <1>6

LEMMA TakenFacts ==
  ASSUME MemoryInv
  PROVE  /\ Len(taken) \in Nat
         /\ DOMAIN taken = 1..Len(taken)
         /\ \A k \in 1..Len(taken) :
              taken[k].stream \in Pages /\ taken[k].seq \in Nat /\ taken[k].resets \in Nat
  <1>1. taken \in Seq(Taken)
    BY DEF MemoryInv, MemoryTypes
  <1>2. \A k \in 1..Len(taken) : taken[k] \in Taken
    BY <1>1, ElementsOfSeq
  <1>3. QED
    BY <1>1, <1>2, LenProperties DEF Taken

\* A stream begins: nothing has been accepted since the reset.
LEMMA BeginKeeps ==
  ASSUME MemoryInv, NEW s \in Pages, active = None, s \notin Elements(retired),
         active' = s, remembered' = <<>>, UNCHANGED <<retired, taken, resets, retiredAt>>
  PROVE  MemoryInv'
  <1>1. None \notin Pages
    BY StreamAssumption DEF Pages
  <1>2. \A k \in 1..Len(taken) : taken[k].resets # resets
    BY <1>1, TakenFacts DEF MemoryInv, TakenInv
  <1>3. Len(<<>>) = 0 /\ <<>> \in Seq(Nat)
    BY EmptySeq
  <1>4. MemoryTypes'
    <2>1. Elements(retired)' = Elements(retired)
      BY DEF Elements
    <2>2. QED
      BY <1>3, <2>1, StreamAssumption DEF MemoryInv, MemoryTypes
  <1>5. RetiredInv'
    BY DEF MemoryInv, RetiredInv, Elements
  <1>6. TakenInv'
    BY <1>2 DEF MemoryInv, TakenInv
  <1>7. RememberedInv'
    BY <1>2, <1>3, TakenFacts DEF RememberedInv
  <1>8. DuplicatesRefused'
    BY DEF MemoryInv, DuplicatesRefused
  <1>9. QED
    BY <1>4, <1>5, <1>6, <1>7, <1>8 DEF MemoryInv

\* An event of the active stream that is not in memory is accepted.
LEMMA AcceptKeeps ==
  ASSUME MemoryInv, active \in Pages, NEW n \in Nat, n \notin Elements(remembered),
         remembered' = Bounded(remembered, n, MaxRemembered),
         NEW event, event = [stream |-> active, seq |-> n, resets |-> resets],
         taken' = Append(taken, event), UNCHANGED <<active, retired, resets, retiredAt>>
  PROVE  MemoryInv'
  <1> DEFINE size == Len(taken)
             had == Len(remembered)
             d == Dropped(remembered, MaxRemembered)
  <1>1. /\ remembered \in Seq(Nat) /\ had \in Nat /\ had <= MaxRemembered
        /\ MaxRemembered \in Nat \ {0} /\ MaxRetired \in Nat
        /\ \A x : x \in Elements(remembered) <=> \E i \in 1..had : remembered[i] = x
        /\ resets \in Nat /\ had <= size
    BY StreamAssumption, ElementsOfSeq DEF MemoryInv, MemoryTypes, RememberedInv
  <1>2. event \in Taken /\ event.stream = active /\ event.seq = n /\ event.resets = resets
    BY <1>1 DEF Taken
  <1>3. /\ taken' \in Seq(Taken)
        /\ size \in Nat /\ Len(taken') = size + 1
        /\ \A k \in 1..size : taken'[k] = taken[k]
        /\ taken'[size + 1] = event
    <2>1. taken \in Seq(Taken) /\ taken' = Append(taken, event)
      BY DEF MemoryInv, MemoryTypes
    <2>2. QED
      BY <1>2, <2>1, AppendProperties, LenProperties
  <1>4. /\ d \in {0, 1}
        /\ remembered' \in Seq(Nat)
        /\ Len(remembered') = had + 1 - d
        /\ d = 1 <=> had = MaxRemembered
        /\ \A i \in 1..had - d : remembered'[i] = remembered[i + d]
        /\ had + 1 - d > 0 => remembered'[had + 1 - d] = n
    <2> DEFINE Numbers == Nat
    <2>1. MaxRemembered \in Nat
      BY <1>1
    <2>2. remembered \in Seq(Numbers) /\ Len(remembered) <= MaxRemembered /\ n \in Numbers
      BY <1>1
    <2>3. remembered' = Bounded(remembered, n, MaxRemembered)
      OBVIOUS
    <2> HIDE DEF Numbers
    <2>4. /\ d \in {0, 1}
          /\ remembered' \in Seq(Numbers)
          /\ Len(remembered') = had + 1 - d
          /\ d = 1 <=> had = MaxRemembered
          /\ \A i \in 1..had - d : remembered'[i] = remembered[i + d]
          /\ had + 1 - d > 0 => remembered'[had + 1 - d] = n
      BY <2>1, <2>2, <2>3, BoundedFacts
    <2>5. QED
      BY <2>4 DEF Numbers
  <1> HIDE DEF size, had, d
  <1>5. MemoryTypes'
    <2>1. Len(remembered') <= MaxRemembered
      BY <1>1, <1>4
    <2>2. Elements(retired)' = Elements(retired)
      BY DEF Elements
    <2>3. QED
      BY <1>3, <1>4, <2>1, <2>2 DEF MemoryInv, MemoryTypes
  <1>6. RetiredInv'
    BY DEF MemoryInv, RetiredInv, Elements
  <1>7. TakenInv'
    <2>1. ASSUME NEW k \in 1..Len(taken')
          PROVE  /\ taken'[k].resets <= resets
                 /\ taken'[k].resets = resets => taken'[k].stream = active
                 /\ taken'[k].resets < resets => retiredAt[taken'[k].stream] > taken'[k].resets
      <3>1. CASE k = size + 1
        BY <1>1, <1>2, <1>3, <3>1
      <3>2. CASE k # size + 1
        <4>1. k \in 1..size /\ taken'[k] = taken[k]
          BY <1>3, <3>2
        <4>2. QED
          BY <4>1 DEF MemoryInv, TakenInv, size
      <3>3. QED
        BY <3>1, <3>2
    <2>2. QED
      BY <2>1 DEF TakenInv
  <1>8. RememberedInv'
    <2>1. Len(remembered') <= Len(taken')
      <3>1. Len(remembered') = had + 1 - d /\ d \in {0, 1} /\ Len(taken') = size + 1
        BY <1>3, <1>4
      <3>2. had \in Nat /\ size \in Nat /\ had <= size
        BY <1>1, <1>3
      <3>3. QED
        BY <3>1, <3>2
    <2>2. ASSUME NEW i \in 1..Len(remembered')
          PROVE  remembered'[i] = taken'[Len(taken') - Len(remembered') + i].seq
      <3>1. CASE i = Len(remembered')
        <4>1. i = had + 1 - d /\ i > 0
          BY <1>1, <1>4, <3>1
        <4>2. remembered'[i] = n
          BY <1>4, <4>1
        <4>3. Len(taken') - Len(remembered') + i = size + 1
          <5>1. Len(taken') = size + 1 /\ size \in Nat /\ Len(remembered') = i /\ i \in Nat
            BY <1>3, <3>1
          <5>2. QED
            BY <5>1
        <4>4. QED
          BY <1>2, <1>3, <4>2, <4>3
      <3>2. CASE i # Len(remembered')
        <4>1. /\ i \in 1..had - d /\ i + d \in 1..had
              /\ Len(taken') - Len(remembered') + i = size - had + (i + d)
              /\ size - had + (i + d) \in 1..size
          <5>1. /\ Len(remembered') = had + 1 - d /\ Len(taken') = size + 1 /\ d \in {0, 1}
                /\ size \in Nat /\ had \in Nat /\ had <= size
            BY <1>1, <1>3, <1>4
          <5>2. i \in 1..had + 1 - d /\ i # had + 1 - d
            BY <2>2, <3>2, <5>1
          <5>3. QED
            BY <5>1, <5>2
        <4>2. remembered[i + d] = taken[size - had + (i + d)].seq
          BY <4>1 DEF MemoryInv, RememberedInv, size, had
        <4>3. QED
          BY <1>3, <1>4, <4>1, <4>2
      <3>3. QED
        BY <3>1, <3>2
    <2>3. ASSUME NEW k \in 1..Len(taken'), taken'[k].resets = resets
          PROVE  k > Len(taken') - Len(remembered') \/ Len(remembered') = MaxRemembered
      <3>1. CASE k = size + 1
        BY <1>1, <1>3, <1>4, <3>1
      <3>2. CASE k # size + 1
        <4>1. k \in 1..size /\ taken[k].resets = resets
          BY <1>3, <2>3, <3>2
        <4>2. k > size - had \/ had = MaxRemembered
          BY <4>1 DEF MemoryInv, RememberedInv, size, had
        <4>3. QED
          BY <1>1, <1>3, <1>4, <4>1, <4>2
      <3>3. QED
        BY <3>1, <3>2
    <2>4. QED
      BY <2>1, <2>2, <2>3 DEF RememberedInv
  <1>9. DuplicatesRefused'
    <2>1. ASSUME NEW i \in 1..size, taken[i].stream = active, taken[i].seq = n
          PROVE  size + 1 - i > MaxRemembered \/ resets - taken[i].resets > MaxRetired
      <3>1. CASE taken[i].resets = resets
        <4>1. ~(i > size - had)
          <5>1. ASSUME i > size - had
                PROVE  FALSE
            <6>1. i - (size - had) \in 1..had /\ size - had + (i - (size - had)) = i
              BY <1>1, <1>3, <5>1
            <6>2. remembered[i - (size - had)] = taken[i].seq
              BY <6>1 DEF MemoryInv, RememberedInv, size, had
            <6>3. QED
              BY <1>1, <2>1, <6>1, <6>2
          <5>2. QED
            BY <5>1
        <4>2. had = MaxRemembered
          BY <3>1, <4>1 DEF MemoryInv, RememberedInv, size, had
        <4>3. QED
          BY <1>1, <1>3, <4>1, <4>2
      <3>2. CASE taken[i].resets # resets
        <4>1. /\ taken[i].resets < resets /\ taken[i].resets \in Nat
              /\ retiredAt[active] > taken[i].resets /\ retiredAt[active] \in Nat
          <5>1. i \in 1..Len(taken) /\ taken[i].resets \in Nat
            BY TakenFacts DEF size
          <5>2. taken[i].resets <= resets /\ (taken[i].resets < resets => retiredAt[active] > taken[i].resets)
            BY <2>1, <5>1 DEF MemoryInv, TakenInv
          <5>3. retiredAt[active] \in Nat
            BY DEF MemoryInv, MemoryTypes
          <5>4. QED
            BY <1>1, <3>2, <5>1, <5>2, <5>3
        <4>2. resets - retiredAt[active] >= MaxRetired
          BY <4>1 DEF MemoryInv, MemoryTypes, RetiredInv
        <4>3. QED
          BY <1>1, <4>1, <4>2
      <3>3. QED
        BY <3>1, <3>2
    <2>2. DOMAIN taken' = 1..size + 1 /\ DOMAIN taken = 1..size
      BY <1>3, LenProperties, TakenFacts DEF size
    <2>3. ASSUME NEW i \in DOMAIN taken', NEW j \in DOMAIN taken', i < j,
                 taken'[i].stream = taken'[j].stream, taken'[i].seq = taken'[j].seq
          PROVE  j - i > MaxRemembered \/ taken'[j].resets - taken'[i].resets > MaxRetired
      <3>1. CASE j = size + 1
        <4>1. i \in 1..size /\ taken'[i] = taken[i] /\ taken'[j] = event
          BY <1>3, <2>2, <2>3, <3>1
        <4>2. taken[i].stream = active /\ taken[i].seq = n
          BY <1>2, <2>3, <4>1
        <4>3. size + 1 - i > MaxRemembered \/ resets - taken[i].resets > MaxRetired
          BY <2>1, <4>1, <4>2
        <4>4. taken'[i].resets = taken[i].resets /\ taken'[j].resets = resets
          BY <1>2, <4>1
        <4>5. taken'[j].resets - taken'[i].resets = resets - taken[i].resets
          BY <4>4
        <4>6. j - i = size + 1 - i
          <5>1. size \in Nat /\ i \in 1..size /\ j = size + 1
            BY <1>3, <3>1, <4>1
          <5>2. QED
            BY <5>1
        <4>7. QED
          BY <4>3, <4>5, <4>6
      <3>2. CASE j # size + 1
        <4>1. /\ i \in DOMAIN taken /\ taken'[i] = taken[i]
              /\ j \in DOMAIN taken /\ taken'[j] = taken[j]
          BY <1>3, <2>2, <2>3, <3>2
        <4>2. QED
          BY <2>3, <4>1 DEF MemoryInv, DuplicatesRefused
      <3>3. QED
        BY <3>1, <3>2
    <2>4. QED
      BY <2>3 DEF DuplicatesRefused
  <1>10. QED
    BY <1>5, <1>6, <1>7, <1>8, <1>9 DEF MemoryInv

-----------------------------------------------------------------------------
(* Pages and the bridge *)

LEMMA PageFacts ==
  ASSUME PageInv
  PROVE  /\ page.n \in 0..MaxPages /\ page.n \in Nat /\ page.live \in BOOLEAN /\ page.seq \in Nat
         /\ MaxPages \in Nat
         /\ told \in 0..page.n
         /\ page.n > 0 => page.n \in Pages
         /\ bridge \in Bridges(Sendable(page.n))
         /\ Write \in Sendable(page.n)
  <1>1. page.n \in 0..MaxPages /\ page.live \in BOOLEAN /\ page.seq \in Nat /\ MaxPages \in Nat
    BY StreamAssumption DEF PageInv
  <1>2. page.n \in Nat
    BY <1>1
  <1>3. QED
    BY <1>1, <1>2, WriteSendable DEF PageInv, BridgeInv, Pages

LEMMA PageStartsKeeps ==
  ASSUME PageInv, PageStarts
  PROVE  PageInv'
  <1>1. /\ page' = [n |-> page.n + 1, live |-> FALSE, seq |-> 0] /\ page.n < MaxPages
        /\ UNCHANGED <<posted, told, bridge, pasted>>
    BY DEF PageStarts, stream, history
  <1>2. page' \in [n : 0..MaxPages, live : BOOLEAN, seq : Nat] /\ page'.n = page.n + 1 /\ ~page'.live
    BY <1>1, PageFacts
  <1>3. told' \in 0..page'.n
    BY <1>1, <1>2, PageFacts
  <1>4. BridgeInv'
    BY <1>1, <1>2, PageFacts, SendableGrows DEF BridgeInv
  <1>5. QED
    BY <1>1, <1>2, <1>3, <1>4 DEF PageInv, PasteReachesItsPage

\* A page that only posts, and stays the same page.
LEMMA PostsKeep ==
  ASSUME PageInv, page' \in [n : 0..MaxPages, live : BOOLEAN, seq : Nat],
         page'.n = page.n, page.n > 0, posted' \subseteq Posted,
         UNCHANGED told, bridge' \in Bridges(Sendable(page.n)),
         pasted' \subseteq [asker : Pages, active : Pages, told : 0..MaxPages, into : Pages],
         PasteReachesItsPage'
  PROVE  PageInv'
  BY DEF PageInv, BridgeInv

LEMMA ScriptRunsKeeps ==
  ASSUME PageInv, ScriptRuns
  PROVE  PageInv'
  <1>1. /\ page.n > 0 /\ page' = [page EXCEPT !.live = TRUE]
        /\ posted' = posted \cup {[stream |-> page.n, seq |-> 0, kind |-> "ready"]}
        /\ UNCHANGED <<told, bridge, pasted>>
    BY DEF ScriptRuns, stream, history
  <1>2. page' \in [n : 0..MaxPages, live : BOOLEAN, seq : Nat] /\ page'.n = page.n
    BY <1>1 DEF PageInv
  <1>3. posted' \subseteq Posted
    BY <1>1, PageFacts DEF PageInv, Posted
  <1>4. QED
    BY <1>1, <1>2, <1>3, PageFacts, PostsKeep DEF PageInv, PasteReachesItsPage

LEMMA PostEventKeeps ==
  ASSUME PageInv, page.live, NEW kind \in Kinds, PostEvent(kind)
  PROVE  /\ page' \in [n : 0..MaxPages, live : BOOLEAN, seq : Nat]
         /\ page'.n = page.n /\ page.n > 0
         /\ posted' \subseteq Posted
  <1>1. /\ page' = [page EXCEPT !.seq = @ + 1]
        /\ posted' = posted \cup {[stream |-> page.n, seq |-> page.seq + 1, kind |-> kind]}
    BY DEF PostEvent
  <1>2. page' \in [n : 0..MaxPages, live : BOOLEAN, seq : Nat] /\ page'.n = page.n /\ page.n > 0
    BY <1>1 DEF PageInv
  <1>3. [stream |-> page.n, seq |-> page.seq + 1, kind |-> kind] \in Posted
    BY <1>2, PageFacts DEF Posted
  <1>4. QED
    BY <1>1, <1>2, <1>3 DEF PageInv

LEMMA UserActsKeeps ==
  ASSUME PageInv, NEW kind \in Kinds, UserActs(kind)
  PROVE  PageInv'
  <1>1. page.live /\ PostEvent(kind) /\ UNCHANGED <<told, bridge, pasted>>
    BY DEF UserActs, stream, history
  <1>2. QED
    BY <1>1, PostEventKeeps, PageFacts, PostsKeep DEF PageInv, PasteReachesItsPage

\* A paste that is executed: the page is not older than the pages Flutter knew of
\* when it sent the text, and if it is the one Flutter knew of, the asker was
\* either this page or one that was active after it had been replaced.
LEMMA ReceiveKeeps ==
  ASSUME PageInv, Receive
  PROVE  PageInv'
  <1>1. /\ bridge.call # None /\ bridge' = [bridge EXCEPT !.call.reached = TRUE]
        /\ UNCHANGED told
    BY DEF Receive, stream
  <1>2. bridge' \in Bridges(Sendable(page.n))
    BY <1>1, PageFacts, BridgeKeeps
  <1> DEFINE message == bridge.call.message
             paste == [asker |-> message.asker, active |-> message.active, told |-> message.told,
                       into |-> page.n]
  <1>3. CASE page.live /\ message.asker # None
    <2>1. PostEvent("input") /\ pasted' = pasted \cup {paste}
      BY <1>3 DEF Receive
    <2>2. message \in Sendable(page.n)
      BY <1>1, PageFacts DEF Bridges
    <2>3. /\ message.asker \in Pages /\ message.active = message.asker
          /\ message.told \in 0..MaxPages /\ message.told <= page.n
      BY <1>3, <2>2 DEF Sendable, Message
    <2>4. /\ page' \in [n : 0..MaxPages, live : BOOLEAN, seq : Nat]
          /\ page'.n = page.n /\ page.n > 0 /\ posted' \subseteq Posted
      BY <1>3, <2>1, PostEventKeeps DEF Kinds
    <2> HIDE DEF message
    <2>5. /\ paste \in [asker : Pages, active : Pages, told : 0..MaxPages, into : Pages]
          /\ paste.into = page.n /\ paste.asker = paste.active /\ paste.told <= page.n
          /\ paste.told \in Nat /\ page.n \in Nat
      BY <2>3, <2>4, PageFacts
    <2> HIDE DEF paste
    <2>6. \/ paste.into = paste.asker
          \/ paste.into > paste.told
          \/ paste.asker = paste.active /\ paste.active # paste.told
      BY <2>5
    <2>7. PasteReachesItsPage'
      BY <2>1, <2>6 DEF PageInv, PasteReachesItsPage
    <2>8. pasted' \subseteq [asker : Pages, active : Pages, told : 0..MaxPages, into : Pages]
      BY <2>1, <2>5 DEF PageInv
    <2>9. QED
      BY <1>1, <1>2, <2>4, <2>7, <2>8, PostsKeep
  <1>4. CASE ~(page.live /\ message.asker # None)
    <2>1. UNCHANGED <<page, posted, pasted>>
      BY <1>4 DEF Receive
    <2>2. QED
      BY <1>1, <1>2, <2>1, PageSame
  <1>5. QED
    BY <1>3, <1>4

LEMMA HandlePageStartedKeeps ==
  ASSUME PageInv, HandlePageStarted
  PROVE  PageInv'
  <1>1. /\ told < page.n /\ told' = told + 1 /\ bridge' = MarkNotReady(bridge)
        /\ UNCHANGED <<page, posted, pasted>>
    BY DEF HandlePageStarted
  <1>2. BridgeInv'
    BY <1>1, PageFacts, BridgeKeeps DEF BridgeInv
  <1>3. told' \in 0..page'.n
    BY <1>1, PageFacts
  <1>4. QED
    BY <1>1, <1>2, <1>3 DEF PageInv, PasteReachesItsPage

LEMMA HandleReadyKeeps ==
  ASSUME PageInv, MemoryInv, NEW m \in posted, HandleReady(m)
  PROVE  PageInv' /\ MemoryInv'
  <1>1. UNCHANGED <<page, posted, told, pasted, retired, taken, resets, retiredAt>>
    BY DEF HandleReady, history
  <1>2. bridge' \in Bridges(Sendable(page.n))
    <2>1. CASE bridge.disposed \/ bridge.ready
      BY <2>1, PageFacts DEF HandleReady
    <2>2. CASE ~(bridge.disposed \/ bridge.ready)
      <3>1. bridge' = Send(MarkReady(bridge), Write)
        BY <2>2 DEF HandleReady
      <3>2. MarkReady(bridge) \in Bridges(Sendable(page.n))
        BY <2>2, PageFacts, BridgeKeeps
      <3>3. QED
        BY <3>1, <3>2, PageFacts, BridgeKeeps
    <2>3. QED
      BY <2>1, <2>2
  <1>3. PageInv'
    BY <1>1, <1>2, PageSame
  <1>4. m.stream \in Pages
    BY DEF PageInv, Posted
  <1>5. CASE active = None
    <2>1. active' = m.stream /\ remembered' = <<>>
      BY <1>5 DEF HandleReady
    <2>2. m.stream \notin Elements(retired)
      BY <1>4, <1>5, StreamAssumption DEF HandleReady, Pages
    <2>3. QED
      BY <1>1, <1>3, <1>4, <1>5, <2>1, <2>2, BeginKeeps
  <1>6. CASE active # None
    <2>1. UNCHANGED <<active, remembered>>
      BY <1>6 DEF HandleReady
    <2>2. QED
      BY <1>1, <1>3, <2>1, MemorySame
  <1>7. QED
    BY <1>5, <1>6

LEMMA HandleEventKeeps ==
  ASSUME IInv, NEW m \in posted, HandleEvent(m)
  PROVE  IInv'
  <1>1. UNCHANGED <<page, posted, told, pasted, active, retired, resets, retiredAt>>
    BY DEF HandleEvent
  <1>2. bridge' = IF m.kind = "input" THEN Send(bridge, Write) ELSE bridge
    BY DEF HandleEvent
  <1>3. bridge' \in Bridges(Sendable(page.n))
    BY <1>2, PageFacts, BridgeKeeps DEF IInv
  <1>4. PageInv'
    BY <1>1, <1>3, PageSame DEF IInv
  <1>5. m \in Posted
    BY DEF IInv, PageInv
  <1>6. active = m.stream /\ active \in Pages /\ m.seq \in Nat /\ m.seq \notin Elements(remembered)
    BY <1>5 DEF HandleEvent, Accepted, Posted
  <1> DEFINE event == [stream |-> active, seq |-> m.seq, resets |-> resets]
  <1>7. /\ remembered' = Bounded(remembered, m.seq, MaxRemembered)
        /\ taken' = Append(taken, event)
    BY <1>6 DEF HandleEvent
  <1>8. MemoryInv'
    BY <1>1, <1>6, <1>7, AcceptKeeps DEF IInv
  <1>9. reading' \subseteq DOMAIN taken'
    <2>1. Len(taken) \in Nat /\ DOMAIN taken = 1..Len(taken)
      BY TakenFacts DEF IInv
    <2>2. DOMAIN taken' = 1..Len(taken) + 1
      <3>1. event \in Taken /\ taken \in Seq(Taken)
        BY <1>6 DEF IInv, MemoryInv, MemoryTypes, Taken
      <3> HIDE DEF event
      <3>2. taken' \in Seq(Taken) /\ Len(taken') = Len(taken) + 1
        BY <1>7, <3>1, AppendProperties
      <3>3. QED
        BY <3>2, LenProperties
    <2>3. reading' \subseteq reading \cup {Len(taken) + 1}
      BY DEF HandleEvent
    <2>4. reading \subseteq 1..Len(taken)
      BY <2>1 DEF IInv
    <2>5. QED
      BY <2>1, <2>2, <2>3, <2>4
  <1>10. QED
    BY <1>4, <1>8, <1>9 DEF IInv

\* The text of a clipboard goes out with the stream that was active both when it
\* was asked for and when it came.
LEMMA ClipboardAnswersKeeps ==
  ASSUME PageInv, MemoryInv, reading \subseteq DOMAIN taken, NEW r \in reading, ClipboardAnswers(r)
  PROVE  PageInv'
  <1>1. UNCHANGED <<page, posted, told, pasted>>
    BY DEF ClipboardAnswers, stream, history
  <1>2. CASE active = taken[r].stream /\ ~bridge.disposed
    <2>1. bridge' \in {bridge, Send(bridge, Paste(taken[r].stream))}
      BY <1>2 DEF ClipboardAnswers
    <2>2. active \in Pages
      BY <1>2, TakenFacts
    <2>3. Paste(taken[r].stream) \in Sendable(page.n)
      <3>1. Paste(taken[r].stream) = [asker |-> active, active |-> active, told |-> told]
        BY <1>2 DEF Paste
      <3>2. told \in 0..MaxPages /\ told <= page.n
        BY PageFacts
      <3>3. QED
        BY <2>2, <3>1, <3>2 DEF Sendable, Message
    <2>4. bridge' \in Bridges(Sendable(page.n))
      BY <2>1, <2>3, PageFacts, BridgeKeeps
    <2>5. QED
      BY <1>1, <2>4, PageSame
  <1>3. CASE ~(active = taken[r].stream /\ ~bridge.disposed)
    <2>1. bridge' = bridge
      BY <1>3 DEF ClipboardAnswers
    <2>2. QED
      BY <1>1, <2>1, PageFacts, PageSame
  <1>4. QED
    BY <1>2, <1>3

-----------------------------------------------------------------------------
(* Theorems *)

\* Before the first event there is nothing to disagree about.
THEOREM Initially == Init => IInv
  <1> SUFFICES ASSUME Init PROVE IInv
    OBVIOUS
  <1>1. Len(<<>>) = 0 /\ \A S : <<>> \in Seq(S)
    BY EmptySeq
  <1>2. Elements(<<>>) = {}
    BY DEF Elements
  <1>3. PageInv
    <2>1. page = [n |-> 0, live |-> FALSE, seq |-> 0] /\ posted = {} /\ told = 0 /\ pasted = {}
      BY DEF Init
    <2>2. page.n = 0 /\ BridgeInv
      BY <1>1, <2>1, BridgeAssumption DEF Init, BridgeInv, NewBridge, Bridges
    <2>3. QED
      BY <2>1, <2>2, StreamAssumption DEF PageInv, PasteReachesItsPage
  <1>4. MemoryInv
    <2>1. /\ active = None /\ remembered = <<>> /\ retired = <<>> /\ taken = <<>>
          /\ resets = 0 /\ retiredAt = [s \in Pages |-> 0]
      BY DEF Init
    <2>2. MemoryTypes
      BY <1>1, <1>2, <2>1, StreamAssumption DEF MemoryTypes
    <2>3. RetiredInv
      BY <1>1, <2>1 DEF RetiredInv
    <2>4. TakenInv
      BY <1>1, <2>1 DEF TakenInv
    <2>5. RememberedInv
      BY <1>1, <2>1 DEF RememberedInv
    <2>6. DuplicatesRefused
      BY <2>1 DEF DuplicatesRefused
    <2>7. QED
      BY <2>2, <2>3, <2>4, <2>5, <2>6 DEF MemoryInv
  <1>5. QED
    BY <1>3, <1>4 DEF IInv, Init

\* Every handler, every event from outside and a stutter keep the invariant.
THEOREM Inductive == IInv /\ [Next]_vars => IInv'
  <1> SUFFICES ASSUME IInv, [Next]_vars PROVE IInv'
    OBVIOUS
  <1>1. CASE PageStarts \/ ScriptRuns \/ \E kind \in Kinds : UserActs(kind)
    <2>1. UNCHANGED <<stream, reading, history>>
      BY <1>1 DEF PageStarts, ScriptRuns, UserActs
    <2>2. PageInv'
      BY <1>1, PageStartsKeeps, ScriptRunsKeeps, UserActsKeeps DEF IInv
    <2>3. QED
      BY <2>1, <2>2, MemorySame DEF IInv, stream, history
  <1>2. CASE Receive
    <2>1. PageInv'
      BY <1>2, ReceiveKeeps DEF IInv
    <2>2. UNCHANGED <<active, remembered, retired, taken, resets, retiredAt, reading>>
      BY <1>2 DEF Receive, stream
    <2>3. QED
      BY <2>1, <2>2, MemorySame DEF IInv
  <1>3. CASE CallReturns \/ DeveloperKey \/ DisposeBridge
    <2>1. UNCHANGED <<page, posted, stream, reading, history>>
      BY <1>3 DEF CallReturns, DeveloperKey, DisposeBridge
    <2>2. bridge' \in Bridges(Sendable(page.n))
      <3>1. CASE CallReturns
        BY <3>1, PageFacts, BridgeKeeps DEF IInv, CallReturns
      <3>2. CASE DeveloperKey
        BY <3>2, PageFacts, BridgeKeeps DEF IInv, DeveloperKey
      <3>3. CASE DisposeBridge
        BY <3>3, PageFacts, BridgeKeeps DEF IInv, DisposeBridge
      <3>4. QED
        BY <1>3, <3>1, <3>2, <3>3
    <2>3. PageInv'
      BY <2>1, <2>2, PageSame DEF IInv, stream, history
    <2>4. QED
      BY <2>1, <2>3, MemorySame DEF IInv, stream, history
  <1>4. CASE HandlePageStarted
    <2>1. PageInv'
      BY <1>4, HandlePageStartedKeeps DEF IInv
    <2>2. MemoryInv'
      BY <1>4, ResetKeeps DEF IInv, HandlePageStarted
    <2>3. QED
      BY <1>4, <2>1, <2>2 DEF IInv, HandlePageStarted
  <1>5. CASE \E m \in posted : HandleReady(m) \/ HandleEvent(m)
    <2>1. PICK m \in posted : HandleReady(m) \/ HandleEvent(m)
      BY <1>5
    <2>2. CASE HandleReady(m)
      <3>1. PageInv' /\ MemoryInv'
        BY <2>2, HandleReadyKeeps DEF IInv
      <3>2. UNCHANGED <<reading, taken>>
        BY <2>2 DEF HandleReady, history
      <3>3. QED
        BY <3>1, <3>2 DEF IInv
    <2>3. CASE HandleEvent(m)
      BY <2>3, HandleEventKeeps
    <2>4. QED
      BY <2>1, <2>2, <2>3
  <1>6. CASE \E r \in reading : ClipboardAnswers(r)
    <2>1. PICK r \in reading : ClipboardAnswers(r)
      BY <1>6
    <2>2. PageInv'
      BY <2>1, ClipboardAnswersKeeps DEF IInv
    <2>3. UNCHANGED <<active, remembered, retired, taken, resets, retiredAt>> /\ reading' \subseteq reading
      BY <2>1 DEF ClipboardAnswers, stream, history
    <2>4. QED
      BY <2>2, <2>3, MemorySame DEF IInv
  <1>7. CASE UNCHANGED vars
    <2>1. UNCHANGED <<page, posted, told, pasted, bridge, reading>>
      BY <1>7 DEF vars, stream, history
    <2>2. UNCHANGED <<active, remembered, retired, taken, resets, retiredAt>>
      BY <1>7 DEF vars, stream, history
    <2>3. PageInv'
      BY <2>1, PageFacts, PageSame DEF IInv
    <2>4. QED
      BY <2>1, <2>2, <2>3, MemorySame DEF IInv
  <1>8. QED
    BY <1>1, <1>2, <1>3, <1>4, <1>5, <1>6, <1>7 DEF Next

\* The two memories are the tails of what was accepted and retired, and only
\* honest pastes are under way, in every state.
THEOREM Invariance == Spec => []IInv
  BY Initially, Inductive, PTL DEF Spec

\* The memories, the queue and every history keep their types and limits.
THEOREM TypeCorrect == Spec => []TypeOK
  <1>1. IInv => TypeOK
    <2> SUFFICES ASSUME IInv PROVE TypeOK
      OBVIOUS
    <2>1. /\ bridge.queue \in Seq(Message) /\ Len(bridge.queue) <= MaxPending
          /\ bridge.call \in [message : Message, reached : BOOLEAN] \cup {None}
      <3>1. bridge \in Bridges(Sendable(page.n))
        BY PageFacts DEF IInv
      <3>2. Sendable(page.n) \subseteq Message
        BY DEF Sendable
      <3>3. Seq(Sendable(page.n)) \subseteq Seq(Message)
        BY <3>2
      <3>4. [message : Sendable(page.n), reached : BOOLEAN] \subseteq [message : Message, reached : BOOLEAN]
        BY <3>2
      <3>5. QED
        BY <3>1, <3>3, <3>4 DEF Bridges
    <2>2. QED
      BY <2>1 DEF TypeOK, IInv, PageInv, MemoryInv, MemoryTypes
  <1>2. QED
    BY Invariance, <1>1, PTL

\* An event is accepted again only after more than MaxRemembered others, or more
\* than MaxRetired resets, for memories of any size.
THEOREM Duplicates == Spec => []DuplicatesRefused
  <1>1. IInv => DuplicatesRefused
    BY DEF IInv, MemoryInv
  <1>2. QED
    BY Invariance, <1>1, PTL

\* A stream comes back only if it was never retired, or has been forgotten.
THEOREM StaleStreams == Spec => []StaleStreamsRefused
  <1>1. IInv => StaleStreamsRefused
    BY DEF IInv, MemoryInv, MemoryTypes, RetiredInv, StaleStreamsRefused
  <1>2. QED
    BY Invariance, <1>1, PTL

\* A clipboard text reaches no page but the one that asked, with the two
\* exceptions stated.
THEOREM Pastes == Spec => []PasteReachesItsPage
  <1>1. IInv => PasteReachesItsPage
    BY DEF IInv, PageInv
  <1>2. QED
    BY Invariance, <1>1, PTL

===============================================================================
