-------------------------- MODULE TouchSelectionProofs --------------------------
(***************************************************************************)
(* Proofs about TouchSelection, for any screen, any number of fingers and any *)
(* widths: the controls agree with the selection, a drag keeps the end it      *)
(* does not move, the long-press timer belongs to a resting finger, and what   *)
(* xterm.js highlights, which it finds with a division by the width, is what   *)
(* lies between the two handles.                                               *)
(***************************************************************************)
EXTENDS TouchSelection, TLAPS

-----------------------------------------------------------------------------
(* The inductive invariant *)

\* The types of what the handlers read.
TypeInv ==
  /\ columns \in Nat \ {0} /\ base \in Nat /\ top \in Nat
  /\ sel \in Selection \cup {None}
  /\ current \in Endpoints \cup {None}
  /\ anchor \in Position \cup {None}
  /\ word \in Endpoints \cup {None}
  /\ shown \subseteq {"toolbar", "start", "end"}
  /\ timer \in BOOLEAN /\ selecting \in BOOLEAN

\* The endpoints are kept in order, so that the one opposite to a handle is known.
OrderInv == current # None => UpTo(current.start, current.end)

\* A gesture that selects knows the cell it began at and, after a long press, the
\* word around that cell.
GestureInv ==
  /\ selecting => anchor # None
  /\ selecting /\ word # None => Within(anchor, word)

\* Nothing is pending once the controls are disposed.
DisposedInv == disposed => ~timer

IInv ==
  /\ TypeInv /\ OrderInv /\ GestureInv /\ DisposedInv
  /\ ControlsMatchSelection /\ AnchorStaysSelected /\ TimerIsForRestingFinger

\* As long as the terminal keeps its width, the selection is what
\* terminalSelectionBetween makes of the endpoints, which are cells of that width,
\* less the lines that the buffer has lost.
BetweenInv ==
  /\ trimmed \in Nat
  /\ sel # None /\ ~resized =>
       /\ current.start.column < columns /\ current.end.column < columns
       /\ sel = [SelectionBetween(current.start, current.end) EXCEPT !.row = Larger(@ - trimmed, 0)]

-----------------------------------------------------------------------------
(* Lemmas about positions and the controls *)

LEMMA OrderedFacts ==
  ASSUME NEW a \in Position, NEW b \in Position
  PROVE  /\ Ordered(a, b) \in Endpoints
         /\ UpTo(Ordered(a, b).start, Ordered(a, b).end)
         /\ Within(a, Ordered(a, b)) /\ Within(b, Ordered(a, b))
         /\ a \in {Ordered(a, b).start, Ordered(a, b).end}
  <1>1. a.column \in Nat /\ a.row \in Nat /\ b.column \in Nat /\ b.row \in Nat
    BY DEF Position
  <1>2. CASE UpTo(a, b)
    <2>1. Ordered(a, b) = [start |-> a, end |-> b]
      BY <1>2 DEF Ordered
    <2>2. UpTo(a, a) /\ UpTo(b, b)
      BY <1>1 DEF UpTo
    <2>3. QED
      BY <1>2, <2>1, <2>2 DEF Within, Endpoints
  <1>3. CASE ~UpTo(a, b)
    <2>1. Ordered(a, b) = [start |-> b, end |-> a]
      BY <1>3 DEF Ordered
    <2>2. UpTo(a, a) /\ UpTo(b, b) /\ UpTo(b, a)
      BY <1>1, <1>3 DEF UpTo
    <2>3. QED
      BY <2>1, <2>2 DEF Within, Endpoints
  <1>4. QED
    BY <1>2, <1>3

LEMMA UpToTransitive ==
  ASSUME NEW a \in Position, NEW b \in Position, NEW c \in Position, UpTo(a, b), UpTo(b, c)
  PROVE  UpTo(a, c)
  BY DEF UpTo, Position

LEMMA CellsArePositions ==
  ASSUME columns \in Nat \ {0}, base \in Nat, NEW cell \in Cells
  PROVE  cell \in Position /\ cell.column < columns
  BY TouchAssumption DEF Cells, Cell, Position

\* What terminalSelectionBetween returns is a selection, and so not None.
LEMMA SelectionTyped ==
  ASSUME columns \in Nat \ {0}, NEW a \in Position, NEW b \in Position
  PROVE  SelectionBetween(a, b) \in Selection
  <1> DEFINE ends == Ordered(a, b)
  <1>1. /\ ends.start.column \in Nat /\ ends.start.row \in Nat
        /\ ends.end.column \in Nat /\ ends.end.row \in Nat
    BY OrderedFacts DEF Endpoints, Position
  <1>2. \A m, n \in Int : m * n \in Int
    OBVIOUS
  <1>3. ends.end.row - ends.start.row \in Int /\ columns \in Int
    BY <1>1
  <1>4. (ends.end.row - ends.start.row) * columns \in Int
    BY <1>2, <1>3
  <1> DEFINE product == (ends.end.row - ends.start.row) * columns
             size == product + ends.end.column - ends.start.column + 1
  <1>5. size \in Int
    <2> HIDE DEF product
    <2>1. product \in Int
      BY <1>4 DEF product
    <2>2. QED
      BY <1>1, <2>1
  <1>6. SelectionBetween(a, b) = [column |-> ends.start.column, row |-> ends.start.row, length |-> size]
    BY DEF SelectionBetween
  <1> HIDE DEF size, ends
  <1>7. QED
    BY <1>1, <1>5, <1>6 DEF Selection

\* updateSelectionControls leaves controls, endpoints and selection in agreement.
LEMMA ControlsAgree ==
  ASSUME NEW ends \in Endpoints \cup {None},
         sel' # None => ends # None,
         ends # None => UpTo(ends.start, ends.end),
         UpdateControls(ends)
  PROVE  /\ current' \in {None, ends}
         /\ current' \in Endpoints \cup {None}
         /\ shown' \subseteq {"toolbar", "start", "end"}
         /\ OrderInv' /\ ControlsMatchSelection'
  <1>1. CASE sel' = None
    <2>1. current' = None /\ shown' = {}
      BY <1>1 DEF UpdateControls
    <2>2. QED
      BY <1>1, <2>1 DEF OrderInv, ControlsMatchSelection
  <1>2. CASE sel' # None
    <2>1. current' = ends /\ shown' = {"toolbar"} \cup Handles(current')
      BY <1>2 DEF UpdateControls
    <2>2. Handles(current') \subseteq {"start", "end"}
      BY DEF Handles
    <2>3. QED
      BY <1>2, <2>1, <2>2 DEF OrderInv, ControlsMatchSelection
  <1>3. QED
    BY <1>1, <1>2

\* The parts of the invariant that a new selection concerns.
SelectionPart ==
  /\ sel \in Selection \cup {None}
  /\ current \in Endpoints \cup {None}
  /\ shown \subseteq {"toolbar", "start", "end"}
  /\ OrderInv /\ ControlsMatchSelection

LEMMA SelectBetweenKeeps ==
  ASSUME IInv, NEW a \in Position, NEW b \in Position, SelectBetween(a, b)
  PROVE  /\ SelectionPart'
         /\ current' \in {current, Ordered(a, b)}
         /\ a.column < columns /\ b.column < columns => current' = Ordered(a, b)
  <1>1. CASE a.column < columns /\ b.column < columns
    <2>1. sel' = SelectionBetween(a, b) /\ UpdateControls(Ordered(a, b))
      BY <1>1 DEF SelectBetween
    <2>2. sel' \in Selection /\ sel' # None
      BY <2>1, SelectionTyped, NoneAssumption DEF IInv, TypeInv
    <2>3. /\ Ordered(a, b) \in Endpoints /\ Ordered(a, b) # None
          /\ UpTo(Ordered(a, b).start, Ordered(a, b).end)
      BY OrderedFacts, NoneAssumption
    <2>4. current' = Ordered(a, b)
      BY <2>1, <2>2 DEF UpdateControls
    <2>5. QED
      BY <2>1, <2>2, <2>3, <2>4, ControlsAgree DEF SelectionPart
  <1>2. CASE ~(a.column < columns /\ b.column < columns)
    <2>1. UNCHANGED <<sel, current, shown>>
      BY <1>2 DEF SelectBetween, selection
    <2>2. QED
      BY <1>2, <2>1 DEF SelectionPart, IInv, TypeInv, OrderInv, ControlsMatchSelection
  <1>3. QED
    BY <1>1, <1>2

LEMMA ClearSelectionKeeps ==
  ASSUME IInv, ClearSelection
  PROVE  SelectionPart' /\ current' = None
  <1>1. sel' = None /\ current' = None /\ shown' = {}
    BY DEF ClearSelection, UpdateControls
  <1>2. QED
    BY <1>1 DEF SelectionPart, OrderInv, ControlsMatchSelection

-----------------------------------------------------------------------------
(* Steps *)

\* Together these are the invariant.
LEMMA Parts ==
  ASSUME columns' \in Nat \ {0}, base' \in Nat, top' \in Nat, SelectionPart',
         anchor' \in Position \cup {None}, word' \in Endpoints \cup {None},
         timer' \in BOOLEAN, selecting' \in BOOLEAN,
         GestureInv', DisposedInv', AnchorStaysSelected', TimerIsForRestingFinger'
  PROVE  IInv'
  BY DEF SelectionPart, IInv, TypeInv

\* A gesture that is reset leaves nothing to hold, whatever happens to the rest.
LEMMA ResetKeeps ==
  ASSUME IInv, ResetGesture, SelectionPart', UNCHANGED terminal
  PROVE  IInv'
  <1>1. anchor' = None /\ word' = None /\ selecting' = FALSE /\ timer' = FALSE
    BY DEF ResetGesture
  <1>2. columns' \in Nat \ {0} /\ base' \in Nat /\ top' \in Nat
    BY DEF IInv, TypeInv, terminal
  <1>3. GestureInv' /\ DisposedInv' /\ AnchorStaysSelected' /\ TimerIsForRestingFinger'
    BY <1>1 DEF GestureInv, DisposedInv, AnchorStaysSelected, TimerIsForRestingFinger
  <1>4. QED
    BY <1>1, <1>2, <1>3, Parts

LEMMA SameSelection ==
  ASSUME IInv, UNCHANGED selection
  PROVE  SelectionPart' /\ current' = current
  BY DEF IInv, TypeInv, SelectionPart, OrderInv, ControlsMatchSelection, selection

\* While the gesture goes on, output, typing, buttons and resizes only keep the
\* endpoints or give them up.
LEMMA GestureGoesOn ==
  ASSUME IInv, UNCHANGED <<gesture, fingers, disposed>>, SelectionPart', current' \in {None, current},
         columns' \in Nat \ {0}, base' \in Nat, top' \in Nat
  PROVE  IInv'
  <1>1. UNCHANGED <<active, anchor, word, selecting, timer, rested>>
    BY DEF gesture
  <1>2. GestureInv' /\ DisposedInv' /\ TimerIsForRestingFinger'
    BY <1>1 DEF IInv, GestureInv, DisposedInv, TimerIsForRestingFinger
  <1>3. AnchorStaysSelected'
    <2>1. AnchorStaysSelected
      BY DEF IInv
    <2>2. CASE current' = None
      BY <2>2 DEF AnchorStaysSelected
    <2>3. CASE current' = current
      BY <1>1, <2>1, <2>3 DEF AnchorStaysSelected, Within
    <2>4. QED
      BY <2>2, <2>3
  <1>4. QED
    BY <1>1, <1>2, <1>3, Parts DEF IInv, TypeInv

LEMMA TouchHandleKeeps ==
  ASSUME IInv, NEW f \in Fingers, TouchHandle(f)
  PROVE  IInv'
  <1>1. PICK edge \in shown \ {"toolbar"} :
          /\ current # None
          /\ anchor' = IF edge = "start" THEN current.end ELSE current.start
    BY DEF TouchHandle
  <1>2. SelectionPart' /\ current' = current
    BY SameSelection DEF TouchHandle
  <1>3. word' = None /\ selecting' = TRUE /\ timer' = FALSE
    BY DEF TouchHandle
  <1>4. UNCHANGED <<columns, base, top, disposed>>
    BY DEF TouchHandle, TouchStarts, terminal
  <1>5. current \in Endpoints /\ UpTo(current.start, current.end)
    BY <1>1 DEF IInv, TypeInv, OrderInv
  <1>6. current.start \in Position /\ current.end \in Position
    BY <1>5 DEF Endpoints
  <1>7. anchor' \in Position /\ anchor' \in {current.start, current.end}
    BY <1>1, <1>6
  <1>8. anchor' # None
    BY <1>7, NoneAssumption
  <1>9. UpTo(current.start, anchor') /\ UpTo(anchor', current.end)
    <2>1. UpTo(current.start, current.start) /\ UpTo(current.end, current.end)
      BY <1>6 DEF UpTo, Position
    <2>2. QED
      BY <1>5, <1>7, <2>1
  <1>10. AnchorStaysSelected'
    BY <1>2, <1>3, <1>7, <1>9 DEF AnchorStaysSelected, Within
  <1>11. GestureInv' /\ DisposedInv' /\ TimerIsForRestingFinger'
    BY <1>3, <1>8 DEF GestureInv, DisposedInv, TimerIsForRestingFinger
  <1>12. QED
    BY <1>2, <1>3, <1>4, <1>7, <1>10, <1>11, Parts DEF IInv, TypeInv

LEMMA TouchTextKeeps ==
  ASSUME IInv, NEW f \in Fingers, TouchText(f)
  PROVE  IInv'
  <1>1. SelectionPart' /\ current' = None
    BY ClearSelectionKeeps DEF TouchText
  <1>2. UNCHANGED terminal /\ UNCHANGED disposed /\ ~disposed /\ fingers' = {f}
    BY DEF TouchText, TouchStarts
  <1>3. CASE ResetGesture
    BY <1>1, <1>2, <1>3, ResetKeeps
  <1>4. CASE /\ anchor' \in OnScreen
             /\ active' = f /\ word' = None /\ selecting' = FALSE /\ timer' = TRUE
             /\ rested' = TRUE
    <2>1. anchor' \in Position
      BY <1>4, CellsArePositions DEF OnScreen, IInv, TypeInv
    <2>2. anchor' # None
      BY <2>1, NoneAssumption
    <2>3. GestureInv' /\ DisposedInv' /\ AnchorStaysSelected' /\ TimerIsForRestingFinger'
      BY <1>2, <1>4, <2>2 DEF GestureInv, DisposedInv, AnchorStaysSelected, TimerIsForRestingFinger
    <2>4. columns' \in Nat \ {0} /\ base' \in Nat /\ top' \in Nat
      BY <1>2 DEF terminal, IInv, TypeInv
    <2>5. QED
      BY <1>1, <1>4, <2>1, <2>3, <2>4, Parts
  <1>5. QED
    BY <1>3, <1>4 DEF TouchText

LEMMA WordAround ==
  ASSUME IInv, anchor \in Cells, NEW w \in WordSelections(anchor)
  PROVE  /\ w \in Endpoints /\ Within(anchor, w)
         /\ w.start \in Position /\ w.end \in Position
         /\ w.start.column < columns /\ w.end.column < columns
         /\ Ordered(w.start, w.end) = w
  <1>1. anchor \in Position /\ anchor.column < columns /\ columns \in Nat \ {0}
    BY CellsArePositions DEF IInv, TypeInv
  <1>2. PICK first \in 0..anchor.column, last \in anchor.column..columns - 1 :
          w = [start |-> Cell(first, anchor.row), end |-> Cell(last, anchor.row)]
    BY DEF WordSelections
  <1>3. /\ anchor.column \in Nat /\ anchor.row \in Nat
        /\ first \in Nat /\ last \in Nat /\ first <= anchor.column
        /\ anchor.column <= last /\ first <= last /\ last < columns
    BY <1>1, <1>2 DEF Position
  <1>4. w.start = Cell(first, anchor.row) /\ w.end = Cell(last, anchor.row)
    BY <1>2
  <1>5. w.start \in Position /\ w.end \in Position /\ w \in Endpoints
    BY <1>2, <1>3, <1>4 DEF Cell, Position, Endpoints
  <1>6. w.start.column = first /\ w.end.column = last /\ w.start.row = anchor.row /\ w.end.row = anchor.row
    BY <1>4 DEF Cell
  <1>7. UpTo(w.start, anchor) /\ UpTo(anchor, w.end) /\ UpTo(w.start, w.end)
    BY <1>3, <1>6 DEF UpTo
  <1>8. Ordered(w.start, w.end) = w
    BY <1>2, <1>4, <1>7 DEF Ordered
  <1>9. QED
    BY <1>1, <1>3, <1>5, <1>6, <1>7, <1>8 DEF Within

LEMMA LongPressKeeps ==
  ASSUME IInv, LongPress
  PROVE  IInv'
  <1>1. /\ UNCHANGED <<columns, base, top, disposed, anchor>>
        /\ timer' = FALSE
    BY DEF LongPress, terminal
  <1>2. anchor \in Position \cup {None} /\ anchor # None
    BY DEF LongPress, IInv, TypeInv, TimerIsForRestingFinger
  <1>3. DisposedInv' /\ TimerIsForRestingFinger'
    BY <1>1 DEF DisposedInv, TimerIsForRestingFinger
  <1>4. CASE anchor \in Cells
    <2>1. word' \in WordSelections(anchor) /\ SelectBetween(word'.start, word'.end) /\ selecting' = TRUE
      BY <1>4 DEF LongPress
    <2> DEFINE w == word'
    <2>2. /\ w \in Endpoints /\ Within(anchor, w)
          /\ w.start \in Position /\ w.end \in Position
          /\ w.start.column < columns /\ w.end.column < columns
          /\ Ordered(w.start, w.end) = w
      BY <1>4, <2>1, WordAround
    <2>3. SelectionPart' /\ current' = w
      BY <2>1, <2>2, SelectBetweenKeeps
    <2>4. w # None
      BY <2>2, NoneAssumption
    <2>5. GestureInv' /\ AnchorStaysSelected'
      BY <1>1, <1>2, <2>2, <2>3, <2>4 DEF GestureInv, AnchorStaysSelected
    <2>6. QED
      BY <1>1, <1>2, <1>3, <2>1, <2>2, <2>3, <2>5, Parts DEF IInv, TypeInv
  <1>5. CASE anchor \notin Cells
    <2>1. word' = None /\ selecting' = FALSE /\ UNCHANGED selection
      BY <1>5 DEF LongPress
    <2>2. SelectionPart'
      BY <2>1, SameSelection
    <2>3. GestureInv' /\ AnchorStaysSelected'
      BY <2>1 DEF GestureInv, AnchorStaysSelected
    <2>4. QED
      BY <1>1, <1>2, <1>3, <2>1, <2>2, <2>3, Parts DEF IInv, TypeInv
  <1>6. QED
    BY <1>4, <1>5

LEMMA MovesAwayKeeps ==
  ASSUME IInv, MovesAway
  PROVE  IInv'
  <1>1. /\ UNCHANGED <<columns, base, top, anchor, word, selecting>>
        /\ timer' = FALSE /\ ~selecting
    BY DEF MovesAway, terminal
  <1>2. SelectionPart'
    BY SameSelection DEF MovesAway
  <1>3. GestureInv' /\ DisposedInv' /\ AnchorStaysSelected' /\ TimerIsForRestingFinger'
    BY <1>1 DEF GestureInv, DisposedInv, AnchorStaysSelected, TimerIsForRestingFinger
  <1>4. QED
    BY <1>1, <1>2, <1>3, Parts DEF IInv, TypeInv

\* Whichever way the finger goes from the anchor, the end that stays is on the far
\* side of it.
LEMMA FarEndStays ==
  ASSUME IInv, selecting, NEW cell \in Position
  PROVE  /\ FixedEndpoint(cell) \in Position
         /\ Within(anchor, Ordered(FixedEndpoint(cell), cell))
         /\ IF word = None THEN anchor \in {Ordered(FixedEndpoint(cell), cell).start,
                                            Ordered(FixedEndpoint(cell), cell).end}
            ELSE \/ Ordered(FixedEndpoint(cell), cell).start = word.start
                 \/ Ordered(FixedEndpoint(cell), cell).end = word.end
  <1>1. anchor \in Position
    BY DEF IInv, TypeInv, GestureInv
  <1>2. CASE word = None
    <2>1. FixedEndpoint(cell) = anchor
      BY <1>2 DEF FixedEndpoint
    <2>2. QED
      BY <1>1, <1>2, <2>1, OrderedFacts
  <1>3. CASE word # None
    <2>1. word \in Endpoints /\ UpTo(word.start, anchor) /\ UpTo(anchor, word.end)
      BY <1>3 DEF IInv, TypeInv, GestureInv, Within
    <2>2. word.start \in Position /\ word.end \in Position
      BY <2>1 DEF Endpoints
    <2>3. CASE UpTo(anchor, cell)
      <3>1. FixedEndpoint(cell) = word.start
        BY <1>3, <2>3 DEF FixedEndpoint
      <3>2. UpTo(word.start, cell)
        BY <1>1, <2>1, <2>2, <2>3, UpToTransitive
      <3>3. Ordered(word.start, cell) = [start |-> word.start, end |-> cell]
        BY <3>2 DEF Ordered
      <3>4. QED
        BY <1>3, <2>1, <2>2, <2>3, <3>1, <3>3 DEF Within
    <2>4. CASE ~UpTo(anchor, cell)
      <3>1. FixedEndpoint(cell) = word.end
        BY <1>3, <2>4 DEF FixedEndpoint
      <3>2. UpTo(cell, anchor) /\ anchor # cell
        BY <1>1, <2>4 DEF UpTo, Position
      <3>3. ~UpTo(word.end, cell)
        BY <1>1, <2>1, <2>2, <2>4, UpToTransitive
      <3>4. Ordered(word.end, cell) = [start |-> cell, end |-> word.end]
        BY <3>3 DEF Ordered
      <3>5. QED
        BY <1>3, <2>1, <2>2, <3>1, <3>2, <3>4 DEF Within
    <2>5. QED
      BY <2>3, <2>4
  <1>4. QED
    BY <1>2, <1>3

LEMMA DragsKeeps ==
  ASSUME IInv, Drags
  PROVE  IInv'
  <1>1. UNCHANGED <<columns, base, top, gesture, fingers, disposed>> /\ selecting
    BY DEF Drags, terminal
  <1>2. PICK cell \in OnScreen : SelectBetween(FixedEndpoint(cell), cell)
    BY DEF Drags
  <1>3. cell \in Position
    BY CellsArePositions DEF OnScreen, IInv, TypeInv
  <1> DEFINE ends == Ordered(FixedEndpoint(cell), cell)
  <1>4. /\ FixedEndpoint(cell) \in Position /\ Within(anchor, ends)
        /\ IF word = None THEN anchor \in {ends.start, ends.end}
           ELSE ends.start = word.start \/ ends.end = word.end
    BY <1>1, <1>3, FarEndStays
  <1>5. SelectionPart' /\ current' \in {current, ends}
    BY <1>2, <1>3, <1>4, SelectBetweenKeeps
  <1> HIDE DEF ends
  <1>6. UNCHANGED <<active, anchor, word, selecting, timer, rested>>
    BY <1>1 DEF gesture
  <1>7. AnchorStaysSelected'
    <2>1. CASE current' = ends
      BY <1>4, <1>6, <2>1 DEF AnchorStaysSelected
    <2>2. CASE current' = current
      BY <1>6, <2>2 DEF AnchorStaysSelected, IInv
    <2>3. QED
      BY <1>5, <2>1, <2>2
  <1>8. GestureInv' /\ DisposedInv' /\ TimerIsForRestingFinger'
    BY <1>1, <1>6 DEF IInv, GestureInv, DisposedInv, TimerIsForRestingFinger
  <1>9. QED
    BY <1>1, <1>5, <1>6, <1>7, <1>8, Parts DEF IInv, TypeInv

LEMMA TouchEndsKeeps ==
  ASSUME IInv, NEW f \in Fingers, TouchEnds(f)
  PROVE  IInv'
  <1>1. SelectionPart' /\ current' = current
    BY SameSelection DEF TouchEnds
  <1>2. CASE f = active /\ ~disposed
    BY <1>1, <1>2, ResetKeeps DEF TouchEnds
  <1>3. CASE ~(f = active /\ ~disposed)
    <2>1. UNCHANGED <<columns, base, top, disposed, active, anchor, word, selecting, timer, rested>>
      BY <1>3 DEF TouchEnds, gesture, terminal
    <2>2. ~timer
      BY <1>3 DEF TouchEnds, IInv, DisposedInv, TimerIsForRestingFinger
    <2>3. GestureInv' /\ DisposedInv' /\ AnchorStaysSelected' /\ TimerIsForRestingFinger'
      BY <1>1, <2>1, <2>2
         DEF IInv, GestureInv, DisposedInv, AnchorStaysSelected, TimerIsForRestingFinger, Within
    <2>4. QED
      BY <1>1, <2>1, <2>3, Parts DEF IInv, TypeInv
  <1>4. QED
    BY <1>2, <1>3

\* xterm.js's selection moves with its line and is never lost by it.
LEMMA TrimmedFacts ==
  ASSUME sel \in Selection \cup {None}, NEW n \in Nat
  PROVE  Trimmed(n) \in Selection \cup {None} /\ (Trimmed(n) = None) = (sel = None)
  <1>1. CASE sel = None
    BY <1>1 DEF Trimmed
  <1>2. CASE sel # None
    <2>1. Trimmed(n) = [sel EXCEPT !.row = Larger(@ - n, 0)] /\ sel \in Selection
      BY <1>2 DEF Trimmed
    <2>2. Larger(sel.row - n, 0) \in Nat
      BY <2>1 DEF Selection, Larger
    <2>3. Trimmed(n) \in Selection
      BY <2>1, <2>2 DEF Selection
    <2>4. QED
      BY <1>2, <2>3, NoneAssumption
  <1>3. QED
    BY <1>1, <1>2

\* An event of xterm.js that moves or takes the selection, and updates the controls.
LEMMA UpdateKeeps ==
  ASSUME IInv, UNCHANGED <<gesture, fingers, disposed>>, UpdateControls(current),
         sel' \in Selection \cup {None}, sel' # None => sel # None,
         columns' \in Nat \ {0}, base' \in Nat, top' \in Nat
  PROVE  IInv'
  <1>1. /\ current \in Endpoints \cup {None}
        /\ sel' # None => current # None
        /\ current # None => UpTo(current.start, current.end)
    BY DEF IInv, TypeInv, OrderInv, ControlsMatchSelection
  <1>2. SelectionPart' /\ current' \in {None, current}
    BY <1>1, ControlsAgree DEF SelectionPart
  <1>3. QED
    BY <1>2, GestureGoesOn

LEMMA PressButtonKeeps ==
  ASSUME IInv, PressButton
  PROVE  IInv'
  <1>1. sel' = None /\ current' = None /\ shown' = {}
    BY DEF PressButton, UpdateControls
  <1>2. SelectionPart'
    BY <1>1 DEF SelectionPart, OrderInv, ControlsMatchSelection
  <1>3. UNCHANGED <<gesture, fingers, disposed, columns, base, top>>
    BY DEF PressButton, terminal
  <1>4. QED
    BY <1>1, <1>2, <1>3, GestureGoesOn DEF IInv, TypeInv

LEMMA OutputKeeps ==
  ASSUME IInv, Output
  PROVE  IInv'
  <1> DEFINE n == IF base = Scrollback THEN 1 ELSE 0
  <1>1. /\ base' = base + 1 - n
        /\ top' = IF top = base THEN base' ELSE Larger(top - n, 0)
        /\ sel' = Trimmed(n)
    BY DEF Output
  <1>2. n \in Nat /\ base + 1 - n \in Nat /\ Larger(top - n, 0) \in Nat
    BY DEF IInv, TypeInv, Larger
  <1>3. sel' \in Selection \cup {None} /\ (sel' # None => sel # None)
    BY <1>1, <1>2, TrimmedFacts DEF IInv, TypeInv
  <1>4. base' \in Nat /\ top' \in Nat
    BY <1>1, <1>2
  <1>5. UpdateControls(current) /\ UNCHANGED <<columns, gesture, fingers, disposed>>
    BY DEF Output
  <1>6. QED
    BY <1>3, <1>4, <1>5, UpdateKeeps DEF IInv, TypeInv

LEMMA UserInputKeeps ==
  ASSUME IInv, UserInput
  PROVE  IInv'
  <1>1. /\ UNCHANGED <<columns, base, gesture, fingers, disposed>>
        /\ top' = base /\ sel' = None /\ UpdateControls(current)
    BY DEF UserInput
  <1>2. QED
    BY <1>1, UpdateKeeps DEF IInv, TypeInv

LEMMA ScrollKeeps ==
  ASSUME IInv, Scroll
  PROVE  IInv'
  <1>1. UNCHANGED <<columns, base, selection, gesture, fingers, disposed>> /\ top' \in 0..base
    BY DEF Scroll
  <1>2. SelectionPart' /\ current' = current
    BY <1>1, SameSelection
  <1>3. top' \in Nat
    BY <1>1 DEF IInv, TypeInv
  <1>4. QED
    BY <1>1, <1>2, <1>3, GestureGoesOn DEF IInv, TypeInv

LEMMA ResizeKeeps ==
  ASSUME IInv, Resize
  PROVE  IInv'
  <1>1. /\ columns' \in Widths /\ base' \in 0..Scrollback /\ top' \in 0..base'
        /\ UpdateControls(current) /\ UNCHANGED <<gesture, fingers, disposed>>
    BY DEF Resize
  <1>2. PICK n \in {0, 1} : sel' = Trimmed(n)
    BY DEF Resize
  <1>3. sel' \in Selection \cup {None} /\ (sel' # None => sel # None)
    BY <1>2, TrimmedFacts DEF IInv, TypeInv
  <1>4. columns' \in Nat \ {0} /\ base' \in Nat /\ top' \in Nat
    BY <1>1, TouchAssumption
  <1>5. QED
    BY <1>1, <1>3, <1>4, UpdateKeeps

LEMMA StutterKeeps ==
  ASSUME IInv, UNCHANGED vars
  PROVE  IInv'
  <1>1. UNCHANGED <<columns, base, top, selection, gesture, fingers, disposed>>
    BY DEF vars, terminal
  <1>2. SelectionPart' /\ current' = current
    BY <1>1, SameSelection
  <1>3. QED
    BY <1>1, <1>2, GestureGoesOn DEF IInv, TypeInv

-----------------------------------------------------------------------------
(* Theorems *)

\* Before the first event there is nothing to disagree about.
THEOREM Initially == Init => IInv
  <1> SUFFICES ASSUME Init PROVE IInv
    OBVIOUS
  <1>1. TypeInv
    BY TouchAssumption DEF Init, TypeInv
  <1>2. ControlsMatchSelection
    BY DEF Init, ControlsMatchSelection
  <1>3. OrderInv /\ GestureInv /\ DisposedInv /\ AnchorStaysSelected /\ TimerIsForRestingFinger
    BY DEF Init, OrderInv, GestureInv, DisposedInv, AnchorStaysSelected, TimerIsForRestingFinger
  <1>4. QED
    BY <1>1, <1>2, <1>3 DEF IInv

\* Every handler, every event from outside and a stutter keep the invariant.
THEOREM Inductive == IInv /\ [Next]_vars => IInv'
  <1> SUFFICES ASSUME IInv, [Next]_vars PROVE IInv'
    OBVIOUS
  <1>1. CASE \E f \in Fingers : TouchSecond(f) \/ TouchHandle(f) \/ TouchToolbar(f) \/ TouchText(f) \/ TouchEnds(f)
    <2>1. PICK f \in Fingers :
            TouchSecond(f) \/ TouchHandle(f) \/ TouchToolbar(f) \/ TouchText(f) \/ TouchEnds(f)
      BY <1>1
    <2>2. CASE TouchSecond(f) \/ TouchToolbar(f)
      <3>1. ResetGesture /\ UNCHANGED <<selection, terminal>>
        BY <2>2 DEF TouchSecond, TouchToolbar, TouchStarts
      <3>2. QED
        BY <3>1, SameSelection, ResetKeeps
    <2>3. CASE TouchHandle(f)
      BY <2>3, TouchHandleKeeps
    <2>4. CASE TouchText(f)
      BY <2>4, TouchTextKeeps
    <2>5. CASE TouchEnds(f)
      BY <2>5, TouchEndsKeeps
    <2>6. QED
      BY <2>1, <2>2, <2>3, <2>4, <2>5
  <1>2. CASE DisposeControls
    <2>1. ResetGesture /\ UNCHANGED <<selection, terminal>>
      BY <1>2 DEF DisposeControls
    <2>2. QED
      BY <2>1, SameSelection, ResetKeeps
  <1>3. CASE LongPress \/ MovesAway \/ Drags \/ PressButton
    BY <1>3, LongPressKeeps, MovesAwayKeeps, DragsKeeps, PressButtonKeeps
  <1>4. CASE Output \/ UserInput \/ Scroll \/ Resize
    BY <1>4, OutputKeeps, UserInputKeeps, ScrollKeeps, ResizeKeeps
  <1>5. CASE UNCHANGED vars
    BY <1>5, StutterKeeps
  <1>6. QED
    BY <1>1, <1>2, <1>3, <1>4, <1>5 DEF Next

\* Gesture, endpoints, controls and selection fit together in every state.
THEOREM Invariance == Spec => []IInv
  <1>1. QED
    BY Initially, Inductive, PTL DEF Spec

\* Toolbar and endpoints are there exactly while something is selected, whichever
\* of finger, button, typing, output or resize came last.
THEOREM Controls == Spec => []ControlsMatchSelection
  <1>1. IInv => ControlsMatchSelection
    BY DEF IInv
  <1>2. QED
    BY Invariance, <1>1, PTL

\* Dragging loses neither the cell it began at nor, after a long press, both ends
\* of the word, on screens and with fingers of any number.
THEOREM Anchor == Spec => []AnchorStaysSelected
  <1>1. IInv => AnchorStaysSelected
    BY DEF IInv
  <1>2. QED
    BY Invariance, <1>1, PTL

\* No timer outlives the gesture it was set for.
THEOREM RestingFinger == Spec => []TimerIsForRestingFinger
  <1>1. IInv => TimerIsForRestingFinger
    BY DEF IInv
  <1>2. QED
    BY Invariance, <1>1, PTL

-----------------------------------------------------------------------------
(* The selection and its endpoints *)

LEMMA Multiples ==
  ASSUME NEW w \in Nat, NEW k \in Int, NEW q \in Int
  PROVE  /\ k * w \in Int /\ (k + 1) * w = k * w + w
         /\ k <= q => k * w <= q * w
  <1>1. k <= q => k * w <= q * w
    OBVIOUS
  <1>2. k * w \in Int /\ (k + 1) * w = k * w + w
    OBVIOUS
  <1>3. QED
    BY <1>1, <1>2

\* Quotient and remainder are the only ones.
LEMMA Quotient ==
  ASSUME NEW w \in Nat \ {0}, NEW k \in Int, NEW r \in 0..w - 1
  PROVE  (k * w + r) \div w = k /\ (k * w + r) % w = r
  <1> DEFINE n == k * w + r
             q == n \div w
             m == n % w
  <1>1. n \in Int
    BY Multiples
  <1>2. q \in Int /\ m \in 0..w - 1 /\ n = q * w + m
    BY <1>1
  <1> HIDE DEF q, m
  <1>3. ~(q >= k + 1)
    <2>1. q >= k + 1 => (k + 1) * w <= q * w
      BY <1>2, Multiples
    <2>2. QED
      BY <1>2, <2>1, Multiples
  <1>4. ~(k >= q + 1)
    <2>1. k >= q + 1 => (q + 1) * w <= k * w
      BY <1>2, Multiples
    <2>2. QED
      BY <1>2, <2>1, Multiples
  <1>5. q = k
    BY <1>2, <1>3, <1>4
  <1>6. m = r
    BY <1>2, <1>5, Multiples
  <1>7. QED
    BY <1>5, <1>6 DEF q, m

\* xterm.js's end of a selection is one past its last cell, in the same line, also
\* where that is one past the last column.
LEMMA FinalEnd ==
  ASSUME columns \in Nat \ {0}, NEW s \in Position, NEW e \in Position, UpTo(s, e),
         s.column < columns, e.column < columns,
         sel.column = s.column, sel.row = s.row,
         sel.length = (e.row - s.row) * columns + e.column - s.column + 1
  PROVE  FinalSelectionEnd = Cell(e.column + 1, e.row)
  <1> DEFINE k == e.row - s.row
             n == sel.column + sel.length
  <1>1. /\ s.column \in Nat /\ s.row \in Nat /\ e.column \in Nat /\ e.row \in Nat
        /\ k \in Nat /\ e.row = s.row + k
    BY DEF Position, UpTo
  <1>2. n = k * columns + e.column + 1
    <2> DEFINE product == k * columns
    <2>1. product \in Int
      BY <1>1, Multiples
    <2>2. sel.length = product + e.column - s.column + 1
      OBVIOUS
    <2> HIDE DEF product
    <2>3. n = product + e.column + 1
      BY <1>1, <2>1, <2>2
    <2>4. QED
      BY <2>3 DEF product
  <1>3. FinalSelectionEnd = IF n <= columns THEN Cell(n, s.row)
                            ELSE IF n % columns = 0 THEN Cell(columns, s.row + (n \div columns) - 1)
                            ELSE Cell(n % columns, s.row + (n \div columns))
    BY DEF FinalSelectionEnd
  <1> HIDE DEF k, n
  <1>4. CASE k = 0
    <2>1. 0 * columns = 0
      OBVIOUS
    <2>2. n = e.column + 1
      <3>1. n = 0 * columns + e.column + 1
        BY <1>2, <1>4, Zenon
      <3>2. QED
        BY <1>1, <2>1, <3>1
    <2>3. n <= columns /\ e.row = s.row
      BY <1>1, <1>4, <2>2
    <2>4. QED
      BY <1>3, <2>2, <2>3
  <1>5. CASE k # 0
    <2>1. /\ columns \in Nat \ {0} /\ columns \in Nat /\ k \in Int /\ k + 1 \in Int
          /\ 1 \in Int /\ 1 <= k /\ 0 \in 0..columns - 1
      BY <1>1, <1>5
    <2>2. 1 * columns <= k * columns /\ k * columns \in Int /\ (k + 1) * columns = k * columns + columns
      BY <2>1, Multiples, Zenon
    <2>3. columns <= k * columns
      BY <2>1, <2>2
    <2>4. ~(n <= columns)
      BY <1>1, <1>2, <2>1, <2>2, <2>3
    <2>5. CASE e.column + 1 = columns
      <3>1. n = (k + 1) * columns + 0
        BY <1>1, <1>2, <2>1, <2>2, <2>5
      <3>2. n \div columns = k + 1 /\ n % columns = 0
        <4>1. ((k + 1) * columns + 0) \div columns = k + 1 /\ ((k + 1) * columns + 0) % columns = 0
          BY <2>1, Quotient, Zenon
        <4>2. QED
          BY <3>1, <4>1, Zenon
      <3>3. FinalSelectionEnd = Cell(columns, s.row + (n \div columns) - 1)
        BY <1>3, <2>4, <3>2
      <3>4. s.row + (k + 1) - 1 = e.row
        BY <1>1
      <3>5. QED
        BY <2>5, <3>2, <3>3, <3>4
    <2>6. CASE e.column + 1 # columns
      <3>1. n = k * columns + (e.column + 1)
        BY <1>1, <1>2, <2>1, <2>2
      <3>2. e.column + 1 \in 0..columns - 1 /\ e.column + 1 # 0
        BY <1>1, <2>1, <2>6
      <3>3. n \div columns = k /\ n % columns = e.column + 1
        <4>1. (k * columns + (e.column + 1)) \div columns = k /\ (k * columns + (e.column + 1)) % columns = e.column + 1
          BY <2>1, <3>2, Quotient, Zenon
        <4>2. QED
          BY <3>1, <4>1, Zenon
      <3>4. FinalSelectionEnd = Cell(n % columns, s.row + (n \div columns))
        BY <1>3, <2>4, <3>2, <3>3
      <3>5. QED
        BY <1>1, <3>3, <3>4
    <2>7. QED
      BY <2>5, <2>6
  <1>6. QED
    BY <1>4, <1>5

\* The endpoints that are kept make the same selection as the cells that were given.
LEMMA OrderedSelects ==
  ASSUME NEW a \in Position, NEW b \in Position
  PROVE  /\ Ordered(a, b).start \in {a, b} /\ Ordered(a, b).end \in {a, b}
         /\ SelectionBetween(Ordered(a, b).start, Ordered(a, b).end) = SelectionBetween(a, b)
  <1>1. Ordered(a, b).start \in {a, b} /\ Ordered(a, b).end \in {a, b}
    BY DEF Ordered
  <1>2. Ordered(Ordered(a, b).start, Ordered(a, b).end) = Ordered(a, b)
    <2>1. UpTo(Ordered(a, b).start, Ordered(a, b).end)
      BY OrderedFacts
    <2>2. Ordered(a, b) = [start |-> Ordered(a, b).start, end |-> Ordered(a, b).end]
      BY DEF Ordered
    <2>3. QED
      BY <2>1, <2>2 DEF Ordered
  <1>3. QED
    BY <1>1, <1>2 DEF SelectionBetween

LEMMA SameBetween ==
  ASSUME BetweenInv, UNCHANGED <<columns, selection>>
  PROVE  BetweenInv'
  <1>1. /\ columns' = columns /\ sel' = sel /\ current' = current
        /\ trimmed' = trimmed /\ resized' = resized
    BY DEF selection
  <1>2. QED
    BY <1>1 DEF BetweenInv, SelectionBetween

LEMMA NoneBetween ==
  ASSUME BetweenInv, sel' = None, trimmed' = trimmed
  PROVE  BetweenInv'
  BY DEF BetweenInv

LEMMA SelectBetweenBetween ==
  ASSUME IInv, BetweenInv, NEW a \in Position, NEW b \in Position,
         SelectBetween(a, b), columns' = columns
  PROVE  BetweenInv'
  <1>1. CASE a.column < columns /\ b.column < columns
    <2>1. sel' = SelectionBetween(a, b) /\ trimmed' = 0
      BY <1>1 DEF SelectBetween
    <2>2. current' = Ordered(a, b)
      BY <1>1, SelectBetweenKeeps
    <2>3. current'.start.column < columns /\ current'.end.column < columns
      BY <1>1, <2>2, OrderedSelects
    <2>4. sel' = SelectionBetween(current'.start, current'.end)
      BY <2>1, <2>2, OrderedSelects
    <2>5. sel' \in Selection
      BY <2>1, SelectionTyped DEF IInv, TypeInv
    <2>6. Larger(sel'.row - 0, 0) = sel'.row
      BY <2>5 DEF Selection, Larger
    <2>7. sel' = [sel' EXCEPT !.row = Larger(@ - 0, 0)]
      BY <2>5, <2>6 DEF Selection
    <2>8. SelectionBetween(current.start, current.end)' = SelectionBetween(current'.start, current'.end)
      BY DEF SelectionBetween
    <2>9. QED
      BY <2>1, <2>3, <2>4, <2>7, <2>8 DEF BetweenInv
  <1>2. CASE ~(a.column < columns /\ b.column < columns)
    BY <1>2, SameBetween DEF SelectBetween
  <1>3. QED
    BY <1>1, <1>2

\* Losing lines one after another is losing them at once.
LEMMA LostLines ==
  ASSUME NEW r \in Nat, NEW t \in Nat, NEW n \in Nat
  PROVE  Larger(Larger(r - t, 0) - n, 0) = Larger(r - (t + n), 0)
  BY DEF Larger

LEMMA OutputBetween ==
  ASSUME IInv, BetweenInv, Output
  PROVE  BetweenInv'
  <1> DEFINE n == IF base = Scrollback THEN 1 ELSE 0
             made == SelectionBetween(current.start, current.end)
  <1>1. /\ sel' = Trimmed(n) /\ trimmed' = trimmed + n
        /\ columns' = columns /\ resized' = resized /\ UpdateControls(current)
    BY DEF Output
  <1>2. n \in Nat /\ trimmed \in Nat
    BY DEF BetweenInv
  <1>3. trimmed' \in Nat
    BY <1>1, <1>2
  <1> HIDE DEF n
  <1>4. ASSUME sel' # None, ~resized
        PROVE  /\ current'.start.column < columns' /\ current'.end.column < columns'
               /\ sel' = [made EXCEPT !.row = Larger(@ - trimmed', 0)]
    <2>1. sel # None /\ current' = current /\ sel' = [sel EXCEPT !.row = Larger(@ - n, 0)]
      BY <1>1, <1>4 DEF Trimmed, UpdateControls
    <2>2. /\ current.start.column < columns /\ current.end.column < columns
          /\ sel = [made EXCEPT !.row = Larger(@ - trimmed, 0)]
      BY <1>4, <2>1 DEF BetweenInv
    <2>3. made \in Selection
      <3>1. current \in Endpoints /\ columns \in Nat \ {0}
        BY <2>1 DEF IInv, TypeInv, ControlsMatchSelection
      <3>2. QED
        BY <3>1, SelectionTyped DEF Endpoints
    <2> HIDE DEF made
    <2>4. Larger(Larger(made.row - trimmed, 0) - n, 0) = Larger(made.row - trimmed', 0)
      BY <1>1, <1>2, <2>3, LostLines DEF Selection
    <2>5. sel' = [made EXCEPT !.row = Larger(@ - trimmed', 0)]
      BY <2>1, <2>2, <2>3, <2>4 DEF Selection
    <2>6. QED
      BY <1>1, <2>1, <2>2, <2>5
  <1>5. sel' # None => SelectionBetween(current.start, current.end)' = made
    BY <1>1 DEF SelectionBetween, UpdateControls
  <1>6. QED
    BY <1>1, <1>3, <1>4, <1>5 DEF BetweenInv

LEMMA ResizeBetween ==
  ASSUME BetweenInv, Resize
  PROVE  BetweenInv'
  <1>1. PICK n \in {0, 1} : trimmed' = trimmed + n
    BY DEF Resize
  <1>2. trimmed' \in Nat /\ resized' = TRUE
    BY <1>1 DEF Resize, BetweenInv
  <1>3. QED
    BY <1>2 DEF BetweenInv

LEMMA BetweenSteps == IInv /\ BetweenInv /\ [Next]_vars => BetweenInv'
  <1> SUFFICES ASSUME IInv, BetweenInv, [Next]_vars PROVE BetweenInv'
    OBVIOUS
  <1>1. CASE \E f \in Fingers : TouchSecond(f) \/ TouchHandle(f) \/ TouchToolbar(f) \/ TouchText(f) \/ TouchEnds(f)
    <2>1. PICK f \in Fingers :
            TouchSecond(f) \/ TouchHandle(f) \/ TouchToolbar(f) \/ TouchText(f) \/ TouchEnds(f)
      BY <1>1
    <2>2. CASE TouchSecond(f) \/ TouchHandle(f) \/ TouchToolbar(f) \/ TouchEnds(f)
      <3>1. UNCHANGED <<columns, selection>>
        BY <2>2 DEF TouchSecond, TouchHandle, TouchToolbar, TouchEnds, TouchStarts, terminal
      <3>2. QED
        BY <3>1, SameBetween
    <2>3. CASE TouchText(f)
      BY <2>3, NoneBetween DEF TouchText, ClearSelection
    <2>4. QED
      BY <2>1, <2>2, <2>3
  <1>2. CASE LongPress
    <2>1. columns' = columns
      BY <1>2 DEF LongPress, terminal
    <2>2. CASE anchor \in Cells
      <3>1. word' \in WordSelections(anchor) /\ SelectBetween(word'.start, word'.end)
        BY <1>2, <2>2 DEF LongPress
      <3>2. word'.start \in Position /\ word'.end \in Position
        BY <2>2, <3>1, WordAround
      <3>3. QED
        BY <2>1, <3>1, <3>2, SelectBetweenBetween
    <2>3. CASE anchor \notin Cells
      BY <1>2, <2>1, <2>3, SameBetween DEF LongPress
    <2>4. QED
      BY <2>2, <2>3
  <1>3. CASE Drags
    <2>1. columns' = columns /\ selecting
      BY <1>3 DEF Drags, terminal
    <2>2. PICK cell \in OnScreen : SelectBetween(FixedEndpoint(cell), cell)
      BY <1>3 DEF Drags
    <2>3. cell \in Position
      BY CellsArePositions DEF OnScreen, IInv, TypeInv
    <2>4. FixedEndpoint(cell) \in Position
      BY <2>1, <2>3, FarEndStays
    <2>5. QED
      BY <2>1, <2>2, <2>3, <2>4, SelectBetweenBetween
  <1>4. CASE MovesAway \/ DisposeControls \/ Scroll \/ UNCHANGED vars
    <2>1. UNCHANGED <<columns, selection>>
      BY <1>4 DEF MovesAway, DisposeControls, Scroll, vars, terminal
    <2>2. QED
      BY <2>1, SameBetween
  <1>5. CASE PressButton \/ UserInput
    BY <1>5, NoneBetween DEF PressButton, UserInput
  <1>6. CASE Output \/ Resize
    BY <1>6, OutputBetween, ResizeBetween
  <1>7. QED
    BY <1>1, <1>2, <1>3, <1>4, <1>5, <1>6 DEF Next

\* What the invariant says is what the screen shows.
LEMMA Shows == IInv /\ BetweenInv => SelectionIsBetweenEndpoints
  <1> SUFFICES ASSUME IInv, BetweenInv, sel # None, ~resized, trimmed = 0
               PROVE  Highlighted = {cell \in Cells : Within(cell, current)}
    BY DEF BetweenInv, SelectionIsBetweenEndpoints
  <1> DEFINE s == current.start
             e == current.end
             made == SelectionBetween(s, e)
  <1>1. columns \in Nat \ {0} /\ base \in Nat
    BY DEF IInv, TypeInv
  <1>2. current \in Endpoints /\ UpTo(s, e)
    BY DEF IInv, TypeInv, OrderInv, ControlsMatchSelection
  <1>3. s \in Position /\ e \in Position
    BY <1>2 DEF Endpoints
  <1>4. s.column < columns /\ e.column < columns /\ sel = [made EXCEPT !.row = Larger(@ - 0, 0)]
    BY DEF BetweenInv
  <1>5. made = [column |-> s.column, row |-> s.row,
                length |-> (e.row - s.row) * columns + e.column - s.column + 1]
    BY <1>2 DEF SelectionBetween, Ordered
  <1>6. Larger(s.row - 0, 0) = s.row
    BY <1>3 DEF Larger, Position
  <1>7. /\ sel.column = s.column /\ sel.row = s.row
        /\ sel.length = (e.row - s.row) * columns + e.column - s.column + 1
    BY <1>4, <1>5, <1>6
  <1> HIDE DEF s, e, made
  <1>8. FinalSelectionEnd = Cell(e.column + 1, e.row)
    BY <1>1, <1>2, <1>3, <1>4, <1>7, FinalEnd
  <1>9. ASSUME NEW cell \in Cells
        PROVE  /\ UpTo(Cell(sel.column, sel.row), cell) <=> UpTo(s, cell)
               /\ ~UpTo(FinalSelectionEnd, cell) <=> UpTo(cell, e)
    <2>1. cell \in Position
      BY <1>1, CellsArePositions
    <2>2. UpTo(Cell(sel.column, sel.row), cell) <=> UpTo(s, cell)
      BY <1>7 DEF UpTo, Cell
    <2>3. ~UpTo(Cell(e.column + 1, e.row), cell) <=> UpTo(cell, e)
      BY <1>3, <2>1 DEF UpTo, Cell, Position
    <2>4. QED
      BY <1>8, <2>2, <2>3
  <1>10. Highlighted = {cell \in Cells : UpTo(s, cell) /\ UpTo(cell, e)}
    BY <1>9 DEF Highlighted
  <1>11. QED
    BY <1>10 DEF Within, s, e

\* As long as the terminal keeps its width, what xterm.js highlights is what lies
\* between the two handles, over any number of lines and at any column, the last
\* one and its division without a remainder included.
THEOREM Between == Spec => []SelectionIsBetweenEndpoints
  <1>1. Init => BetweenInv
    BY DEF Init, BetweenInv
  <1>2. QED
    BY Invariance, <1>1, BetweenSteps, Shows, PTL DEF Spec
===============================================================================
