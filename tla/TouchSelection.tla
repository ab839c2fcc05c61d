----------------------------- MODULE TouchSelection -----------------------------
(***************************************************************************)
(* Selecting text in the terminal by touch: the gestures and controls that  *)
(* attachTerminalTouchSelection adds to xterm.js, on one thread with the     *)
(* output, typing, scrolling and resizing that go on meanwhile.  A position  *)
(* is the cell that terminalCellFromPoint makes of it; pixels, the toolbar's *)
(* placement and what the lines say are left out, and so are selections made *)
(* with a mouse, which xterm.js handles by itself.                           *)
(***************************************************************************)
EXTENDS Integers

CONSTANTS Widths,      \* numbers of columns the terminal is given
          Rows,        \* rows of the screen
          Scrollback,  \* lines kept above the screen: 3000
          Fingers,
          MaxLines,    \* bound: lines of output
          MaxResizes,  \* bound
          None

ASSUME TouchAssumption ==
  /\ Widths \subseteq Nat \ {0} /\ Widths # {}
  /\ Rows \in Nat \ {0}
  /\ {Scrollback, MaxLines, MaxResizes} \subseteq Nat

VARIABLES
  columns,   \* terminal.cols
  base,      \* lines above the screen when it shows the newest: ybase
  top,       \* the line at the top of the screen: viewportY
  sel,       \* xterm.js's selection: its start and length
  current,   \* currentSelection
  shown,     \* the controls that are not hidden
  fingers,   \* the fingers on the screen
  active,    \* activeTouchIdentifier
  anchor,    \* selectionAnchor
  word,      \* longPressSelection
  selecting, \* isTouchSelecting
  timer,     \* longPressTimer is set
  disposed,
  lines,     \* counters of the bounds
  resizes,
  rested,    \* history: the active finger has stayed where it was put
  trimmed,   \* history: lines lost from the buffer since the last select
  resized    \* history: a resize since then

terminal == <<columns, base, top>>
selection == <<sel, current, shown, trimmed, resized>>
gesture == <<active, anchor, word, selecting, timer, rested>>
vars == <<terminal, selection, gesture, fingers, disposed, lines, resizes>>

Larger(m, n) == IF m > n THEN m ELSE n
Cell(column, row) == [column |-> column, row |-> row]
Position == [column : Nat, row : Nat]
Endpoints == [start : Position, end : Position]
Selection == [column : Nat, row : Nat, length : Int]

ASSUME NoneAssumption == None \notin Position \cup Endpoints \cup Selection

Cells == {Cell(c, r) : c \in 0..columns - 1, r \in 0..base + Rows - 1}
OnScreen == {cell \in Cells : cell.row \in top..top + Rows - 1}

\* compareTerminalCells(a, b) <= 0
UpTo(a, b) == a.row < b.row \/ (a.row = b.row /\ a.column <= b.column)

Ordered(a, b) == IF UpTo(a, b) THEN [start |-> a, end |-> b] ELSE [start |-> b, end |-> a]
Within(cell, ends) == UpTo(ends.start, cell) /\ UpTo(cell, ends.end)

\* Mutant of SelectionBetween: the last cell is left out.
SelectionBetween_Exclusive(a, b) ==
  LET ends == Ordered(a, b)
  IN [column |-> ends.start.column, row |-> ends.start.row,
      length |-> Larger(1, (ends.end.row - ends.start.row) * columns + ends.end.column - ends.start.column)]

\* terminalSelectionBetween, of two cells of the terminal
SelectionBetween(a, b) ==
  LET ends == Ordered(a, b)
  IN [column |-> ends.start.column, row |-> ends.start.row,
      length |-> (ends.end.row - ends.start.row) * columns + ends.end.column - ends.start.column + 1]

\* terminalWordSelection: the cells of a word around a cell, or that cell alone.
\* The line's text decides how far the word goes on either side, and may be any.
WordSelections(cell) ==
  {[start |-> Cell(first, cell.row), end |-> Cell(last, cell.row)] :
     first \in 0..cell.column, last \in cell.column..columns - 1}

\* The end of the selection in xterm.js (finalSelectionEnd), one past its last cell.
FinalSelectionEnd ==
  LET n == sel.column + sel.length
  IN IF n <= columns THEN Cell(n, sel.row)
     ELSE IF n % columns = 0 THEN Cell(columns, sel.row + n \div columns - 1)
     ELSE Cell(n % columns, sel.row + n \div columns)

Highlighted ==
  {cell \in Cells : UpTo(Cell(sel.column, sel.row), cell) /\ ~UpTo(FinalSelectionEnd, cell)}

-----------------------------------------------------------------------------
Init ==
  /\ columns \in Widths /\ base = 0 /\ top = 0
  /\ sel = None /\ current = None /\ shown = {}
  /\ fingers = {} /\ disposed = FALSE
  /\ active = None /\ anchor = None /\ word = None
  /\ selecting = FALSE /\ timer = FALSE
  /\ lines = 0 /\ resizes = 0
  /\ rested = FALSE /\ trimmed = 0 /\ resized = FALSE

\* The handles of the endpoints whose cells are on the screen.
Handles(ends) ==
  IF ends = None THEN {}
  ELSE {edge \in {"start", "end"} :
          ends[edge].column < columns' /\ ends[edge].row \in top'..top' + Rows - 1}

\* Mutant of UpdateControls: the endpoints outlive the selection.
UpdateControls_KeepsEnds(ends) ==
  /\ current' = ends
  /\ shown' = IF sel' = None THEN {} ELSE {"toolbar"} \cup Handles(ends)

\* updateSelectionControls, with these endpoints in currentSelection.
UpdateControls(ends) ==
  /\ current' = IF sel' = None THEN None ELSE ends
  /\ shown' = IF sel' = None THEN {} ELSE {"toolbar"} \cup Handles(current')

\* terminal.clearSelection, which reports the change.
ClearSelection == sel' = None /\ UpdateControls(current) /\ UNCHANGED <<trimmed, resized>>

\* selectBetween: a cell of an earlier, wider terminal selects nothing.
SelectBetween(a, b) ==
  IF a.column < columns /\ b.column < columns
  THEN /\ sel' = SelectionBetween(a, b)
       /\ trimmed' = 0 /\ resized' = FALSE
       /\ UpdateControls(Ordered(a, b))
  ELSE UNCHANGED selection

-----------------------------------------------------------------------------
(* Touches *)

\* Mutant of ResetGesture: the timer runs on.
ResetGesture_KeepsTimer ==
  /\ active' = None /\ anchor' = None /\ word' = None /\ selecting' = FALSE
  /\ UNCHANGED <<timer, rested>>

ResetGesture ==
  /\ active' = None /\ anchor' = None /\ word' = None /\ selecting' = FALSE /\ timer' = FALSE
  /\ UNCHANGED rested

TouchStarts(f) ==
  /\ ~disposed /\ f \notin fingers
  /\ fingers' = fingers \cup {f}
  /\ UNCHANGED <<terminal, disposed, lines, resizes>>

\* Another finger ends the gesture.
TouchSecond(f) ==
  /\ TouchStarts(f) /\ fingers # {}
  /\ ResetGesture
  /\ UNCHANGED selection

\* A handle is touched: the nearer one is dragged, the other end is the anchor.
TouchHandle(f) ==
  /\ TouchStarts(f) /\ fingers = {}
  /\ \E edge \in shown \ {"toolbar"} :
       /\ current # None
       /\ anchor' = IF edge = "start" THEN current.end ELSE current.start
  /\ active' = f /\ word' = None /\ selecting' = TRUE /\ timer' = FALSE
  /\ UNCHANGED <<selection, rested>>

TouchToolbar(f) ==
  /\ TouchStarts(f) /\ fingers = {} /\ "toolbar" \in shown
  /\ ResetGesture
  /\ UNCHANGED selection

\* A touch of the text gives up the selection and starts the timer, unless the
\* screen has no size.
TouchText(f) ==
  /\ TouchStarts(f) /\ fingers = {}
  /\ ClearSelection
  /\ \/ ResetGesture
     \/ /\ anchor' \in OnScreen
        /\ active' = f /\ word' = None /\ selecting' = FALSE /\ timer' = TRUE
        /\ rested' = TRUE

\* The timer of 450 ms: the word under the finger, as the line then reads.
LongPress ==
  /\ UNCHANGED <<terminal, fingers, disposed, lines, resizes, active, anchor, rested>>
  /\ timer
  /\ timer' = FALSE
  /\ IF anchor \in Cells
     THEN /\ word' \in WordSelections(anchor)
          /\ SelectBetween(word'.start, word'.end)
          /\ selecting' = TRUE
     ELSE word' = None /\ selecting' = FALSE /\ UNCHANGED selection

\* The finger goes further than a resting finger does.
MovesAway ==
  /\ ~disposed /\ active \in fingers /\ ~selecting
  /\ timer' = FALSE /\ rested' = FALSE
  /\ UNCHANGED <<terminal, selection, fingers, disposed, lines, resizes, active, anchor, word, selecting>>

\* Mutant of FixedEndpoint: the wrong end of the word stays.
FixedEndpoint_Swapped(cell) ==
  IF word = None THEN anchor ELSE IF UpTo(anchor, cell) THEN word.end ELSE word.start

\* The end that stays: that of the word on the far side of the finger.
FixedEndpoint(cell) ==
  IF word = None THEN anchor ELSE IF UpTo(anchor, cell) THEN word.start ELSE word.end

Drags ==
  /\ UNCHANGED <<terminal, gesture, fingers, disposed, lines, resizes>>
  /\ ~disposed /\ active \in fingers /\ selecting
  /\ \E cell \in OnScreen : SelectBetween(FixedEndpoint(cell), cell)

\* touchend or touchcancel
TouchEnds(f) ==
  /\ f \in fingers
  /\ fingers' = fingers \ {f}
  /\ IF f = active /\ ~disposed THEN ResetGesture ELSE UNCHANGED gesture
  /\ UNCHANGED <<terminal, selection, disposed, lines, resizes>>

\* Copy, Paste or close, pressed with a finger or a pointer; a text that is too
\* long is not copied and stays selected.
PressButton ==
  /\ UNCHANGED <<trimmed, resized, terminal, gesture, fingers, disposed, lines, resizes>>
  /\ ~disposed /\ "toolbar" \in shown
  /\ sel' = None /\ UpdateControls(None)

DisposeControls ==
  /\ ~disposed
  /\ disposed' = TRUE
  /\ ResetGesture
  /\ UNCHANGED <<terminal, selection, fingers, lines, resizes>>

-----------------------------------------------------------------------------
(* xterm.js *)

\* handleTrim: the selection follows its line, to the first line and no further.
Trimmed(n) == IF sel = None THEN None ELSE [sel EXCEPT !.row = Larger(@ - n, 0)]

\* A line of output.  A full buffer loses its first line; a screen that the user
\* has scrolled up stays on its text.  Scrolling is reported.
Output ==
  /\ UNCHANGED <<columns, resized, gesture, fingers, disposed, resizes>>
  /\ ~disposed /\ lines < MaxLines
  /\ lines' = lines + 1
  /\ LET n == IF base = Scrollback THEN 1 ELSE 0
         following == top = base
     IN /\ base' = base + 1 - n
        /\ top' = IF following THEN base' ELSE Larger(top - n, 0)
        /\ sel' = Trimmed(n)
        /\ trimmed' = trimmed + n
  /\ UpdateControls(current)

\* Typing scrolls to the newest line and gives up the selection, if any.
UserInput ==
  /\ UNCHANGED <<columns, base, trimmed, resized, gesture, fingers, disposed, lines, resizes>>
  /\ ~disposed
  /\ top' = base /\ sel' = None
  /\ UpdateControls(current)

\* The scroll bar or a wheel: xterm.js does not report it.
Scroll ==
  /\ top' \in 0..base \ {top}
  /\ UNCHANGED <<columns, base, selection, gesture, fingers, disposed, lines, resizes>>

\* Another width: lines are wrapped anew, and the buffer may be longer, shorter
\* or lose its first line.
Resize ==
  /\ ~disposed /\ resizes < MaxResizes
  /\ resizes' = resizes + 1
  /\ columns' \in Widths \ {columns}
  /\ base' \in 0..Scrollback
  /\ top' \in 0..base'
  /\ \E n \in {0, 1} : sel' = Trimmed(n) /\ trimmed' = trimmed + n
  /\ resized' = TRUE
  /\ UpdateControls(current)
  /\ UNCHANGED <<gesture, fingers, disposed, lines>>

-----------------------------------------------------------------------------
Next ==
  \/ \E f \in Fingers : TouchSecond(f) \/ TouchHandle(f) \/ TouchToolbar(f) \/ TouchText(f) \/ TouchEnds(f)
  \/ LongPress \/ MovesAway \/ Drags \/ PressButton \/ DisposeControls
  \/ Output \/ UserInput \/ Scroll \/ Resize

Spec == Init /\ [][Next]_vars

-----------------------------------------------------------------------------
(* Properties *)

\* What xterm.js highlights is what lies between the two handles, over as many
\* lines as it takes; lines lost from the buffer move the highlighting and not
\* the endpoints, and only a resize can part the two in another way.
SelectionIsBetweenEndpoints ==
  sel # None /\ ~resized =>
    /\ sel = [SelectionBetween(current.start, current.end) EXCEPT !.row = Larger(@ - trimmed, 0)]
    /\ trimmed = 0 /\ current.end \in Cells => Highlighted = {cell \in Cells : Within(cell, current)}

\* The toolbar is there when something is selected and never else, whoever took
\* the selection away (a finger, a button, typing); endpoints to drag are kept
\* just as long, and a handle needs them ("selection controls that remained after
\* Copy", docs/ux-spike-results.md).
ControlsMatchSelection ==
  /\ ("toolbar" \in shown) = (sel # None)
  /\ (current # None) = (sel # None)
  /\ current = None => shown = {}

\* While a finger selects, the cell it pressed, or the end opposite to the handle
\* it took, stays selected, on whichever side the finger goes; a pressed word
\* keeps one of its ends.
AnchorStaysSelected ==
  selecting /\ current # None =>
    /\ Within(anchor, current)
    /\ IF word = None THEN anchor \in {current.start, current.end}
       ELSE current.start = word.start \/ current.end = word.end

\* A long press that is pending belongs to the one finger on the screen, which
\* rests where it was put: no timer of an ended, moved or multi-finger gesture
\* selects a word later on.
TimerIsForRestingFinger ==
  timer => fingers = {active} /\ rested /\ ~selecting /\ anchor # None /\ word = None
===============================================================================
