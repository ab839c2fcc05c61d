\* Two widths, a screen of two lines and one line above it, two fingers.
SPECIFICATION Spec
CONSTANTS
  Widths = {2, 3}
  Rows = 2
  Scrollback = 1
  Fingers = {f1, f2}
  MaxLines = 3
  MaxResizes = 1
  None = none
INVARIANT SelectionIsBetweenEndpoints
INVARIANT ControlsMatchSelection
INVARIANT AnchorStaysSelected
INVARIANT TimerIsForRestingFinger
CHECK_DEADLOCK FALSE
