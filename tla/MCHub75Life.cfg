SPECIFICATION Spec
CONSTANTS
  PANEL_ROWS = 4
  PANEL_COLS = 4
  CELL_COLS = 4
  CELL_ROWS = 4
  PWM_STEPS = 2
  Color = {0, 1}
  Black = 0
  Bright = 1
  ClearAfter = 3
  Held <- MCHeld
INVARIANTS ShowsFinishedDrawings FrameIsGeneration AtMostTwoSwaps
PROPERTIES FollowsRule KeepsShowing
