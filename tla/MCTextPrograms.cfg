SPECIFICATION Spec
CONSTANTS
  COLS = 8
  ROWS = 2
  FONT_W = 2
  FONT_H = 2
  LINE = 17
  SCREEN = 6
  VS_STA = 4
  VS_END = 5
  Char <- MCChar
  Undefined = "undefined"
  ColorPair <- MCColorPair
  InitialColor <- MCInitialColor
  Glyph <- MCGlyph
  CELL_COLS = 8
  CELL_ROWS = 4
  Held <- MCHeld
  Mains = {"cgol", "cgol_color", "image_show"}
  Status <- MCStatus
  Behind <- MCBehind
  ClearAfter = 10
  Pictures <- MCPictures
  White = "white"
  Red = "red"
  Black = "black"
INVARIANTS FrameIsScreen ShowsGeneration
