SPECIFICATION Spec
CONSTANTS
  ByteMod = 16
  HexBase = 4
  LongMax = 2147483647
  COLS = 2
  ROWS = 1
  WIDTH = 2
  HEIGHT = 2
  SCREENBUFFER = 8
  HUB75_BASE = 33024
  COLOR_SUPPORTED = TRUE
  ColorMod = 8
  LEDS_ADDR = 32768
  SCREENBUFFER_BASE_ADDR = 33280
  FONTRAM_BASE_ADDR = 36864
  SPRAM_BASE_ADDR = 61440
  MainSize = 20
  SpramSize = 4
  FONT_WIDTH = 2
  FONT_HEIGHT = 2
  ByteBits = 4
  Programs <- MCPrograms
  Options <- MCOptions
  Image <- MCImage
  Font <- MCFont
INVARIANT NothingReadFreed
PROPERTIES FrameShowsProgram ThreadsEnd
