CONSTANTS
  U8 = 256
  RATIOS = {0, 1, 3}
  NUK_JIN_DEBUG = FALSE
  MAX_RECENT = 2
SPECIFICATION SplitSpec
INVARIANTS PathKnown
