CONSTANTS
  SN_MOD = 4
  REORDERING_WINDOW = 2
  HFN_MOD = 4
  PATHS = {{"MeNB", "SeNB"}}
  SKEW = 2
  MAX_COUNT = 4
SPECIFICATION Spec
INVARIANTS GwGetsEachOnce
CHECK_DEADLOCK FALSE
