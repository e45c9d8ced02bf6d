SPECIFICATION RaSpec
CONSTANTS
  PREAMBLE_TRANS_MAX = 2
  MAX_MSG3_TX = 2
  MAX_HARQ_TX = 3
  MAX_RNTIS = 3
  MAX_STARTS = 2
  MAX_HANDOVERS = 1
  MAX_DISTURBANCES = 1
INVARIANTS HandoverKeepsRnti
CHECK_DEADLOCK FALSE
