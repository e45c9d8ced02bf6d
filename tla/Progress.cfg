CONSTANTS
  WINDOW = 2
  MOD = 4
  GRANTS = {"full"}
  SDU_SIZES = {1}
  TX_QUEUE_LENGTH = 1
  POLL_PDU = 1
  POLL_PERIODICITY = 8
  MAX_RETX_THRESH = 1
  SEGMENT_NACKS = {}
  MAX_PDUS = 5
  MAX_RETX_QUEUE = 2
  T_STATUS_PROHIBIT = TRUE
  MAX_NACK_GRANTS = {2}
  FAULTS = {{"reorder_dl"}}
  MAX_LOSS = 0
  MAX_REORDERED = 5
  MAX_DL = 2
  MAX_UL = 1
  PREAMBLE_TRANS_MAX = 2
  MAX_MSG3_TX = 2
  MAX_HARQ_TX = 3
  MAX_RNTIS = 3
  MAX_STARTS = 2
  MAX_HANDOVERS = 1
  MAX_DISTURBANCES = 1
SPECIFICATION ProgressSpec
INVARIANTS RaTypeOK RntiIsOurs TimerBelongsToMsg3
PROPERTIES EverythingDelivered RandomAccessEnds HandoverAnswered
CHECK_DEADLOCK FALSE
