CONSTANTS
  WINDOW = 2
  MOD = 4
  GRANTS = {"seg", "full"}
  SDU_SIZES = {1}
  TX_QUEUE_LENGTH = 1
  POLL_PDU = 1
  POLL_PERIODICITY = 8
  MAX_RETX_THRESH = 1
  SEGMENT_NACKS = {}
  MAX_PDUS = 5
  MAX_RETX_QUEUE = 2
  T_STATUS_PROHIBIT = FALSE
  MAX_NACK_GRANTS = {0, 2}
  FAULTS = {{"reorder_ul"}}
  MAX_LOSS = 0
  MAX_REORDERED = 5
  MAX_DL = 2
  MAX_UL = 2
SPECIFICATION Spec
INVARIANTS AckedWasReceived
CHECK_DEADLOCK FALSE
