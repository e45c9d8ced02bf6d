CONSTANTS
  WINDOW = 3
  MOD = 6
  GRANTS = {"full"}
  SDU_SIZES = {1}
  TX_QUEUE_LENGTH = 2
  POLL_PDU = 1
  POLL_PERIODICITY = 8
  MAX_RETX_THRESH = 1
  SEGMENT_NACKS = {}
  MAX_PDUS = 3
  MAX_RETX_QUEUE = 2
  T_STATUS_PROHIBIT = FALSE
  MAX_NACK_GRANTS = {2}
  FAULTS = {{"reorder_dl"}}
  MAX_LOSS = 0
  MAX_REORDERED = 3
  MAX_DL = 2
  MAX_UL = 1
SPECIFICATION FairSpec
PROPERTIES PollsAnswered
CHECK_DEADLOCK FALSE
