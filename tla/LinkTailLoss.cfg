CONSTANTS
  WINDOW = 2
  MOD = 4
  GRANTS = {"full"}
  SDU_SIZES = {1}
  TX_QUEUE_LENGTH = 1
  POLL_PDU = 1
  POLL_PERIODICITY = 8
  MAX_RETX_THRESH = 1
  SEGMENT_NACKS = {}
  MAX_PDUS = 2
  MAX_RETX_QUEUE = 2
  T_STATUS_PROHIBIT = FALSE
  MAX_NACK_GRANTS = {2}
  FAULTS = {{"loss"}}
  MAX_LOSS = 1
  MAX_REORDERED = 2
  MAX_DL = 2
  MAX_UL = 1
SPECIFICATION FairSpec
PROPERTIES EverythingDelivered
CHECK_DEADLOCK FALSE
